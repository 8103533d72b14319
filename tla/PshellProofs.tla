---------------------------- MODULE PshellProofs ----------------------------
(***************************************************************************)
(* Proofs about Pshell for every value of its constants: types, the tree   *)
(* and the handles, after lemmas on sequences and on the trees of Storage. *)
(***************************************************************************)
EXTENDS Pshell, FiniteSetTheorems, TLAPS

(* Sequences of anything. *)

\* A sequence is one over the values it has.
LEMMA OfAny ==
  ASSUME NEW T, NEW s \in Seq(T)
  PROVE  IsSequence(s)
<1>1. s \in [1 .. Len(s) -> ToSet(s)] /\ Len(s) \in Nat
  BY DEF ToSet
<1>2. QED BY <1>1 DEF IsSequence

\* A function on 1 .. n is a sequence.
LEMMA OfFunction ==
  ASSUME NEW n \in Nat, NEW s, DOMAIN s = 1 .. n, s = [k \in 1 .. n |-> s[k]]
  PROVE  IsSequence(s) /\ Len(s) = n
<1>1. s \in [1 .. n -> ToSet(s)]
  BY DEF ToSet
<1>2. s \in Seq(ToSet(s)) /\ Len(s) = n
  BY <1>1
<1>3. QED BY <1>2 DEF IsSequence

\* The domain of a sequence.
LEMMA SequenceFacts ==
  ASSUME NEW s, IsSequence(s)
  PROVE  Len(s) \in Nat /\ DOMAIN s = 1 .. Len(s)
BY DEF IsSequence

\* Two sequences are over some set.
LEMMA Common ==
  ASSUME NEW s, IsSequence(s), NEW T
  PROVE  s \in Seq(ToSet(s) \cup T)
<1>1. s \in [1 .. Len(s) -> ToSet(s)] /\ Len(s) \in Nat
  BY DEF IsSequence
<1>2. s \in [1 .. Len(s) -> ToSet(s) \cup T]
  BY <1>1
<1>3. QED BY <1>1, <1>2

\* Sequences of one length with the same elements are equal.
LEMMA SameSequence ==
  ASSUME NEW s, NEW t, IsSequence(s), IsSequence(t), Len(s) = Len(t), \A k \in 1 .. Len(s) : s[k] = t[k]
  PROVE  s = t
<1> DEFINE T == ToSet(s) \cup ToSet(t)
<1>1. s \in Seq(T) /\ t \in Seq(T)
  BY Common
<1> HIDE DEF T
<1>2. QED BY <1>1

\* Concatenation, for sequences of anything.
LEMMA CatFacts ==
  ASSUME NEW s, NEW t, IsSequence(s), IsSequence(t)
  PROVE  /\ IsSequence(s \o t)
         /\ Len(s \o t) = Len(s) + Len(t)
         /\ \A k \in 1 .. Len(s) : (s \o t)[k] = s[k]
         /\ \A k \in 1 .. Len(t) : (s \o t)[Len(s) + k] = t[k]
<1> DEFINE T == ToSet(s) \cup ToSet(t)
<1>1. s \in Seq(T) /\ t \in Seq(T)
  BY Common
<1> HIDE DEF T
<1>2. s \o t \in Seq(T)
  BY <1>1
<1>3. IsSequence(s \o t)
  BY <1>2, OfAny
<1>4. Len(s \o t) = Len(s) + Len(t)
  BY <1>1
<1>5. \A k \in 1 .. Len(s) : (s \o t)[k] = s[k]
  BY <1>1
<1>6. \A k \in 1 .. Len(t) : (s \o t)[Len(s) + k] = t[k]
  BY <1>1
<1>7. QED BY <1>3, <1>4, <1>5, <1>6

\* Subsequences, for sequences of anything.
LEMMA SubFacts ==
  ASSUME NEW s, IsSequence(s), NEW m \in 1 .. Len(s) + 1, NEW n \in m - 1 .. Len(s)
  PROVE  /\ IsSequence(SubSeq(s, m, n))
         /\ Len(SubSeq(s, m, n)) = n - m + 1
         /\ \A k \in 1 .. n - m + 1 : SubSeq(s, m, n)[k] = s[m + k - 1]
<1>1. s \in Seq(ToSet(s)) /\ Len(s) \in Nat
  BY DEF IsSequence
<1>2. SubSeq(s, m, n) \in Seq(ToSet(s))
  BY <1>1
<1>3. IsSequence(SubSeq(s, m, n))
  BY <1>2, OfAny
<1>4. Len(SubSeq(s, m, n)) = n - m + 1
  BY <1>1
<1>5. \A k \in 1 .. n - m + 1 : SubSeq(s, m, n)[k] = s[m + k - 1]
  BY <1>1
<1>6. QED BY <1>3, <1>4, <1>5

\* Append, for sequences of anything.
LEMMA AppendFacts ==
  ASSUME NEW s, IsSequence(s), NEW e
  PROVE  /\ IsSequence(Append(s, e))
         /\ Len(Append(s, e)) = Len(s) + 1
         /\ \A k \in 1 .. Len(s) : Append(s, e)[k] = s[k]
         /\ Append(s, e)[Len(s) + 1] = e
<1> DEFINE T == ToSet(s) \cup {e}
<1>1. s \in Seq(T)
  BY Common
<1>2. e \in T
  OBVIOUS
<1> HIDE DEF T
<1>3. Append(s, e) \in Seq(T)
  BY <1>1, <1>2
<1>4. IsSequence(Append(s, e))
  BY <1>3, OfAny
<1>5. Len(Append(s, e)) = Len(s) + 1
  BY <1>1, <1>2
<1>6. \A k \in 1 .. Len(s) : Append(s, e)[k] = s[k]
  BY <1>1, <1>2
<1>7. Append(s, e)[Len(s) + 1] = e
  BY <1>1, <1>2
<1>8. QED BY <1>4, <1>5, <1>6, <1>7

\* Front, of a sequence that is not empty.
LEMMA FrontFacts ==
  ASSUME NEW s, IsSequence(s), s # << >>
  PROVE  /\ IsSequence(Front(s)) /\ Len(s) >= 1
         /\ Len(Front(s)) = Len(s) - 1
         /\ \A k \in 1 .. Len(s) - 1 : Front(s)[k] = s[k]
         /\ s = Append(Front(s), s[Len(s)])
<1>1. Len(s) \in Nat /\ Len(s) # 0
  <2>1. s \in Seq(ToSet(s))
    BY DEF IsSequence
  <2>2. QED BY <2>1
<1> DEFINE n == Len(s) - 1
<1>2. 1 \in 1 .. Len(s) + 1 /\ n \in 0 .. Len(s) /\ n - 1 + 1 = n /\ Front(s) = SubSeq(s, 1, n)
  BY <1>1 DEF Front
<1>3. IsSequence(Front(s)) /\ Len(Front(s)) = n
  BY <1>2, <1>1, SubFacts
<1>4. \A k \in 1 .. n : Front(s)[k] = s[k]
  <2>1. \A k \in 1 .. n - 1 + 1 : SubSeq(s, 1, n)[k] = s[1 + k - 1]
    BY <1>1, <1>2, SubFacts
  <2>2. QED BY <2>1, <1>1, <1>2
<1>5. s = Append(Front(s), s[Len(s)])
  <2> DEFINE a == Append(Front(s), s[Len(s)])
  <2>1. IsSequence(a) /\ Len(a) = Len(s)
    BY <1>1, <1>3, AppendFacts
  <2>2. \A k \in 1 .. n : a[k] = s[k]
    BY <1>3, <1>4, AppendFacts
  <2>3. a[Len(s)] = s[Len(s)]
    BY <1>1, <1>3, AppendFacts
  <2> HIDE DEF a
  <2>4. \A k \in 1 .. Len(s) : s[k] = a[k]
    BY <2>2, <2>3, <1>1
  <2>5. QED BY <2>1, <2>4, SameSequence DEF a
<1>6. QED BY <1>1, <1>3, <1>4, <1>5

\* Tail, of a sequence that is not empty.
LEMMA TailFacts ==
  ASSUME NEW s, IsSequence(s), s # << >>
  PROVE  IsSequence(Tail(s)) /\ Len(Tail(s)) = Len(s) - 1 /\ \A k \in 1 .. Len(s) - 1 : Tail(s)[k] = s[k + 1]
<1>1. s \in Seq(ToSet(s))
  BY DEF IsSequence
<1>2. Tail(s) \in Seq(ToSet(s))
  BY <1>1
<1>3. IsSequence(Tail(s))
  BY <1>2, OfAny
<1>4. QED BY <1>1, <1>3

LEMMA OneFacts ==
  ASSUME NEW e
  PROVE  IsSequence(<<e>>) /\ Len(<<e>>) = 1 /\ <<e>>[1] = e
<1>1. <<e>> \in Seq({e})
  OBVIOUS
<1>2. QED BY <1>1, OfAny

\* What follows the first n elements, if there is so much.
LEMMA RestFacts ==
  ASSUME NEW s, IsSequence(s), NEW n \in Nat
  PROVE  IsSequence(SubSeq(s, n + 1, Len(s))) /\ ToSet(SubSeq(s, n + 1, Len(s))) \subseteq ToSet(s)
<1>1. s \in Seq(ToSet(s)) /\ Len(s) \in Nat
  BY DEF IsSequence
<1>2. SubSeq(s, n + 1, Len(s)) \in Seq(ToSet(s))
  BY <1>1
<1>3. IsSequence(SubSeq(s, n + 1, Len(s)))
  BY <1>2, OfAny
<1>4. \A k \in DOMAIN SubSeq(s, n + 1, Len(s)) : SubSeq(s, n + 1, Len(s))[k] \in ToSet(s)
  BY <1>2
<1>5. QED BY <1>3, <1>4 DEF ToSet

\* The last element replaced.
LEMMA TopFacts ==
  ASSUME NEW s, IsSequence(s), s # << >>, NEW e
  PROVE  /\ IsSequence(Append(Front(s), e))
         /\ Len(Append(Front(s), e)) = Len(s) /\ Len(s) \in Nat /\ Len(s) >= 1
         /\ \A k \in 1 .. Len(s) : Append(Front(s), e)[k] = IF k = Len(s) THEN e ELSE s[k]
<1> DEFINE f == Front(s)
<1>1. IsSequence(f) /\ Len(s) \in Nat /\ Len(s) >= 1 /\ Len(f) = Len(s) - 1 /\ \A k \in 1 .. Len(s) - 1 : f[k] = s[k]
  BY FrontFacts, SequenceFacts
<1> HIDE DEF f
<1>2. IsSequence(Append(f, e)) /\ Len(Append(f, e)) = Len(f) + 1
      /\ (\A k \in 1 .. Len(f) : Append(f, e)[k] = f[k]) /\ Append(f, e)[Len(f) + 1] = e
  BY <1>1, AppendFacts
<1>3. QED BY <1>1, <1>2 DEF f

\* A prefix, said by elements.
LEMMA PrefixFacts ==
  ASSUME NEW s, NEW t, IsSequence(s), IsSequence(t)
  PROVE  Under(s, t) <=> Len(s) <= Len(t) /\ \A k \in 1 .. Len(s) : s[k] = t[k]
<1>1. Len(s) \in Nat /\ Len(t) \in Nat
  BY SequenceFacts
<1>2. IsSequence(SubSeq(s, 1, Len(s))) /\ Len(SubSeq(s, 1, Len(s))) = Len(s)
      /\ \A k \in 1 .. Len(s) : SubSeq(s, 1, Len(s))[k] = s[k]
  BY <1>1, SubFacts
<1>3. CASE Len(s) <= Len(t)
  <2>1. IsSequence(SubSeq(t, 1, Len(s))) /\ Len(SubSeq(t, 1, Len(s))) = Len(s)
        /\ \A k \in 1 .. Len(s) : SubSeq(t, 1, Len(s))[k] = t[k]
    BY <1>1, <1>3, SubFacts
  <2>2. SubSeq(s, 1, Len(s)) = SubSeq(t, 1, Len(s)) <=> \A k \in 1 .. Len(s) : s[k] = t[k]
    BY <1>2, <2>1, SameSequence
  <2>3. QED BY <2>2, <1>3 DEF Under, IsPrefix
<1>4. CASE ~(Len(s) <= Len(t))
  BY <1>4 DEF Under, IsPrefix
<1>5. QED BY <1>3, <1>4
-----------------------------------------------------------------------------
(* Trees. *)

\* The path to a prefix of a path.
LEMMA WholePrefix ==
  ASSUME NEW p, IsSequence(p)
  PROVE  SubSeq(p, 1, Len(p)) = p
<1>1. Len(p) \in Nat
  BY SequenceFacts
<1>2. IsSequence(SubSeq(p, 1, Len(p))) /\ Len(SubSeq(p, 1, Len(p))) = Len(p)
      /\ \A i \in 1 .. Len(p) : SubSeq(p, 1, Len(p))[i] = p[i]
  BY <1>1, SubFacts
<1>3. QED BY <1>2, SameSequence

LEMMA PrefixOfPrefix ==
  ASSUME NEW p, IsSequence(p), NEW n \in 0 .. Len(p), NEW k \in 0 .. n
  PROVE  SubSeq(SubSeq(p, 1, n), 1, k) = SubSeq(p, 1, k)
<1> DEFINE q == SubSeq(p, 1, n)
           r == SubSeq(p, 1, k)
           s == SubSeq(q, 1, k)
<1>1. Len(p) \in Nat
  BY SequenceFacts
<1>2. IsSequence(q) /\ Len(q) = n /\ \A i \in 1 .. n : q[i] = p[i]
  BY <1>1, SubFacts
<1>3. IsSequence(r) /\ Len(r) = k /\ \A i \in 1 .. k : r[i] = p[i]
  BY <1>1, SubFacts
<1> HIDE DEF q, r
<1>4. IsSequence(s) /\ Len(s) = k /\ \A i \in 1 .. k : s[i] = q[i]
  BY <1>1, <1>2, SubFacts
<1> HIDE DEF s
<1>5. s = r
  BY <1>2, <1>3, <1>4, SameSequence
<1>6. QED BY <1>5 DEF q, r, s

LEMMA PrefixSeq ==
  ASSUME NEW p, IsSequence(p), NEW n \in 0 .. Len(p)
  PROVE  IsSequence(SubSeq(p, 1, n)) /\ Len(SubSeq(p, 1, n)) = n /\ \A i \in 1 .. n : SubSeq(p, 1, n)[i] = p[i]
<1>1. Len(p) \in Nat
  BY SequenceFacts
<1>2. IsSequence(SubSeq(p, 1, n)) /\ Len(SubSeq(p, 1, n)) = n - 1 + 1
  BY <1>1, SubFacts
<1>3. \A i \in 1 .. n - 1 + 1 : SubSeq(p, 1, n)[i] = p[1 + i - 1]
  BY <1>1, SubFacts
<1>4. QED BY <1>1, <1>2, <1>3

\* Every path but the root's lies in a directory.
LEMMA InDirectory ==
  ASSUME NEW t, WellFormed(t), NEW p \in DOMAIN t, p # Root
  PROVE  HasPlace(t, p) /\ IsSequence(p) /\ Front(p) = SubSeq(p, 1, Len(p) - 1) /\ Len(p) - 1 \in 0 .. Len(p) - 1
<1>1. IsSequence(p)
  BY DEF WellFormed
<1>2. Len(p) \in Nat /\ Len(p) >= 1
  BY <1>1, FrontFacts, SequenceFacts DEF Root
<1>3. IsDir(t, SubSeq(p, 1, Len(p) - 1))
  BY <1>2 DEF WellFormed
<1>4. QED BY <1>1, <1>2, <1>3 DEF HasPlace, Front

\* The path of a place leads through directories.
LEMMA PathOfPlace ==
  ASSUME NEW t, WellFormed(t), NEW p, IsSequence(p), HasPlace(t, p), NEW k \in 0 .. Len(p) - 1
  PROVE  IsDir(t, SubSeq(p, 1, k))
<1>1. Len(p) \in Nat /\ Len(p) >= 1 /\ Front(p) = SubSeq(p, 1, Len(p) - 1) /\ Len(Front(p)) = Len(p) - 1
  BY FrontFacts, SequenceFacts DEF HasPlace, Root, Front
<1>2. CASE k = Len(p) - 1
  BY <1>1, <1>2 DEF HasPlace
<1>3. CASE k < Len(p) - 1
  <2>1. SubSeq(Front(p), 1, k) = SubSeq(p, 1, k)
    BY <1>1, <1>3, PrefixOfPrefix
  <2>2. IsDir(t, SubSeq(Front(p), 1, k))
    <3>1. Front(p) \in DOMAIN t /\ k \in 0 .. Len(Front(p)) - 1
      BY <1>1, <1>3 DEF HasPlace, IsDir, Exists
    <3>2. QED BY <3>1 DEF WellFormed
  <2>3. QED BY <2>1, <2>2
<1>4. QED BY <1>1, <1>2, <1>3

\* Nothing is below what has no children, or is a file.
LEMMA NothingBelow ==
  ASSUME NEW t, WellFormed(t), NEW p, IsSequence(p), Children(t, p) = {} \/ IsFile(t, p),
         NEW q \in DOMAIN t, NEW k \in 0 .. Len(q) - 1
  PROVE  SubSeq(q, 1, k) # p
<1>1. IsSequence(q) /\ IsDir(t, SubSeq(q, 1, k))
  BY DEF WellFormed
<1>2. CASE IsFile(t, p)
  BY <1>1, <1>2 DEF IsFile, IsDir
<1>3. CASE Children(t, p) = {}
  <2> SUFFICES ASSUME SubSeq(q, 1, k) = p PROVE FALSE
    OBVIOUS
  <2> DEFINE c == SubSeq(q, 1, k + 1)
  <2>1. Len(q) \in Nat
    BY <1>1, SequenceFacts
  <2>2. c \in DOMAIN t
    <3>1. CASE k + 1 = Len(q)
      BY <3>1, <1>1, WholePrefix
    <3>2. CASE k + 1 < Len(q)
      BY <3>2, <2>1 DEF WellFormed, IsDir, Exists
    <3>3. QED BY <3>1, <3>2, <2>1
  <2>3. IsSequence(c) /\ Len(c) = k + 1
    BY <1>1, <2>1, SubFacts
  <2>4. c # Root
    <3>1. Len(Root) = 0
      BY DEF Root
    <3>2. QED BY <2>3, <3>1
  <2>5. Front(c) = p
    BY <1>1, <2>1, <2>3, PrefixOfPrefix DEF Front
  <2>6. QED BY <2>2, <2>4, <2>5, <1>3 DEF Children
<1>4. QED BY <1>2, <1>3

LEMMA NoContent ==
  IsContent(<< >>) /\ IsSequence(<< >>)
<1>1. IsSequence(<< >>)
  BY DEF IsSequence
<1>2. QED BY <1>1 DEF IsContent

LEMMA TailContent ==
  ASSUME NEW data, IsContent(data), data # << >>
  PROVE  IsContent(Tail(data))
<1>1. IsSequence(data) /\ Len(data) \in Nat
  BY SequenceFacts DEF IsContent
<1>2. IsSequence(Tail(data)) /\ Len(Tail(data)) = Len(data) - 1 /\ \A k \in 1 .. Len(data) - 1 : Tail(data)[k] = data[k + 1]
  BY <1>1, TailFacts
<1>3. \A k \in 1 .. Len(data) - 1 : k + 1 \in 1 .. Len(data)
  BY <1>1
<1>4. QED BY <1>1, <1>2, <1>3 DEF IsContent

LEMMA HeadContent ==
  ASSUME NEW data, IsContent(data), data # << >>
  PROVE  IsBlock(Head(data)) /\ Head(data) = data[1]
<1>1. data \in Seq(ToSet(data))
  BY DEF IsContent, IsSequence
<1>2. Head(data) = data[1] /\ 1 \in 1 .. Len(data)
  BY <1>1
<1>3. QED BY <1>2 DEF IsContent

LEMMA AppendContent ==
  ASSUME NEW data, IsContent(data), NEW b, IsBlock(b)
  PROVE  IsContent(Append(data, b))
<1>1. IsSequence(data) /\ Len(data) \in Nat
  BY SequenceFacts DEF IsContent
<1> DEFINE a == Append(data, b)
<1>2. IsSequence(a) /\ Len(a) = Len(data) + 1 /\ (\A k \in 1 .. Len(data) : a[k] = data[k]) /\ a[Len(data) + 1] = b
  BY <1>1, AppendFacts
<1> HIDE DEF a
<1>3. \A k \in 1 .. Len(a) : IsBlock(a[k])
  BY <1>1, <1>2 DEF IsContent
<1>4. QED BY <1>2, <1>3 DEF IsContent, a

LEMMA CatContent ==
  ASSUME NEW s, IsContent(s), NEW t, IsContent(t)
  PROVE  IsContent(s \o t)
<1>1. IsSequence(s) /\ Len(s) \in Nat /\ IsSequence(t) /\ Len(t) \in Nat
  BY SequenceFacts DEF IsContent
<1> DEFINE c == s \o t
<1>2. IsSequence(c)
  BY <1>1, CatFacts
<1>3. Len(c) = Len(s) + Len(t)
  BY <1>1, CatFacts
<1>4. \A k \in 1 .. Len(s) : c[k] = s[k]
  BY <1>1, CatFacts
<1>5. \A k \in 1 .. Len(t) : c[Len(s) + k] = t[k]
  BY <1>1, CatFacts
<1> HIDE DEF c
<1>6. ASSUME NEW k \in 1 .. Len(c)
      PROVE  IsBlock(c[k])
  <2>1. CASE k <= Len(s)
    BY <2>1, <1>1, <1>4 DEF IsContent
  <2>2. CASE k > Len(s)
    <3> DEFINE j == k - Len(s)
    <3>1. j \in 1 .. Len(t) /\ k = Len(s) + j
      BY <2>2, <1>1, <1>3
    <3> HIDE DEF j
    <3>2. QED BY <3>1, <1>5 DEF IsContent
  <2>3. QED BY <2>1, <2>2, <1>1
<1>7. QED BY <1>2, <1>6 DEF IsContent, c

\* A part of content is content.
LEMMA PartContent ==
  ASSUME NEW data, IsContent(data), NEW part, IsSequence(part), ToSet(part) \subseteq ToSet(data)
  PROVE  IsContent(part)
<1>1. IsSequence(data) /\ DOMAIN data = 1 .. Len(data) /\ DOMAIN part = 1 .. Len(part)
  BY SequenceFacts DEF IsContent
<1>2. QED BY <1>1 DEF IsContent, ToSet

\* The nodes that the file system makes.
LEMMA NewNodes ==
  IsNode(Directory) /\ IsNode(Regular(<< >>, FALSE))
BY NoContent DEF IsNode, Directory, Regular

LEMMA EmptyTreeOK ==
  WellFormed(EmptyTree)
<1>1. DOMAIN EmptyTree = {Root} /\ EmptyTree[Root] = Directory
  BY DEF EmptyTree
<1>2. IsDir(EmptyTree, Root)
  BY <1>1 DEF IsDir, Exists, Directory
<1>3. Len(Root) = 0 /\ IsSequence(Root)
  BY NoContent DEF Root
<1>4. QED BY <1>1, <1>2, <1>3, NewNodes DEF WellFormed

\* A new entry in a directory that exists leaves a tree.
LEMMA WithOK ==
  ASSUME NEW t, WellFormed(t), NEW p, IsSequence(p), HasPlace(t, p), ~Exists(t, p), NEW n, IsNode(n)
  PROVE  WellFormed(With(t, p, n))
<1> DEFINE u == With(t, p, n)
<1>1. DOMAIN u = DOMAIN t \cup {p} /\ u[p] = n /\ \A q \in DOMAIN t : u[q] = t[q]
  BY DEF With, Exists
<1>2. \A q : IsDir(t, q) => IsDir(u, q)
  BY <1>1 DEF IsDir, Exists
<1> HIDE DEF u
<1>3. IsDir(u, Root)
  BY <1>2 DEF WellFormed
<1>4. ASSUME NEW q \in DOMAIN u
      PROVE  IsNode(u[q]) /\ IsSequence(q) /\ \A k \in 0 .. Len(q) - 1 : IsDir(u, SubSeq(q, 1, k))
  <2>1. CASE q \in DOMAIN t
    BY <2>1, <1>1, <1>2 DEF WellFormed
  <2>2. CASE q = p
    BY <2>2, <1>1, <1>2, PathOfPlace
  <2>3. QED BY <2>1, <2>2, <1>1
<1>5. QED BY <1>3, <1>4 DEF WellFormed, u

LEMMA CreatedOK ==
  ASSUME NEW t, WellFormed(t), NEW p, IsSequence(p), CanCreate(t, p)
  PROVE  WellFormed(Created(t, p)) /\ IsFile(Created(t, p), p)
<1>1. CASE Exists(t, p)
  BY <1>1 DEF Created, CanCreate, IsFile, IsDir
<1>2. CASE ~Exists(t, p)
  <2>1. WellFormed(Created(t, p))
    BY <1>2, WithOK, NewNodes DEF Created, CanCreate
  <2>2. QED BY <1>2, <2>1 DEF Created, With, Regular, IsFile, Exists
<1>3. QED BY <1>1, <1>2

LEMMA MkdirOK ==
  ASSUME NEW t, WellFormed(t), NEW p, IsSequence(p), CanMkdir(t, p)
  PROVE  WellFormed(Mkdir(t, p))
BY WithOK, NewNodes DEF CanMkdir, Mkdir

\* The same places, directories and files, with other content.
LEMMA SamePlaces ==
  ASSUME NEW t, WellFormed(t), NEW u, DOMAIN u = DOMAIN t, \A q \in DOMAIN t : IsNode(u[q]) /\ u[q].dir = t[q].dir
  PROVE  WellFormed(u)
<1>1. \A q : IsDir(t, q) => IsDir(u, q)
  BY DEF IsDir, Exists
<1>2. QED BY <1>1 DEF WellFormed

LEMMA StoredIs ==
  ASSUME NEW t, WellFormed(t), NEW p, NEW data, IsContent(data)
  PROVE  /\ DOMAIN Stored(t, p, data) = DOMAIN t
         /\ \A q \in DOMAIN t : /\ IsNode(Stored(t, p, data)[q])
                                /\ Stored(t, p, data)[q].dir = t[q].dir
                                /\ Stored(t, p, data)[q].exe = t[q].exe
                                /\ Stored(t, p, data)[q].data = IF q = p /\ IsFile(t, p) THEN data ELSE t[q].data
                                /\ q # p \/ ~IsFile(t, p) => Stored(t, p, data)[q] = t[q]
<1>1. CASE IsFile(t, p)
  <2> DEFINE u == [t EXCEPT ![p].data = data]
  <2>1. Stored(t, p, data) = u /\ DOMAIN u = DOMAIN t /\ p \in DOMAIN t
    BY <1>1 DEF Stored, IsFile, Exists
  <2>2. \A q \in DOMAIN t : q # p => u[q] = t[q]
    OBVIOUS
  <2>3. t[p] = [dir |-> t[p].dir, data |-> t[p].data, exe |-> t[p].exe] /\ t[p].dir \in BOOLEAN /\ t[p].exe \in BOOLEAN
    BY <2>1 DEF WellFormed, IsNode
  <2>4. u[p] = [t[p] EXCEPT !.data = data]
    BY <2>1
  <2>5. u[p] = [dir |-> t[p].dir, data |-> data, exe |-> t[p].exe]
    BY <2>3, <2>4
  <2> HIDE DEF u
  <2>6. IsNode(u[p])
    BY <2>3, <2>5 DEF IsNode
  <2>7. \A q \in DOMAIN t : q # p => IsNode(u[q])
    BY <2>2 DEF WellFormed
  <2>8. QED BY <2>1, <2>2, <2>5, <2>6, <2>7, <1>1
<1>2. CASE ~IsFile(t, p)
  BY <1>2 DEF Stored, WellFormed
<1>3. QED BY <1>1, <1>2

LEMMA StoredOK ==
  ASSUME NEW t, WellFormed(t), NEW p, NEW data, IsContent(data)
  PROVE  WellFormed(Stored(t, p, data))
BY StoredIs, SamePlaces

LEMMA MarkedIs ==
  ASSUME NEW t, WellFormed(t), NEW p
  PROVE  /\ DOMAIN Marked(t, p) = DOMAIN t
         /\ \A q \in DOMAIN t : /\ IsNode(Marked(t, p)[q])
                                /\ Marked(t, p)[q].dir = t[q].dir
                                /\ Marked(t, p)[q].data = t[q].data
                                /\ (Marked(t, p)[q].exe <=> t[q].exe \/ (q = p /\ IsFile(t, p)))
                                /\ q # p \/ ~IsFile(t, p) => Marked(t, p)[q] = t[q]
<1>1. CASE IsFile(t, p)
  <2> DEFINE u == [t EXCEPT ![p].exe = TRUE]
  <2>1. Marked(t, p) = u /\ DOMAIN u = DOMAIN t /\ p \in DOMAIN t
    BY <1>1 DEF Marked, IsFile, Exists
  <2>2. \A q \in DOMAIN t : q # p => u[q] = t[q]
    OBVIOUS
  <2>3. t[p] = [dir |-> t[p].dir, data |-> t[p].data, exe |-> t[p].exe] /\ t[p].dir \in BOOLEAN /\ IsContent(t[p].data)
    BY <2>1 DEF WellFormed, IsNode
  <2>4. u[p] = [t[p] EXCEPT !.exe = TRUE]
    BY <2>1
  <2>5. u[p] = [dir |-> t[p].dir, data |-> t[p].data, exe |-> TRUE]
    BY <2>3, <2>4
  <2> HIDE DEF u
  <2>6. IsNode(u[p])
    BY <2>3, <2>5 DEF IsNode
  <2>7. \A q \in DOMAIN t : q # p => IsNode(u[q]) /\ u[q].exe \in BOOLEAN
    BY <2>2 DEF WellFormed, IsNode
  <2>8. ASSUME NEW q \in DOMAIN t, q # p
        PROVE  IsNode(u[q]) /\ u[q] = t[q] /\ (u[q].exe <=> t[q].exe \/ (q = p /\ IsFile(t, p)))
    BY <2>2, <2>7, <2>8
  <2>9. IsNode(u[p]) /\ u[p].dir = t[p].dir /\ u[p].data = t[p].data /\ (u[p].exe <=> t[p].exe \/ (p = p /\ IsFile(t, p)))
    BY <2>3, <2>5, <2>6, <1>1
  <2>10. QED BY <2>1, <2>8, <2>9, <1>1
<1>2. CASE ~IsFile(t, p)
  BY <1>2 DEF Marked, WellFormed, IsNode
<1>3. QED BY <1>1, <1>2

LEMMA MarkedOK ==
  ASSUME NEW t, WellFormed(t), NEW p
  PROVE  WellFormed(Marked(t, p))
BY MarkedIs, SamePlaces

\* Removing a file, or a directory that is empty, leaves a tree.
LEMMA WithoutOK ==
  ASSUME NEW t, WellFormed(t), NEW p, IsSequence(p), p # Root, Children(t, p) = {} \/ IsFile(t, p)
  PROVE  WellFormed(Without(t, {p}))
<1> DEFINE u == Without(t, {p})
<1>1. DOMAIN u = DOMAIN t \ {p} /\ \A q \in DOMAIN u : u[q] = t[q]
  BY DEF Without
<1> HIDE DEF u
<1>2. IsDir(u, Root)
  BY <1>1 DEF WellFormed, IsDir, Exists
<1>3. ASSUME NEW q \in DOMAIN u
      PROVE  IsNode(u[q]) /\ IsSequence(q) /\ \A k \in 0 .. Len(q) - 1 : IsDir(u, SubSeq(q, 1, k))
  <2>1. IsNode(u[q]) /\ IsSequence(q)
    BY <1>1 DEF WellFormed
  <2>2. ASSUME NEW k \in 0 .. Len(q) - 1
        PROVE  IsDir(u, SubSeq(q, 1, k))
    BY <1>1, NothingBelow DEF WellFormed, IsDir, Exists
  <2>3. QED BY <2>1, <2>2
<1>4. QED BY <1>2, <1>3 DEF WellFormed, u
-----------------------------------------------------------------------------
(* Renaming: what lies under from lies under to. *)

\* Where a path under from goes.
Moved(p, from, to) == to \o SubSeq(p, Len(from) + 1, Len(p))

LEMMA MovedIs ==
  ASSUME NEW p, NEW from, NEW to, IsSequence(p), IsSequence(from), IsSequence(to), Under(from, p)
  PROVE  /\ IsSequence(Moved(p, from, to))
         /\ Len(from) \in 0 .. Len(p) /\ Len(p) \in Nat /\ Len(to) \in Nat
         /\ Len(Moved(p, from, to)) = Len(to) + (Len(p) - Len(from))
         /\ \A k \in 1 .. Len(to) : Moved(p, from, to)[k] = to[k]
         /\ \A k \in 1 .. Len(p) - Len(from) : Moved(p, from, to)[Len(to) + k] = p[Len(from) + k]
<1> DEFINE s == SubSeq(p, Len(from) + 1, Len(p))
<1>1. Len(from) \in 0 .. Len(p) /\ Len(p) \in Nat /\ Len(to) \in Nat /\ Len(from) \in Nat
  BY PrefixFacts, SequenceFacts
<1>2. Len(from) + 1 \in 1 .. Len(p) + 1 /\ Len(p) \in Len(from) + 1 - 1 .. Len(p)
  BY <1>1
<1>3. IsSequence(s) /\ Len(s) = Len(p) - (Len(from) + 1) + 1
      /\ \A k \in 1 .. Len(p) - (Len(from) + 1) + 1 : s[k] = p[Len(from) + 1 + k - 1]
  BY <1>2, SubFacts
<1>4. Len(s) = Len(p) - Len(from)
  BY <1>1, <1>3
<1>5. \A k \in 1 .. Len(p) - Len(from) : s[k] = p[Len(from) + k]
  <2>1. ASSUME NEW k \in 1 .. Len(p) - Len(from)
        PROVE  s[k] = p[Len(from) + k]
    <3>1. k \in 1 .. Len(p) - (Len(from) + 1) + 1 /\ Len(from) + 1 + k - 1 = Len(from) + k
      BY <1>1
    <3>2. QED BY <1>3, <3>1
  <2>2. QED BY <2>1
<1> HIDE DEF s
<1>6. IsSequence(to \o s) /\ Len(to \o s) = Len(to) + (Len(p) - Len(from))
  <2>1. IsSequence(to \o s)
    BY <1>3, CatFacts
  <2>2. Len(to \o s) = Len(to) + Len(s)
    BY <1>3, CatFacts
  <2>3. QED BY <2>1, <2>2, <1>4
<1>7. \A k \in 1 .. Len(to) : (to \o s)[k] = to[k]
  BY <1>3, CatFacts
<1>8. \A k \in 1 .. Len(p) - Len(from) : (to \o s)[Len(to) + k] = p[Len(from) + k]
  BY <1>3, <1>4, <1>5, CatFacts
<1>9. QED BY <1>1, <1>6, <1>7, <1>8 DEF Moved, s

\* It lies under to, and moves back to where it was.
LEMMA MovedBack ==
  ASSUME NEW p, NEW from, NEW to, IsSequence(p), IsSequence(from), IsSequence(to), Under(from, p)
  PROVE  Under(to, Moved(p, from, to)) /\ Moved(Moved(p, from, to), to, from) = p
<1> DEFINE m == Moved(p, from, to)
           b == Moved(m, to, from)
<1>1. /\ IsSequence(m)
      /\ Len(from) \in 0 .. Len(p) /\ Len(p) \in Nat /\ Len(to) \in Nat
      /\ Len(m) = Len(to) + (Len(p) - Len(from))
      /\ \A k \in 1 .. Len(to) : m[k] = to[k]
      /\ \A k \in 1 .. Len(p) - Len(from) : m[Len(to) + k] = p[Len(from) + k]
  <2>1. IsSequence(m)
    BY MovedIs
  <2>2. Len(from) \in 0 .. Len(p) /\ Len(p) \in Nat /\ Len(to) \in Nat
    BY MovedIs
  <2>3. Len(m) = Len(to) + (Len(p) - Len(from))
    BY MovedIs
  <2>4. \A k \in 1 .. Len(to) : m[k] = to[k]
    BY MovedIs
  <2>5. \A k \in 1 .. Len(p) - Len(from) : m[Len(to) + k] = p[Len(from) + k]
    BY MovedIs
  <2> HIDE DEF m
  <2>6. QED BY <2>1, <2>2, <2>3, <2>4, <2>5
<1> HIDE DEF m
<1>2. Under(to, m)
  BY <1>1, PrefixFacts
<1>3. /\ IsSequence(b)
      /\ Len(b) = Len(from) + (Len(m) - Len(to))
      /\ \A k \in 1 .. Len(from) : b[k] = from[k]
      /\ \A k \in 1 .. Len(m) - Len(to) : b[Len(from) + k] = m[Len(to) + k]
  <2>1. IsSequence(b)
    BY <1>1, <1>2, MovedIs
  <2>2. Len(b) = Len(from) + (Len(m) - Len(to))
    BY <1>1, <1>2, MovedIs
  <2>3. \A k \in 1 .. Len(from) : b[k] = from[k]
    BY <1>1, <1>2, MovedIs
  <2>4. \A k \in 1 .. Len(m) - Len(to) : b[Len(from) + k] = m[Len(to) + k]
    BY <1>1, <1>2, MovedIs
  <2> HIDE DEF b
  <2>5. QED BY <2>1, <2>2, <2>3, <2>4
<1> HIDE DEF b
<1>4. \A k \in 1 .. Len(from) : from[k] = p[k]
  BY PrefixFacts
<1>5. Len(b) = Len(p) /\ Len(m) - Len(to) = Len(p) - Len(from)
  BY <1>1, <1>3
<1>6. \A k \in 1 .. Len(p) : b[k] = p[k]
  <2> SUFFICES ASSUME NEW k \in 1 .. Len(p) PROVE b[k] = p[k]
    OBVIOUS
  <2>1. CASE k <= Len(from)
    BY <2>1, <1>1, <1>3, <1>4
  <2>2. CASE k > Len(from)
    <3> DEFINE j == k - Len(from)
    <3>1. j \in 1 .. Len(p) - Len(from) /\ k = Len(from) + j
      BY <2>2, <1>1
    <3> HIDE DEF j
    <3>2. QED BY <3>1, <1>1, <1>3, <1>5
  <2>3. QED BY <2>1, <2>2, <1>1
<1>7. b = p
  BY <1>3, <1>5, <1>6, SameSequence
<1>8. QED BY <1>2, <1>7 DEF m, b

\* What leads to a path under from moves to what leads to where that goes.
LEMMA MovedPrefix ==
  ASSUME NEW p, NEW from, NEW to, IsSequence(p), IsSequence(from), IsSequence(to), Under(from, p),
         NEW k \in 0 .. Len(Moved(p, from, to)) - 1
  PROVE  \/ k < Len(to) /\ SubSeq(Moved(p, from, to), 1, k) = SubSeq(to, 1, k)
         \/ \E j \in Len(from) .. Len(p) - 1 :
              /\ Under(from, SubSeq(p, 1, j))
              /\ SubSeq(Moved(p, from, to), 1, k) = Moved(SubSeq(p, 1, j), from, to)
<1> DEFINE m == Moved(p, from, to)
<1>1. /\ IsSequence(m)
      /\ Len(from) \in 0 .. Len(p) /\ Len(p) \in Nat /\ Len(to) \in Nat
      /\ Len(m) = Len(to) + (Len(p) - Len(from))
      /\ \A i \in 1 .. Len(to) : m[i] = to[i]
      /\ \A i \in 1 .. Len(p) - Len(from) : m[Len(to) + i] = p[Len(from) + i]
  <2>1. IsSequence(m)
    BY MovedIs
  <2>2. Len(from) \in 0 .. Len(p) /\ Len(p) \in Nat /\ Len(to) \in Nat
    BY MovedIs
  <2>3. Len(m) = Len(to) + (Len(p) - Len(from))
    BY MovedIs
  <2>4. \A i \in 1 .. Len(to) : m[i] = to[i]
    BY MovedIs
  <2>5. \A i \in 1 .. Len(p) - Len(from) : m[Len(to) + i] = p[Len(from) + i]
    BY MovedIs
  <2> HIDE DEF m
  <2>6. QED BY <2>1, <2>2, <2>3, <2>4, <2>5
<1>2. \A i \in 1 .. Len(from) : from[i] = p[i]
  BY PrefixFacts
<1> HIDE DEF m
<1> DEFINE l == SubSeq(m, 1, k)
<1>3. k \in 0 .. Len(m)
  BY <1>1 DEF m
<1>4. IsSequence(l) /\ Len(l) = k /\ \A i \in 1 .. k : l[i] = m[i]
  BY <1>1, <1>3, PrefixSeq
<1> HIDE DEF l
<1>5. CASE k < Len(to)
  <2> DEFINE a == SubSeq(to, 1, k)
  <2>1. k \in 0 .. Len(to)
    BY <1>1, <1>3, <1>5
  <2>2. IsSequence(a) /\ Len(a) = k /\ \A i \in 1 .. k : a[i] = to[i]
    BY <1>1, <2>1, SubFacts
  <2> HIDE DEF a
  <2>3. \A i \in 1 .. k : l[i] = a[i]
    BY <1>1, <1>4, <1>5, <2>2
  <2>4. l = a
    BY <1>4, <2>2, <2>3, SameSequence
  <2>5. QED BY <2>4, <1>5 DEF l, a, m
<1>6. CASE k >= Len(to)
  <2> DEFINE j == k - Len(to) + Len(from)
             q == SubSeq(p, 1, j)
             b == Moved(q, from, to)
  <2>1. j \in Len(from) .. Len(p) - 1 /\ j \in 0 .. Len(p) /\ k = Len(to) + (j - Len(from))
    <3>1. k <= Len(m) - 1
      BY <1>1 DEF m
    <3>2. QED BY <3>1, <1>1, <1>3, <1>6
  <2>2. IsSequence(q) /\ Len(q) = j /\ \A i \in 1 .. j : q[i] = p[i]
    BY <2>1, <1>1, PrefixSeq
  <2> HIDE DEF q, j
  <2>3. Under(from, q)
    BY <2>1, <2>2, <1>1, <1>2, PrefixFacts
  <2>4. /\ IsSequence(b)
        /\ Len(b) = Len(to) + (Len(q) - Len(from))
        /\ \A i \in 1 .. Len(to) : b[i] = to[i]
        /\ \A i \in 1 .. Len(q) - Len(from) : b[Len(to) + i] = q[Len(from) + i]
    <3>1. IsSequence(b)
      BY <2>2, <2>3, MovedIs
    <3>2. Len(b) = Len(to) + (Len(q) - Len(from))
      BY <2>2, <2>3, MovedIs
    <3>3. \A i \in 1 .. Len(to) : b[i] = to[i]
      BY <2>2, <2>3, MovedIs
    <3>4. \A i \in 1 .. Len(q) - Len(from) : b[Len(to) + i] = q[Len(from) + i]
      BY SMTT(40), <2>2, <2>3, MovedIs
    <3> HIDE DEF b
    <3>5. QED BY <3>1, <3>2, <3>3, <3>4
  <2> HIDE DEF b
  <2>5. ASSUME NEW i \in 1 .. k
        PROVE  l[i] = b[i]
    <3>1. CASE i <= Len(to)
      BY SMTT(40), <3>1, <1>1, <1>3, <1>4, <2>4
    <3>2. CASE i > Len(to)
      <4> DEFINE h == i - Len(to)
      <4>1. h \in 1 .. Len(q) - Len(from) /\ h \in 1 .. Len(p) - Len(from) /\ i = Len(to) + h /\ Len(from) + h \in 1 .. j
        BY <3>2, <1>1, <2>1, <2>2
      <4> HIDE DEF h
      <4>2. b[i] = q[Len(from) + h] /\ m[i] = p[Len(from) + h]
        BY <4>1, <2>4, <1>1
      <4>3. QED BY <4>1, <4>2, <2>2, <1>4
    <3>3. QED BY <3>1, <3>2, <1>1, <1>3
  <2>6. l = b
    <3>1. Len(b) = k
      BY <2>1, <2>2, <2>4
    <3>2. QED BY <3>1, <2>4, <2>5, <1>4, SameSequence
  <2>7. QED BY <2>1, <2>3, <2>6 DEF l, b, m, q
<1>7. QED BY SMTT(40), <1>5, <1>6, <1>1, <1>3
\* The renamed tree, said with Moved.
LEMMA RenamedIs ==
  ASSUME NEW t, WellFormed(t), NEW from, NEW to, IsSequence(from), IsSequence(to)
  PROVE  LET u == Renamed(t, from, to)
         IN /\ \A x : x \in DOMAIN u <=> \/ x \in DOMAIN t /\ ~Under(from, x)
                                         \/ \E q \in DOMAIN t : Under(from, q) /\ x = Moved(q, from, to)
            /\ \A q \in DOMAIN t : Under(from, q) => u[Moved(q, from, to)] = t[q]
            /\ \A x \in DOMAIN t : ~Under(from, x) /\ ~Under(to, x) => u[x] = t[x]
            /\ \A x \in DOMAIN t : /\ ~Under(from, x)
                                   /\ \A q \in DOMAIN t : Under(from, q) => x # Moved(q, from, to)
                                   => u[x] = t[x]
<1> DEFINE moved == {q \in DOMAIN t : Under(from, q)}
           new == {Moved(q, from, to) : q \in moved}
           u == [q \in (DOMAIN t \ moved) \cup new |-> IF q \in new THEN t[Moved(q, to, from)] ELSE t[q]]
<1>1. Renamed(t, from, to) = u
  BY DEF Renamed, Moved
<1>2. \A x : x \in DOMAIN u <=> \/ x \in DOMAIN t /\ ~Under(from, x)
                                \/ \E q \in DOMAIN t : Under(from, q) /\ x = Moved(q, from, to)
  OBVIOUS
<1>3. ASSUME NEW q \in DOMAIN t, Under(from, q)
      PROVE  u[Moved(q, from, to)] = t[q]
  <2>1. IsSequence(q)
    BY DEF WellFormed
  <2>2. Moved(Moved(q, from, to), to, from) = q
    BY <1>3, <2>1, MovedBack
  <2>3. Moved(q, from, to) \in new
    BY <1>3
  <2>4. QED BY <2>2, <2>3
<1>4. ASSUME NEW q \in DOMAIN t, Under(from, q)
      PROVE  Under(to, Moved(q, from, to))
  <2>1. IsSequence(q)
    BY DEF WellFormed
  <2>2. QED BY <1>4, <2>1, MovedBack
<1>5. \A x \in DOMAIN t : /\ ~Under(from, x)
                          /\ \A q \in DOMAIN t : Under(from, q) => x # Moved(q, from, to)
                          => u[x] = t[x]
  OBVIOUS
<1>6. \A x \in DOMAIN t : ~Under(from, x) /\ ~Under(to, x) => u[x] = t[x]
  BY <1>4, <1>5
<1> HIDE DEF u
<1>7. QED BY <1>1, <1>2, <1>3, <1>5, <1>6

\* Renaming leaves a tree: what is moved comes to lie in the directory it is moved to.
LEMMA RenamedOK ==
  ASSUME NEW t, WellFormed(t), NEW from, NEW to, IsSequence(from), IsSequence(to), CanRename(t, from, to)
  PROVE  WellFormed(Renamed(t, from, to))
<1> DEFINE u == Renamed(t, from, to)
<1>1. \A x : x \in DOMAIN u <=> \/ x \in DOMAIN t /\ ~Under(from, x)
                                \/ \E q \in DOMAIN t : Under(from, q) /\ x = Moved(q, from, to)
  BY RenamedIs
<1>2. \A q \in DOMAIN t : Under(from, q) => u[Moved(q, from, to)] = t[q]
  BY RenamedIs
<1>3. \A x \in DOMAIN t : /\ ~Under(from, x)
                          /\ \A q \in DOMAIN t : Under(from, q) => x # Moved(q, from, to)
                          => u[x] = t[x]
  BY RenamedIs
<1> HIDE DEF u
<1>4. \A q \in DOMAIN t : IsSequence(q) /\ Len(q) \in Nat /\ IsNode(t[q])
  BY SequenceFacts DEF WellFormed
<1>5. Len(from) \in Nat /\ Len(to) \in Nat /\ Len(from) >= 1 /\ Len(to) >= 1 /\ HasPlace(t, to) /\ from \in DOMAIN t
  BY FrontFacts, SequenceFacts DEF CanRename, HasPlace, Root, Exists
\* A directory on the way to to stays where it is.
<1>6. ASSUME NEW k \in 0 .. Len(to) - 1
      PROVE  IsDir(u, SubSeq(to, 1, k))
  <2> DEFINE d == SubSeq(to, 1, k)
  <2>1. d \in DOMAIN t /\ t[d].dir
    BY <1>5, PathOfPlace DEF IsDir, Exists
  <2>2. IsSequence(d) /\ Len(d) = k /\ \A i \in 1 .. k : d[i] = to[i]
    BY <1>5, PrefixSeq
  <2> HIDE DEF d
  <2>3. ~Under(from, d)
    <3> SUFFICES ASSUME Under(from, d) PROVE FALSE
      OBVIOUS
    <3>1. Len(from) <= k /\ \A i \in 1 .. Len(from) : from[i] = d[i]
      BY <2>2, PrefixFacts
    <3>2. Len(from) <= Len(to) /\ \A i \in 1 .. Len(from) : from[i] = to[i]
      BY <3>1, <2>2, <1>5
    <3>3. Under(from, to)
      BY <3>2, PrefixFacts
    <3>4. from = to
      BY <3>3 DEF CanRename
    <3>5. QED BY <3>1, <3>4, <1>5
  <2>4. ASSUME NEW q \in DOMAIN t, Under(from, q)
        PROVE  d # Moved(q, from, to)
    <3>1. Under(to, Moved(q, from, to)) /\ IsSequence(Moved(q, from, to))
      BY <2>4, <1>4, MovedBack, MovedIs
    <3>2. Len(to) <= Len(Moved(q, from, to))
      BY <3>1, PrefixFacts
    <3>3. QED BY <3>2, <2>2, <1>5
  <2>5. d \in DOMAIN u /\ u[d] = t[d]
    BY <1>1, <1>3, <2>1, <2>3, <2>4
  <2>6. QED BY <2>1, <2>5 DEF d, IsDir, Exists
<1>7. IsDir(u, Root)
  <2>1. SubSeq(to, 1, 0) = Root
    <3>1. IsSequence(SubSeq(to, 1, 0)) /\ Len(SubSeq(to, 1, 0)) = 0
      BY <1>5, PrefixSeq
    <3>2. IsSequence(Root) /\ Len(Root) = 0
      BY NoContent DEF Root
    <3>3. QED BY <3>1, <3>2, SameSequence
  <2>2. 0 \in 0 .. Len(to) - 1
    BY <1>5
  <2>3. QED BY <2>1, <2>2, <1>6
\* What was moved.
<1>8. ASSUME NEW q \in DOMAIN t, Under(from, q)
      PROVE  LET x == Moved(q, from, to)
             IN IsNode(u[x]) /\ IsSequence(x) /\ \A k \in 0 .. Len(x) - 1 : IsDir(u, SubSeq(x, 1, k))
  <2> DEFINE x == Moved(q, from, to)
  <2>1. IsNode(u[x]) /\ IsSequence(x)
    BY <1>2, <1>4, <1>8, MovedIs
  <2>2. ASSUME NEW k \in 0 .. Len(x) - 1
        PROVE  IsDir(u, SubSeq(x, 1, k))
    <3>1. \/ k < Len(to) /\ SubSeq(x, 1, k) = SubSeq(to, 1, k)
          \/ \E j \in Len(from) .. Len(q) - 1 :
               Under(from, SubSeq(q, 1, j)) /\ SubSeq(x, 1, k) = Moved(SubSeq(q, 1, j), from, to)
      BY SMTT(40), <1>4, <1>8, MovedPrefix
    <3>2. CASE k < Len(to) /\ SubSeq(x, 1, k) = SubSeq(to, 1, k)
      <4>1. k \in 0 .. Len(to) - 1
        BY <3>2, <1>5, <2>1, SequenceFacts
      <4>2. QED BY <4>1, <3>2, <1>6
    <3>3. CASE \E j \in Len(from) .. Len(q) - 1 :
                 Under(from, SubSeq(q, 1, j)) /\ SubSeq(x, 1, k) = Moved(SubSeq(q, 1, j), from, to)
      <4>1. PICK j \in Len(from) .. Len(q) - 1 :
              Under(from, SubSeq(q, 1, j)) /\ SubSeq(x, 1, k) = Moved(SubSeq(q, 1, j), from, to)
        BY <3>3
      <4>2. j \in 0 .. Len(q) - 1
        BY <1>4, <1>5
      <4>3. SubSeq(q, 1, j) \in DOMAIN t /\ t[SubSeq(q, 1, j)].dir
        BY <4>2 DEF WellFormed, IsDir, Exists
      <4>4. QED BY <4>1, <4>3, <1>1, <1>2 DEF IsDir, Exists
    <3>4. QED BY <3>1, <3>2, <3>3
  <2>3. QED BY <2>1, <2>2
\* What was not.
<1>9. ASSUME NEW x \in DOMAIN t, ~Under(from, x), \A q \in DOMAIN t : Under(from, q) => x # Moved(q, from, to)
      PROVE  IsNode(u[x]) /\ IsSequence(x) /\ \A k \in 0 .. Len(x) - 1 : IsDir(u, SubSeq(x, 1, k))
  <2>1. IsNode(u[x]) /\ IsSequence(x) /\ Len(x) \in Nat
    BY <1>3, <1>4, <1>9
  <2>2. ASSUME NEW k \in 0 .. Len(x) - 1
        PROVE  IsDir(u, SubSeq(x, 1, k))
    <3> DEFINE y == SubSeq(x, 1, k)
    <3>1. y \in DOMAIN t /\ t[y].dir
      BY DEF WellFormed, IsDir, Exists
    <3>2. IsSequence(y) /\ Len(y) = k /\ \A i \in 1 .. k : y[i] = x[i]
      BY <2>1, PrefixSeq
    <3> HIDE DEF y
    <3>3. ~Under(from, y)
      <4> SUFFICES ASSUME Under(from, y) PROVE FALSE
        OBVIOUS
      <4>1. Len(from) <= k /\ \A i \in 1 .. Len(from) : from[i] = y[i]
        BY <3>2, PrefixFacts
      <4>2. Len(from) <= Len(x) /\ \A i \in 1 .. Len(from) : from[i] = x[i]
        BY <4>1, <3>2, <1>5, <2>1
      <4>3. QED BY <4>2, <2>1, <1>9, PrefixFacts
    <3>4. ASSUME NEW q \in DOMAIN t, Under(from, q), y = Moved(q, from, to)
          PROVE  FALSE
      <4>1. Under(to, y)
        BY <3>4, <1>4, MovedBack
      <4>2. Len(to) <= k /\ \A i \in 1 .. Len(to) : to[i] = y[i]
        BY <4>1, <3>2, PrefixFacts
      <4>3. Len(to) \in 0 .. Len(x) - 1
        BY <4>2, <1>5, <2>1
      <4> DEFINE z == SubSeq(x, 1, Len(to))
      <4>4. IsSequence(z) /\ Len(z) = Len(to) /\ \A i \in 1 .. Len(to) : z[i] = x[i]
        BY <4>3, <2>1, PrefixSeq
      <4>5. IsDir(t, z)
        BY <4>3 DEF WellFormed
      <4> HIDE DEF z
      <4>6. \A i \in 1 .. Len(to) : z[i] = to[i]
        BY <4>2, <4>4, <3>2, <1>5
      <4>7. z = to
        BY <4>4, <4>6, SameSequence
      <4>8. from # to
        BY <4>1, <3>3
      <4>9. Children(t, to) = {}
        BY <4>5, <4>7, <4>8 DEF CanRename, IsDir
      <4>10. QED BY <4>3, <4>7, <4>9, NothingBelow DEF z
    <3>5. y \in DOMAIN u /\ u[y] = t[y]
      BY <1>1, <1>3, <3>1, <3>3, <3>4
    <3>6. QED BY <3>1, <3>5 DEF y, IsDir, Exists
  <2>3. QED BY <2>1, <2>2
<1>10. ASSUME NEW x \in DOMAIN u
       PROVE  IsNode(u[x]) /\ IsSequence(x) /\ \A k \in 0 .. Len(x) - 1 : IsDir(u, SubSeq(x, 1, k))
  BY <1>1, <1>8, <1>9
<1>11. QED BY <1>7, <1>10 DEF WellFormed, u
-----------------------------------------------------------------------------
(* The inductive invariant: what the local variables of each command are   *)
(* at each place, and who owns the handles that are open.                  *)

CmdOK ==
  /\ DOMAIN cmd = {"op", "at", "line", "said", "v"}
  /\ cmd.op \in Commands => IsLine(Line) /\ Line.op = cmd.op
  /\ cmd.op = "off" => cmd.at = "off"

\* A working directory without a name in its text is the root, with its '/'.
PwdOK == /\ DOMAIN sh_pwd = {"slash", "names"} /\ sh_pwd.slash \in BOOLEAN /\ IsSequence(sh_pwd.names)
         /\ sh_pwd = AtRoot \/ sh_pwd.names # << >>

\* Commands that need a mounted file system have one, and format none.
MountOK == (At("format", "start") => ~mounted) /\ (At("unmount", "start") => mounted)

Copying == cmd.op = "cp" /\ cmd.at \in {"copy", "close"}
CopyOK ==
  /\ At("mv", "rename") \/ At("cp", "open") \/ Copying => IsSequence(cmd.v.from) /\ IsSequence(cmd.v.to)
  /\ Copying => /\ DOMAIN cmd.v = {"from", "to", "rest", "out", "error"}
                /\ IsContent(cmd.v.rest) /\ IsContent(cmd.v.out)

\* The directories of rm; only the last is read for files, and what it has read is there.
IsFrame(f, t) ==
  /\ f = [dir |-> f.dir, pass |-> f.pass, unread |-> f.unread]
  /\ IsSequence(f.dir) /\ f.pass \in {"dirs", "files"}
  /\ \A p \in f.unread : IsSequence(p) /\ (f.pass = "files" => IsFile(t, p))
StackOK(s, t) ==
  /\ IsSequence(s)
  /\ \A k \in 1 .. Len(s) : IsFrame(s[k], t) /\ (k # Len(s) => s[k].pass = "dirs")
CleanOK ==
  /\ At("rm", "count") => DOMAIN cmd.v = {"stack"} /\ Frames = << >>
  /\ At("rm", "clean") => DOMAIN cmd.v = {"stack"} /\ StackOK(Frames, tree)

\* tar's archive, and the directories it is in; or the entry it has read.
Creating == cmd.op = "tar" /\ cmd.at \in {"create", "close", "bail"} /\ Line.flag = "c"
Reading == cmd.op = "tar" /\ cmd.at \in {"header", "dirs", "shut", "bail"} /\ Line.flag # "c"
CreateOK(v, t) ==
  /\ DOMAIN v = {"file", "arg", "stack", "out"}
  /\ v.arg \in Nat \ {0} /\ IsContent(v.out) /\ IsSequence(v.stack)
  /\ \A k \in 1 .. Len(v.stack) :
       /\ DOMAIN v.stack[k] = {"dir", "unread"}
       /\ \A p \in v.stack[k].unread : p \in DOMAIN t /\ Len(p) > Len(Cwd)
ReadOK(v) ==
  /\ DOMAIN v = {"file", "rest", "hdr", "made"}
  /\ IsContent(v.rest) /\ IsBlock(v.hdr) /\ v.made \in Nat
TarOK ==
  /\ cmd.op = "tar" => \/ cmd.at \in {"start", "done"} \/ Creating \/ Reading
  /\ At("tar", "create") \/ At("tar", "close") => Line.flag = "c"
  /\ Creating => CreateOK(cmd.v, tree)
  /\ Reading => ReadOK(cmd.v)

\* The session of the compiler and the loader.
InSession == cmd.op \in {"cc", "run"} /\ cmd.at \notin {"start", "done"}
SessionOK(v) ==
  /\ DOMAIN v = {"op", "fd", "path", "mem", "list", "freed", "lines", "base", "source", "out", "data"}
  /\ IsSequence(v.path) /\ IsContent(v.out) /\ IsContent(v.data) /\ IsSequence(v.list)
\* What the loader has read is the beginning of the file, and then all that its header announces.
LoadedOK(v) ==
  /\ Len(v.out) <= Len(v.data) /\ v.out = SubSeq(v.data, 1, Len(v.out))
  /\ v.out # << >> => IsSegment(v.data[1]) /\ v.data[1].k = 1
PlaceOK(op, at, v) ==
  /\ at # "prompt"
  /\ at \in {"read", "compile", "create", "write"} => op = "cc"
  /\ at \in {"compile", "create", "user", "open"} => v.fd = "null"
  /\ at = "create" => HasOut
  /\ at = "open" => v.out = << >>
  /\ at = "load" \/ (at = "user" /\ op = "run") => LoadedOK(v)
  /\ at = "user" /\ op = "run" => v.out # << >> /\ Len(v.out) = 3 + v.data[1].of.relocs
CcOK == InSession => SessionOK(S) /\ PlaceOK(cmd.op, cmd.at, S) /\ (cmd.at = "open" => Exists(tree, S.path))

\* A handle that is open belongs to the command that runs, or was left by tar.
TarHandles == {"tar", "tar in", "tar dir"}
HasHandle(v, h) ==
  \/ v.fd = "open" /\ h = FdHandle(v.path)
  \/ \E k \in 1 .. Len(v.list) : h = UserHandle(v.list[k])
Owned(h) ==
  \/ Copying /\ h \in {In, Out}
  \/ At("rm", "clean") /\ \E k \in 1 .. Len(Frames) : h = DirHandle(Frames[k].dir)
  \/ InSession /\ HasHandle(S, h)
HandlesOK ==
  /\ cmd.op # "off" => \A h \in open : h[1] \in TarHandles \/ Owned(h)
  /\ At("tar", "done") /\ cmd.said \in {"created", "read", "failed"} => TarHandle \notin open

PInv == TypeOK /\ CmdOK /\ PwdOK /\ MountOK /\ CopyOK /\ CleanOK /\ TarOK /\ CcOK /\ HandlesOK
-----------------------------------------------------------------------------
(* Names. *)

\* The text of the working directory without its last part is a text of a directory.
LEMMA UpIs ==
  ASSUME PwdOK
  PROVE  DOMAIN Up = {"slash", "names"} /\ Up.slash \in BOOLEAN /\ IsSequence(Up.names)
<1>1. CASE sh_pwd.names = << >>
  <2>1. Up = [slash |-> FALSE, names |-> << >>]
    <3>1. Len(sh_pwd.names) # 1
      BY <1>1
    <3>2. QED BY <1>1, <3>1 DEF Up
  <2>2. QED BY <2>1, NoContent
<1>2. CASE sh_pwd.names # << >> /\ ~sh_pwd.slash /\ Len(sh_pwd.names) = 1
  BY <1>2 DEF Up, PwdOK
<1>3. CASE sh_pwd.names # << >> /\ ~(~sh_pwd.slash /\ Len(sh_pwd.names) = 1)
  <2>1. IsSequence(Front(sh_pwd.names))
    BY <1>3, FrontFacts DEF PwdOK
  <2>2. Up = [sh_pwd EXCEPT !.names = Front(sh_pwd.names)]
    BY <1>3 DEF Up
  <2>3. QED BY <2>1, <2>2 DEF PwdOK
<1>4. QED BY <1>1, <1>2, <1>3

\* What full_path returns is a text with a sequence of names.
LEMMA FullPathIs ==
  ASSUME PwdOK, NEW arg, NEW op, IsArgument(arg, op), ~IsDotDot(arg)
  PROVE  /\ DOMAIN FullPath(arg) = {"slash", "names"}
         /\ FullPath(arg).slash \in BOOLEAN
         /\ IsSequence(FullPath(arg).names)
<1>1. CASE arg.abs
  BY <1>1 DEF FullPath, IsArgument
<1>2. CASE ~arg.abs /\ ~arg.up
  <2>1. FullPath(arg) = [sh_pwd EXCEPT !.names = sh_pwd.names \o arg.names]
    BY <1>2 DEF FullPath
  <2>2. IsSequence(sh_pwd.names \o arg.names)
    BY CatFacts DEF PwdOK, IsArgument
  <2>3. QED BY <2>1, <2>2 DEF PwdOK
<1>3. CASE ~arg.abs /\ arg.up /\ ~sh_pwd.slash /\ Len(sh_pwd.names) = 1
  <2> DEFINE n == <<sh_pwd.names[1] \o Head(arg.names)>> \o Tail(arg.names)
  <2>1. FullPath(arg) = [slash |-> FALSE, names |-> n]
    BY <1>3 DEF FullPath
  <2>2. arg.names # << >> /\ IsSequence(arg.names)
    BY <1>3 DEF IsDotDot, IsArgument
  <2>3. IsSequence(n)
    BY <2>2, TailFacts, OneFacts, CatFacts
  <2> HIDE DEF n
  <2>4. QED BY <2>1, <2>3
<1>4. CASE ~arg.abs /\ arg.up /\ ~(~sh_pwd.slash /\ Len(sh_pwd.names) = 1)
  <2>1. FullPath(arg) = [Up EXCEPT !.names = Up.names \o arg.names]
    BY <1>4 DEF FullPath
  <2>2. IsSequence(Up.names \o arg.names)
    BY UpIs, CatFacts DEF IsArgument
  <2>3. QED BY <2>1, <2>2, UpIs
<1>5. QED BY <1>1, <1>2, <1>3, <1>4

\* The text is the root's, or has a name in it.
LEMMA UpHasNames ==
  ASSUME PwdOK, sh_pwd # AtRoot
  PROVE  Up = AtRoot \/ Up.names # << >>
<1>1. IsSequence(sh_pwd.names) /\ sh_pwd.names # << >> /\ Len(sh_pwd.names) \in Nat
  BY SequenceFacts DEF PwdOK
<1>2. CASE ~sh_pwd.slash /\ Len(sh_pwd.names) = 1
  BY <1>1, <1>2 DEF Up
<1>3. CASE ~(~sh_pwd.slash /\ Len(sh_pwd.names) = 1)
  <2> DEFINE f == Front(sh_pwd.names)
  <2>1. Up = [sh_pwd EXCEPT !.names = f]
    BY <1>1, <1>3 DEF Up
  <2>2. IsSequence(f) /\ Len(f) = Len(sh_pwd.names) - 1
    BY <1>1, FrontFacts
  <2> HIDE DEF f
  <2>3. DOMAIN Up = {"slash", "names"} /\ Up.names = f /\ Up.slash = sh_pwd.slash
    BY <2>1 DEF PwdOK
  <2>4. CASE f = << >>
    <3>1. Len(f) = 0
      BY <2>4
    <3>2. sh_pwd.slash
      BY <1>1, <1>3, <2>2, <3>1
    <3>3. sh_pwd.slash = TRUE
      BY <3>2 DEF PwdOK
    <3>4. Up = [x \in {"slash", "names"} |-> IF x = "names" THEN << >> ELSE sh_pwd[x]]
      BY <2>1, <2>4 DEF PwdOK
    <3>5. QED BY <3>3, <3>4 DEF AtRoot
  <2>5. QED BY <2>3, <2>4
<1>4. QED BY <1>2, <1>3

LEMMA TextHasNames ==
  ASSUME PwdOK, NEW arg, NEW op, IsArgument(arg, op), ~IsDotDot(arg)
  PROVE  FullPath(arg) = AtRoot \/ FullPath(arg).names # << >>
<1>0. IsSequence(arg.names) /\ Len(arg.names) \in Nat /\ IsSequence(sh_pwd.names) /\ Len(sh_pwd.names) \in Nat
  BY SequenceFacts DEF IsArgument, PwdOK
<1>1. CASE arg.abs
  BY <1>1 DEF FullPath, AtRoot
<1>2. CASE ~arg.abs /\ ~arg.up
  <2> DEFINE n == sh_pwd.names \o arg.names
  <2>1. FullPath(arg) = [sh_pwd EXCEPT !.names = n]
    BY <1>2 DEF FullPath
  <2>2. IsSequence(n) /\ Len(n) = Len(sh_pwd.names) + Len(arg.names)
    BY <1>0, CatFacts
  <2> HIDE DEF n
  <2>3. CASE sh_pwd.names # << >>
    <3>1. Len(sh_pwd.names) >= 1
      BY <1>0, <2>3, FrontFacts
    <3>2. Len(n) # 0
      <4> DEFINE a == Len(sh_pwd.names)
                 b == Len(arg.names)
                 c == Len(n)
      <4>1. a \in Nat /\ b \in Nat /\ a >= 1 /\ c = a + b
        BY <1>0, <2>2, <3>1
      <4> HIDE DEF a, b, c
      <4>2. c # 0
        BY <4>1
      <4>3. QED BY <4>2 DEF c
    <3>3. n # << >>
      BY <3>2
    <3>4. QED BY <2>1, <3>3 DEF PwdOK
  <2>4. CASE sh_pwd = AtRoot
    <3>1. FullPath(arg) = [AtRoot EXCEPT !.names = n]
      BY <2>1, <2>4
    <3>2. QED BY <3>1 DEF AtRoot
  <2>5. QED BY <2>3, <2>4 DEF PwdOK
<1>3. CASE ~arg.abs /\ arg.up /\ ~sh_pwd.slash /\ Len(sh_pwd.names) = 1
  <2> DEFINE h == <<sh_pwd.names[1] \o Head(arg.names)>>
             t == Tail(arg.names)
             n == h \o t
  <2>1. FullPath(arg) = [slash |-> FALSE, names |-> n]
    BY <1>3 DEF FullPath
  <2>2. arg.names # << >>
    BY <1>3 DEF IsDotDot
  <2>3. IsSequence(h) /\ Len(h) = 1 /\ IsSequence(t) /\ Len(t) \in Nat
    BY <1>0, <2>2, OneFacts, TailFacts, SequenceFacts
  <2> HIDE DEF h, t
  <2>4. Len(h \o t) = Len(h) + Len(t)
    BY <2>3, CatFacts
  <2>5. n # << >>
    <3>1. Len(n) # 0
      BY <2>3, <2>4
    <3> HIDE DEF n
    <3>2. QED BY <3>1
  <2> HIDE DEF n
  <2>6. QED BY <2>1, <2>5
<1>4. CASE ~arg.abs /\ arg.up /\ ~(~sh_pwd.slash /\ Len(sh_pwd.names) = 1)
  <2> DEFINE n == Up.names \o arg.names
  <2>1. FullPath(arg) = [Up EXCEPT !.names = n]
    BY <1>4 DEF FullPath
  <2>2. arg.names # << >> /\ Len(arg.names) >= 1
    BY <1>0, <1>4, FrontFacts DEF IsDotDot
  <2>3. IsSequence(Up.names) /\ Len(Up.names) \in Nat /\ DOMAIN Up = {"slash", "names"}
    BY UpIs, SequenceFacts
  <2>4. Len(n) = Len(Up.names) + Len(arg.names)
    BY <1>0, <2>3, CatFacts
  <2>5. n # << >>
    BY <1>0, <2>2, <2>3, <2>4
  <2> HIDE DEF n
  <2>6. QED BY <2>1, <2>3, <2>5
<1>5. QED BY <1>1, <1>2, <1>3, <1>4

\* The arguments the commands use are there, and name places.
LEMMA ArgumentIs ==
  ASSUME CmdOK, PwdOK, cmd.op \in Commands, NEW k \in 1 .. Len(Line.args)
  PROVE  /\ IsArgument(Line.args[k], cmd.op)
         /\ cmd.op # "cd" \/ ~IsDotDot(Line.args[k]) => /\ IsSequence(PathOf(k))
                                                        /\ DOMAIN FullPath(Line.args[k]) = {"slash", "names"}
                                                        /\ FullPath(Line.args[k]).slash \in BOOLEAN
<1>1. IsArgument(Line.args[k], cmd.op)
  BY DEF CmdOK, IsLine
<1>2. cmd.op # "cd" => ~IsDotDot(Line.args[k])
  BY <1>1 DEF IsDotDot, IsArgument
<1>3. QED BY <1>1, <1>2, FullPathIs DEF PathOf

\* A command that was started has the arguments it needs.
LEMMA Arguments ==
  ASSUME CmdOK, cmd.op \in Commands
  PROVE  /\ IsSequence(Line.args) /\ Len(Line.args) \in Nat
         /\ cmd.op \in {"mv", "cp"} => 1 \in 1 .. Len(Line.args) /\ 2 \in 1 .. Len(Line.args)
         /\ cmd.op \in {"mkdir", "rm", "tar", "cc", "run"} => 1 \in 1 .. Len(Line.args)
<1>1. IsSequence(Line.args) /\ Len(Line.args) >= Needed(cmd.op)
  BY DEF CmdOK, IsLine
<1>2. Len(Line.args) \in Nat
  BY <1>1, SequenceFacts
<1>3. QED BY <1>1, <1>2 DEF Needed

-----------------------------------------------------------------------------
(* Steps. *)

\* A step that goes on in its command changes the place and the local variables alone.
LEMMA GoesIs ==
  ASSUME CmdOK, NEW at, NEW v, Goes(at, v)
  PROVE  /\ DOMAIN cmd' = DOMAIN cmd /\ cmd'.op = cmd.op /\ cmd'.line = cmd.line /\ cmd'.said = cmd.said
         /\ cmd'.at = at /\ cmd'.v = v
BY DEF CmdOK, Goes

\* One that ends it changes the place and the answer alone.
LEMMA AnswersIs ==
  ASSUME CmdOK, NEW said, Answers(said)
  PROVE  /\ DOMAIN cmd' = DOMAIN cmd /\ cmd'.op = cmd.op /\ cmd'.line = cmd.line /\ cmd'.v = cmd.v
         /\ cmd'.at = "done" /\ cmd'.said = said
BY DEF CmdOK, Answers

LEMMA SuffersIs ==
  ASSUME TypeOK, NEW r \in Outcomes, NEW call, Suffers(r, call)
  PROVE  faults' \in 0 .. MaxFaults
BY BoundsAssumption DEF TypeOK, Outcomes, Suffers

\* What the steps of a command share.
LEMMA WithinCommand ==
  ASSUME PInv, Within, cmd.op \in Commands, cmd'.op = cmd.op, cmd'.line = cmd.line, DOMAIN cmd' = DOMAIN cmd, cmd'.at # "start",
         WellFormed(tree'), IsFiniteSet(open'), IsFiniteSet(slips'), faults' \in 0 .. MaxFaults
  PROVE  (TypeOK /\ CmdOK /\ PwdOK /\ MountOK)'
<1>1. cmd.op # "off"
  BY DEF Commands
<1>2. QED BY <1>1 DEF PInv, Within, TypeOK, CmdOK, PwdOK, MountOK, At, Line
-----------------------------------------------------------------------------
(* The shell's own steps. *)

AtRest == cmd.at \in {"start", "done"} \/ cmd.op \in {"none", "boot", "off"}

\* Between commands there are no local variables, and no handles that belong to a command.
LEMMA NothingLocal ==
  ASSUME AtRest
  PROVE  CopyOK /\ CleanOK /\ TarOK /\ CcOK /\ \A h : ~Owned(h)
<1>1. ~At("mv", "rename") /\ ~At("cp", "open") /\ ~Copying /\ ~At("rm", "clean") /\ ~At("rm", "count") /\ ~Creating /\ ~Reading /\ ~InSession
      /\ ~At("tar", "create") /\ ~At("tar", "close")
  BY DEF AtRest, At, Copying, Creating, Reading, InSession
<1>2. cmd.op = "tar" => cmd.at \in {"start", "done"}
  BY DEF AtRest
<1>3. CopyOK /\ CleanOK /\ TarOK /\ CcOK
  BY <1>1, <1>2 DEF CopyOK, CleanOK, TarOK, CcOK
<1>4. QED BY <1>1, <1>3 DEF Owned

\* The handles of a command at rest are those left by tar.
LEMMA OnlyTars ==
  ASSUME PInv, AtRest, cmd.op # "off"
  PROVE  \A h \in open : h[1] \in TarHandles
BY NothingLocal DEF PInv, HandlesOK

\* A step to a place at rest.
LEMMA ComesToRest ==
  ASSUME (TypeOK /\ CmdOK /\ PwdOK /\ MountOK)', AtRest',
         cmd'.op = "off" \/ \A h \in open' : h[1] \in TarHandles,
         At("tar", "done")' /\ cmd'.said \in {"created", "read", "failed"} => TarHandle' \notin open'
  PROVE  PInv'
<1>1. (CopyOK /\ CleanOK /\ TarOK /\ CcOK)'
  BY NothingLocal, PTL
<1>2. HandlesOK'
  BY DEF HandlesOK
<1>3. QED BY <1>1, <1>2 DEF PInv

\* The invariant holds at power-on, on any device.
LEMMA InitInv ==
  Init => PInv
<1> SUFFICES ASSUME Init PROVE PInv
  OBVIOUS
<1>1. cmd = [op |-> "boot", at |-> "load", line |-> NoLine, said |-> "", v |-> << >>]
  BY DEF Init, Does
<1>2. TypeOK
  <2>1. WellFormed(tree) /\ sound \in BOOLEAN /\ scene \in DOMAIN Scenes
    BY ScenesAssumption DEF Init
  <2>2. IsFiniteSet(open) /\ IsFiniteSet(slips)
    BY FS_EmptySet DEF Init
  <2>3. faults \in 0 .. MaxFaults /\ left \in 0 .. Scenes[scene].commands
    BY BoundsAssumption DEF Init
  <2>4. cmd.op \in Ops
    BY <1>1 DEF Ops
  <2>5. DOMAIN sh_pwd = {"slash", "names"}
    BY DEF Init, AtRoot
  <2>6. mounted = FALSE /\ before = tree
    BY DEF Init
  <2>7. QED BY <2>1, <2>2, <2>3, <2>4, <2>5, <2>6 DEF TypeOK
<1>3. CmdOK
  BY <1>1 DEF CmdOK, Commands
<1>4. PwdOK
  BY NoContent DEF Init, PwdOK, AtRoot
<1>5. MountOK
  BY <1>1 DEF MountOK, At
<1>6. AtRest /\ open = {} /\ ~At("tar", "done")
  <2>1. cmd.op = "boot"
    BY <1>1
  <2>2. QED BY <2>1 DEF AtRest, Init, At
<1>7. HandlesOK
  BY <1>6 DEF HandlesOK
<1>8. QED BY <1>2, <1>3, <1>4, <1>5, <1>6, <1>7, NothingLocal DEF PInv

LEMMA TypeStep ==
  ASSUME PInv, Type
  PROVE  PInv'
<1>1. PICK line \in Scenes[scene].lines : Enter(line)
  BY DEF Type
<1>2. IsLine(line) /\ line.op \in Commands
  BY <1>1, ScenesAssumption DEF PInv, TypeOK, IsLine
<1> DEFINE started == [Does(line.op, "start") EXCEPT !.line = line]
<1>3. /\ DOMAIN started = {"op", "at", "line", "said", "v"}
      /\ started.op = line.op /\ started.at = "start" /\ started.line = line
  BY DEF Does
<1>4. \/ cmd' = started /\ ~bad_mount(line.op)
      \/ \E said \in {"mount", "error"} : cmd' = [started EXCEPT !.at = "done", !.said = said]
  BY <1>1 DEF Enter
<1> HIDE DEF started
<1>5. /\ DOMAIN cmd' = {"op", "at", "line", "said", "v"} /\ cmd'.op = line.op /\ cmd'.line = line
      /\ \/ cmd'.at = "start" /\ ~bad_mount(line.op)
         \/ cmd'.at = "done" /\ cmd'.said \in {"mount", "error"}
  BY <1>3, <1>4
<1>6. left \in Nat /\ left > 0 /\ left' = left - 1 /\ UNCHANGED <<scene, sound, tree, mounted, sh_pwd, open, faults>> /\ before' = tree
  BY <1>1, BoundsAssumption DEF Enter, PInv, TypeOK
<1>7. slips' = slips \/ slips' = slips \cup {<<"unmounted", line.op>>}
  BY <1>1 DEF Enter
<1>8. IsFiniteSet(slips')
  <2>1. IsFiniteSet(slips)
    BY DEF PInv, TypeOK
  <2>2. IsFiniteSet(slips \cup {<<"unmounted", line.op>>})
    BY <2>1, FS_AddElement
  <2>3. QED BY <1>7, <2>1, <2>2
<1>9. (TypeOK /\ CmdOK /\ PwdOK)'
  <2>1. TypeOK'
    <3>1. cmd'.op \in Ops
      BY <1>2, <1>5 DEF Ops
    <3>2. left' \in 0 .. Scenes[scene'].commands
      BY <1>6, BoundsAssumption DEF PInv, TypeOK
    <3>3. WellFormed(tree') /\ WellFormed(before')
      BY <1>6 DEF PInv, TypeOK
    <3>4. QED BY <3>1, <3>2, <3>3, <1>6, <1>8 DEF PInv, TypeOK
  <2>2. CmdOK'
    <3>1. cmd'.op # "off"
      BY <1>2, <1>5 DEF Commands
    <3>2. QED BY <1>2, <1>5, <3>1 DEF CmdOK, Line
  <2>3. PwdOK'
    BY <1>6 DEF PInv, PwdOK
  <2>4. QED BY <2>1, <2>2, <2>3
<1>10. MountOK'
  BY <1>5, <1>6 DEF MountOK, At, bad_mount, NeedsMount, NeedsUnmounted
<1>11. AtRest' /\ ~(At("tar", "done")' /\ cmd'.said \in {"created", "read", "failed"})
  BY <1>5 DEF AtRest, At
<1>12. AtRest /\ cmd.op # "off"
  BY <1>1 DEF Enter, AtPrompt, Does, AtRest
<1>13. \A h \in open' : h[1] \in TarHandles
  BY <1>6, <1>12, OnlyTars
<1>14. QED BY <1>9, <1>10, <1>11, <1>13, ComesToRest

\* What the shell answers, or where it starts again.
LEMMA ShellRests ==
  ASSUME PInv, (open' = open /\ AtRest /\ cmd.op # "off") \/ open' = {},
         \/ /\ cmd.op \in Commands \ {"tar"} /\ cmd'.op = cmd.op /\ cmd'.line = cmd.line
            /\ cmd'.at = "done" /\ DOMAIN cmd' = DOMAIN cmd
         \/ cmd' \in {Does("none", "prompt"), Does("boot", "load"), Does("boot", "ask"), Does("off", "off")},
         slips' = slips, scene' = scene, left' = left,
         faults' \in 0 .. MaxFaults, sound' \in BOOLEAN, mounted' \in BOOLEAN, mounted' => sound',
         WellFormed(tree'), WellFormed(before'), PwdOK'
  PROVE  PInv'
<1>1. /\ DOMAIN cmd' = {"op", "at", "line", "said", "v"} /\ cmd'.op \in Ops /\ cmd'.at # "start"
      /\ cmd'.op \in Commands => cmd'.op = cmd.op /\ cmd'.line = cmd.line
      /\ cmd'.op = "off" => cmd'.at = "off"
      /\ cmd'.op # "tar" /\ AtRest'
  <2>1. CASE /\ cmd.op \in Commands \ {"tar"} /\ cmd'.op = cmd.op /\ cmd'.line = cmd.line
             /\ cmd'.at = "done" /\ DOMAIN cmd' = DOMAIN cmd
    <3>1. cmd.op # "off"
      BY <2>1 DEF Commands
    <3>2. QED BY <2>1, <3>1 DEF PInv, CmdOK, TypeOK, AtRest
  <2>2. ASSUME NEW op \in {"none", "boot", "off"}, NEW at \in {"prompt", "load", "ask", "off"}, op = "off" => at = "off",
               cmd' = Does(op, at)
        PROVE  /\ DOMAIN cmd' = {"op", "at", "line", "said", "v"} /\ cmd'.op \in Ops /\ cmd'.at # "start"
               /\ cmd'.op \notin Commands /\ (cmd'.op = "off" => cmd'.at = "off") /\ cmd'.op # "tar" /\ AtRest'
    <3>1. DOMAIN cmd' = {"op", "at", "line", "said", "v"} /\ cmd'.op = op /\ cmd'.at = at
      BY <2>2 DEF Does
    <3>2. op \notin Commands /\ op \in Ops /\ at # "start" /\ op # "tar"
      BY DEF Commands, Ops
    <3>3. AtRest'
      BY <3>1 DEF AtRest
    <3>4. QED BY <3>1, <3>2, <3>3, <2>2
  <2>3. QED BY <2>1, <2>2
<1>2. (TypeOK /\ CmdOK /\ MountOK)'
  <2>1. IsFiniteSet(open')
    BY FS_EmptySet DEF PInv, TypeOK
  <2>2. TypeOK'
    BY <1>1, <2>1 DEF PInv, TypeOK, PwdOK
  <2>3. CmdOK'
    BY <1>1 DEF PInv, CmdOK, Line
  <2>4. MountOK'
    BY <1>1 DEF MountOK, At
  <2>5. QED BY <2>2, <2>3, <2>4
<1>3. \A h \in open' : h[1] \in TarHandles
  BY OnlyTars
<1>4. QED BY <1>1, <1>2, <1>3, ComesToRest DEF At

LEMMA ReturnStep ==
  ASSUME PInv, Return
  PROVE  PInv'
<1>1. cmd' = Does("none", "prompt") /\ cmd.at = "done"
      /\ UNCHANGED <<scene, sound, tree, mounted, sh_pwd, open, slips, faults, left>> /\ before' = tree
  BY DEF Return, AtPrompt
<1>2. CASE cmd.op # "off"
  <2>1. AtRest
    BY <1>1 DEF AtRest
  <2>2. PwdOK'
    BY <1>1 DEF PInv, PwdOK
  <2>3. QED BY <1>1, <1>2, <2>1, <2>2, ShellRests DEF PInv, TypeOK
<1>3. QED BY <1>1, <1>2 DEF PInv, CmdOK

LEMMA ResetStep ==
  ASSUME PInv, Reset
  PROVE  PInv'
<1>1. /\ cmd' = Does("boot", "load") /\ open' = {} /\ sh_pwd' = AtRoot /\ mounted' = FALSE /\ before' = tree
      /\ UNCHANGED <<scene, sound, tree, slips, faults, left>>
  BY DEF Reset
<1>2. PwdOK'
  BY <1>1, NoContent DEF PwdOK, AtRoot
<1>3. QED BY <1>1, <1>2, ShellRests DEF PInv, TypeOK

\* The commands that answer at once.
LEMMA CommandRests ==
  ASSUME PInv, cmd.op \in Commands \ {"tar"}, cmd.at = "start", NEW said, Answers(said),
         open' = open, slips' = slips, scene' = scene, left' = left, before' = before,
         faults' \in 0 .. MaxFaults, sound' \in BOOLEAN, mounted' \in BOOLEAN, mounted' => sound',
         WellFormed(tree'), PwdOK'
  PROVE  PInv'
<1>1. DOMAIN cmd' = DOMAIN cmd /\ cmd'.op = cmd.op /\ cmd'.line = cmd.line /\ cmd'.at = "done"
  BY AnswersIs DEF PInv
<1>2. AtRest /\ cmd.op # "tar" /\ cmd.op # "off"
  BY DEF AtRest, Commands
<1>3. WellFormed(before')
  BY DEF PInv, TypeOK
<1>4. QED BY <1>1, <1>2, <1>3, ShellRests

LEMMA CdStep ==
  ASSUME PInv, Cd
  PROVE  PInv'
<1>1. At("cd", "start") /\ UNCHANGED <<scene, sound, tree, mounted, open, slips, before, left>>
  BY DEF Cd
<1>2. PICK said : /\ Answers(said) /\ faults' \in 0 .. MaxFaults
                  /\ \/ sh_pwd' = sh_pwd
                     \/ sh_pwd' = AtRoot
                     \/ sh_pwd # AtRoot /\ sh_pwd' = Up
                     \/ Line.args # << >> /\ ~IsDotDot(Line.args[1]) /\ sh_pwd' = FullPath(Line.args[1])
  <2>1. CASE Line.args = << >> /\ CdTo(AtRoot) /\ Quietly
    BY <2>1 DEF CdTo, Quietly, PInv, TypeOK
  <2>2. CASE /\ Line.args # << >> /\ IsDotDot(Line.args[1])
             /\ IF sh_pwd = AtRoot THEN Answers("not a directory") /\ UNCHANGED sh_pwd ELSE CdTo(Up)
             /\ Quietly
    BY <2>2 DEF CdTo, Quietly, PInv, TypeOK
  <2>3. CASE /\ Line.args # << >> /\ ~IsDotDot(Line.args[1])
             /\ \E r \in Outcomes :
                  /\ Suffers(r, "open")
                  /\ IF r = "ok" /\ IsDir(tree, PathOf(1))
                     THEN CdTo(FullPath(Line.args[1]))
                     ELSE Answers("not a directory") /\ UNCHANGED sh_pwd
    BY <2>3, SuffersIs DEF CdTo, PInv
  <2>4. QED BY <2>1, <2>2, <2>3 DEF Cd
<1>3. PwdOK'
  <2>1. CASE sh_pwd' = sh_pwd
    BY <2>1 DEF PInv, PwdOK
  <2>2. CASE sh_pwd' = AtRoot
    BY <2>2, NoContent DEF PwdOK, AtRoot
  <2>3. CASE sh_pwd # AtRoot /\ sh_pwd' = Up
    BY <2>3, UpIs, UpHasNames DEF PInv, PwdOK
  <2>4. CASE Line.args # << >> /\ ~IsDotDot(Line.args[1]) /\ sh_pwd' = FullPath(Line.args[1])
    <3>1. cmd.op = "cd" /\ cmd.op \in Commands
      BY <1>1 DEF At, Commands
    <3>2. 1 \in 1 .. Len(Line.args)
      BY <2>4, <3>1, Arguments, FrontFacts DEF PInv
    <3>3. /\ IsSequence(FullPath(Line.args[1]).names) /\ DOMAIN FullPath(Line.args[1]) = {"slash", "names"}
          /\ FullPath(Line.args[1]).slash \in BOOLEAN
      BY <2>4, <3>1, <3>2, ArgumentIs DEF PInv, PathOf
    <3>4. IsArgument(Line.args[1], cmd.op) /\ PwdOK
      BY <3>1, <3>2, ArgumentIs DEF PInv
    <3>5. FullPath(Line.args[1]) = AtRoot \/ FullPath(Line.args[1]).names # << >>
      BY <2>4, <3>4, TextHasNames
    <3>6. QED BY <2>4, <3>3, <3>5 DEF PwdOK
  <2>5. QED BY <1>2, <2>1, <2>2, <2>3, <2>4
<1>4. cmd.op \in Commands \ {"tar"} /\ cmd.at = "start"
  BY <1>1 DEF At, Commands
<1>5. QED BY <1>1, <1>2, <1>3, <1>4, CommandRests DEF PInv, TypeOK

LEMMA MountStep ==
  ASSUME PInv, Mount \/ Unmount \/ Format
  PROVE  PInv'
<1>1. /\ cmd.op \in Commands \ {"tar"} /\ cmd.at = "start"
      /\ UNCHANGED <<scene, sh_pwd, open, slips, before, left>>
  BY DEF Mount, Unmount, Format, At, Commands
<1>2. \E said : Answers(said)
  BY DEF Mount, Unmount, Format
<1>3. faults' \in 0 .. MaxFaults
  BY SuffersIs DEF Mount, Unmount, Format, Quietly, PInv, TypeOK
<1>4. WellFormed(tree')
  <2>1. tree' = tree \/ tree' = EmptyTree
    BY DEF Mount, Unmount, Format, Formats
  <2>2. QED BY <2>1, EmptyTreeOK DEF PInv, TypeOK
<1>5. sound' \in BOOLEAN /\ mounted' \in BOOLEAN /\ (mounted' => sound')
  <2>1. CASE Mount
    <3>1. mounted' \in BOOLEAN /\ (mounted' => sound) /\ sound' = sound
      BY <2>1 DEF Mount
    <3>2. QED BY <3>1 DEF PInv, TypeOK
  <2>2. CASE Unmount
    <3>1. mounted' \in BOOLEAN /\ sound' = sound /\ mounted
      BY <2>2 DEF Unmount, PInv, MountOK
    <3>2. QED BY <3>1 DEF PInv, TypeOK
  <2>3. CASE Format
    <3>1. ~mounted /\ mounted' = mounted /\ (sound' = sound \/ sound' = TRUE \/ sound' = FALSE)
      BY <2>3 DEF Format, Formats, PInv, MountOK
    <3>2. QED BY <3>1 DEF PInv, TypeOK
  <2>4. QED BY <2>1, <2>2, <2>3
<1>6. PwdOK'
  BY <1>1 DEF PInv, PwdOK
<1>7. QED BY <1>1, <1>2, <1>3, <1>4, <1>5, <1>6, CommandRests

\* Saving the history leaves a tree.
LEMMA HistoryFileOK ==
  ASSUME NEW t, WellFormed(t), CanCreate(t, HistoryFile)
  PROVE  WellFormed(Stored(Created(t, HistoryFile), HistoryFile, <<History>>))
<1>1. IsSequence(HistoryFile)
  BY OneFacts DEF HistoryFile
<1>2. IsContent(<<History>>)
  <2>1. IsBlock(History)
    BY DEF IsBlock, IsHeader, IsSource, History
  <2>2. QED BY <2>1, OneFacts DEF IsContent
<1>3. QED BY <1>1, <1>2, CreatedOK, StoredOK

LEMMA StopStep ==
  ASSUME PInv, Stop
  PROVE  PInv'
<1>1. /\ cmd.op \in {"quit", "reboot"} /\ cmd.at = "start"
      /\ UNCHANGED <<scene, sound, mounted, sh_pwd, open, slips, before, left>>
  BY DEF Stop
<1>2. cmd.op \in Commands \ {"tar"} /\ AtRest /\ cmd.op # "off"
  BY <1>1 DEF Commands, AtRest
<1>3. PwdOK'
  BY <1>1 DEF PInv, PwdOK
<1>4. CASE Answers("no") /\ Quietly /\ UNCHANGED tree
  BY <1>1, <1>2, <1>3, <1>4, CommandRests DEF PInv, TypeOK, Quietly
<1>5. CASE /\ cmd' = Does("off", "off")
           /\ IF ~mounted THEN Quietly /\ UNCHANGED tree
              ELSE \E r \in Outcomes :
                     /\ Suffers(r, "write")
                     /\ tree' = IF r = "ok" /\ CanCreate(tree, HistoryFile)
                                THEN Stored(Created(tree, HistoryFile), HistoryFile, <<History>>) ELSE tree
  <2>1. faults' \in 0 .. MaxFaults
    BY <1>5, SuffersIs DEF Quietly, PInv, TypeOK
  <2>2. WellFormed(tree')
    BY <1>5, HistoryFileOK DEF PInv, TypeOK
  <2>3. QED BY <1>1, <1>2, <1>3, <1>5, <2>1, <2>2, ShellRests DEF PInv, TypeOK
<1>6. QED BY <1>4, <1>5 DEF Stop

LEMMA BootStep ==
  ASSUME PInv, BootMount \/ BootAnswer
  PROVE  PInv'
<1>1. cmd.op = "boot" /\ UNCHANGED <<scene, sh_pwd, open, slips, left>>
  BY DEF BootMount, BootAnswer, At
<1>2. AtRest /\ cmd.op # "off"
  BY <1>1 DEF AtRest
<1>3. PwdOK'
  BY <1>1 DEF PInv, PwdOK
<1>4. CASE BootMount
  <2>1. faults' \in 0 .. MaxFaults
    BY <1>4, SuffersIs DEF BootMount, PInv
  <2>2. cmd' \in {Does("none", "prompt"), Does("boot", "load"), Does("boot", "ask"), Does("off", "off")}
    <3>1. PICK r \in Outcomes, call \in {"load", "mount"} :
            cmd' = CASE r = "bad" /\ call = "load" -> Does("off", "off")
                     [] mounted' -> AtPrompt
                     [] OTHER -> Does("boot", "ask")
      BY <1>4 DEF BootMount
    <3>2. cmd' = Does("off", "off") \/ cmd' = Does("none", "prompt") \/ cmd' = Does("boot", "ask")
      BY <3>1 DEF AtPrompt
    <3>3. QED BY <3>2
  <2>3. mounted' \in BOOLEAN /\ (mounted' => sound') /\ UNCHANGED <<sound, tree, before>>
    BY <1>4 DEF BootMount
  <2>4. QED BY <1>1, <1>2, <1>3, <2>1, <2>2, <2>3, ShellRests DEF PInv, TypeOK
<1>5. CASE BootAnswer
  <2>1. faults' \in 0 .. MaxFaults
    BY <1>5, SuffersIs DEF BootAnswer, PInv, Quietly, TypeOK
  <2>2. cmd' = Does("none", "prompt") /\ before' = tree'
    BY <1>5 DEF BootAnswer, AtPrompt
  <2>3. /\ mounted' \in BOOLEAN /\ sound' \in BOOLEAN /\ (mounted' => sound')
        /\ tree' = tree \/ tree' = EmptyTree
    <3>1. PICK key \in {"y", "Y", "n", "N", "CR"} :
            \/ /\ key = "y"
               /\ \E r \in Outcomes, call \in {"format", "mount"} :
                    /\ Formats(IF call = "format" THEN r ELSE "ok")
                    /\ mounted' = MountedAfter(r)
            \/ UNCHANGED <<sound, tree, mounted>>
      BY <1>5 DEF BootAnswer
    <3>2. CASE UNCHANGED <<sound, tree, mounted>>
      BY <3>2 DEF PInv, TypeOK
    <3>3. ASSUME NEW r \in Outcomes, NEW call \in {"format", "mount"},
                 Formats(IF call = "format" THEN r ELSE "ok"), mounted' = MountedAfter(r)
          PROVE  /\ mounted' \in BOOLEAN /\ sound' \in BOOLEAN /\ (mounted' => sound')
                 /\ tree' = EmptyTree
      <4>1. mounted' <=> r = "ok"
        BY <3>3 DEF MountedAfter
      <4>2. mounted' \in BOOLEAN
        BY <3>3 DEF MountedAfter
      <4>3. r = "ok" => (IF call = "format" THEN r ELSE "ok") = "ok"
        OBVIOUS
      <4>4. QED BY <3>3, <4>1, <4>2, <4>3 DEF Formats
    <3>4. QED BY <3>1, <3>2, <3>3
  <2>4. WellFormed(tree')
    BY <2>3, EmptyTreeOK DEF PInv, TypeOK
  <2>5. QED BY <1>1, <1>2, <1>3, <2>1, <2>2, <2>3, <2>4, ShellRests DEF PInv, TypeOK
<1>6. QED BY <1>4, <1>5
-----------------------------------------------------------------------------
(* mv, cp, mkdir and rm. *)

LEMMA FiniteSteps ==
  ASSUME NEW X, IsFiniteSet(X)
  PROVE  /\ \A a : IsFiniteSet(X \cup {a})
         /\ \A a, b : IsFiniteSet(X \cup {a, b})
         /\ \A Y : IsFiniteSet(X \ Y)
<1>1. \A a : IsFiniteSet(X \cup {a})
  BY FS_AddElement
<1>2. ASSUME NEW a, NEW b
      PROVE  IsFiniteSet(X \cup {a, b})
  <2>1. X \cup {a, b} = (X \cup {a}) \cup {b}
    OBVIOUS
  <2>2. IsFiniteSet(X \cup {a})
    BY <1>1
  <2>3. IsFiniteSet((X \cup {a}) \cup {b})
    BY <2>2, FS_AddElement
  <2>4. QED BY <2>1, <2>3
<1>3. ASSUME NEW Y
      PROVE  IsFiniteSet(X \ Y)
  <2>1. X \ Y \subseteq X
    OBVIOUS
  <2>2. QED BY <2>1, FS_Subset
<1>4. QED BY <1>1, <1>2, <1>3

\* A step of mv, cp, mkdir or rm leaves the parts of the invariant about other commands as they are.
LEMMA FileCommand ==
  ASSUME PInv, Within, cmd.op \in {"mv", "cp", "mkdir", "rm"},
         cmd'.op = cmd.op, cmd'.line = cmd.line, DOMAIN cmd' = DOMAIN cmd, cmd'.at # "start",
         WellFormed(tree'), IsFiniteSet(open'), IsFiniteSet(slips'), faults' \in 0 .. MaxFaults,
         CopyOK', CleanOK', \A h \in open' : h[1] \in TarHandles \/ Owned(h)'
  PROVE  PInv'
<1>1. cmd.op \in Commands
  BY DEF Commands
<1>2. (TypeOK /\ CmdOK /\ PwdOK /\ MountOK)'
  BY <1>1, WithinCommand
<1>3. TarOK' /\ CcOK'
  BY DEF TarOK, CcOK, Creating, Reading, InSession, At
<1>4. HandlesOK'
  BY DEF HandlesOK, At
<1>5. QED BY <1>2, <1>3, <1>4 DEF PInv

\* A step that touches no handle, and comes to a place without one.
LEMMA FilePlain ==
  ASSUME PInv, Within, cmd.op \in {"mv", "cp", "mkdir", "rm"}, \A h : ~Owned(h), UNCHANGED open,
         cmd'.op = cmd.op, cmd'.line = cmd.line, DOMAIN cmd' = DOMAIN cmd, cmd'.at # "start",
         WellFormed(tree'), IsFiniteSet(slips'), faults' \in 0 .. MaxFaults, CopyOK', CleanOK'
  PROVE  PInv'
<1>1. \A h \in open' : h[1] \in TarHandles
  BY DEF PInv, HandlesOK
<1>2. IsFiniteSet(open')
  BY DEF PInv, TypeOK
<1>3. QED BY <1>1, <1>2, FileCommand

LEMMA CheckStep ==
  ASSUME PInv, MvStart \/ CpStart
  PROVE  PInv'
<1>1. PICK at \in {"rename", "open"}, copy \in BOOLEAN :
        check_from_to_parms(at, copy) /\ (copy <=> at = "open")
  BY DEF MvStart, CpStart
<1>2. cmd.op \in {"mv", "cp"} /\ cmd.at = "start" /\ Within /\ UNCHANGED <<tree, open>>
      /\ (cmd.op = "cp" <=> at = "open")
  BY <1>1 DEF check_from_to_parms
<1>s. IsFiniteSet(slips')
  <2>1. slips' = slips \/ slips' = slips \cup {<<"no slash", cmd.op>>}
    BY <1>1 DEF check_from_to_parms, Slip
  <2>2. IsFiniteSet(slips)
    BY DEF PInv, TypeOK
  <2>3. IsFiniteSet(slips \cup {<<"no slash", cmd.op>>})
    BY <2>2, FiniteSteps
  <2>4. QED BY <2>1, <2>2, <2>3
<1>3. PICK r \in Outcomes, call \in {"stat", "stat to"} :
        /\ Suffers(r, call)
        /\ \/ \E said : Answers(said)
           \/ Goes(at, [from |-> PathOf(1), to |-> IF r = "bad" THEN PathOf(2) ELSE Target(PathOf(2))])
  BY <1>1 DEF check_from_to_parms
<1>4. faults' \in 0 .. MaxFaults
  BY <1>3, SuffersIs DEF PInv
<1>5. IsSequence(PathOf(1)) /\ IsSequence(PathOf(2)) /\ IsSequence(Target(PathOf(2)))
  <2>1. cmd.op \in Commands /\ cmd.op # "cd"
    BY <1>2 DEF Commands
  <2>2. 1 \in 1 .. Len(Line.args) /\ 2 \in 1 .. Len(Line.args)
    BY <1>2, <2>1, Arguments DEF PInv
  <2>3. IsSequence(PathOf(1)) /\ IsSequence(PathOf(2))
    BY <2>1, <2>2, ArgumentIs DEF PInv
  <2>4. IsSequence(LastName)
    BY NoContent, OneFacts DEF LastName
  <2>5. QED BY <2>3, <2>4, CatFacts DEF Target
<1>6. \A h : ~Owned(h)
  BY <1>2, NothingLocal DEF AtRest
<1>7. CASE \E said : Answers(said)
  <2>1. DOMAIN cmd' = DOMAIN cmd /\ cmd'.op = cmd.op /\ cmd'.line = cmd.line /\ cmd'.at = "done"
    BY <1>7, AnswersIs DEF PInv
  <2>2. CopyOK' /\ CleanOK'
    BY <2>1 DEF CopyOK, CleanOK, At, Copying
  <2>3. QED BY <1>2, <1>s, <1>4, <1>6, <2>1, <2>2, FilePlain DEF PInv, TypeOK
<1>8. CASE Goes(at, [from |-> PathOf(1), to |-> IF r = "bad" THEN PathOf(2) ELSE Target(PathOf(2))])
  <2> DEFINE v == [from |-> PathOf(1), to |-> IF r = "bad" THEN PathOf(2) ELSE Target(PathOf(2))]
  <2>1. DOMAIN cmd' = DOMAIN cmd /\ cmd'.op = cmd.op /\ cmd'.line = cmd.line /\ cmd'.at = at /\ cmd'.v = v
    BY <1>8, GoesIs DEF PInv
  <2>2. IsSequence(v.from) /\ IsSequence(v.to)
    BY <1>5
  <2> HIDE DEF v
  <2>3. CopyOK' /\ CleanOK'
    BY <2>1, <2>2 DEF CopyOK, CleanOK, At, Copying
  <2>4. QED BY <1>2, <1>s, <1>4, <1>6, <2>1, <2>3, FilePlain DEF PInv, TypeOK
<1>9. QED BY <1>3, <1>7, <1>8

\* mv and mkdir answer, whatever becomes of the tree.
LEMMA MvStep ==
  ASSUME PInv, Mv \/ MkdirCmd
  PROVE  PInv'
<1>1. cmd.op \in {"mv", "mkdir"} /\ Within /\ UNCHANGED <<open, slips>> /\ ~At("rm", "clean")
  BY DEF Mv, MkdirCmd, At
<1>2. \E said : Answers(said)
  BY DEF Mv, MkdirCmd
<1>3. DOMAIN cmd' = DOMAIN cmd /\ cmd'.op = cmd.op /\ cmd'.line = cmd.line /\ cmd'.at = "done"
  BY <1>2, AnswersIs DEF PInv
<1>4. faults' \in 0 .. MaxFaults
  BY SuffersIs DEF Mv, MkdirCmd, PInv
<1>5. WellFormed(tree')
  <2>1. CASE Mv
    <3>1. IsSequence(cmd.v.from) /\ IsSequence(cmd.v.to)
      BY <2>1 DEF Mv, PInv, CopyOK
    <3>2. \/ tree' = tree
          \/ CanRename(tree, cmd.v.from, cmd.v.to) /\ tree' = Renamed(tree, cmd.v.from, cmd.v.to)
      BY <2>1 DEF Mv
    <3>3. QED BY <3>1, <3>2, RenamedOK DEF PInv, TypeOK
  <2>2. CASE MkdirCmd
    <3>1. cmd.op \in Commands /\ cmd.op = "mkdir"
      BY <2>2 DEF MkdirCmd, At, Commands
    <3>2. 1 \in 1 .. Len(Line.args)
      BY <3>1, Arguments DEF PInv
    <3>3. IsSequence(PathOf(1))
      BY <3>1, <3>2, ArgumentIs DEF PInv
    <3>4. tree' = tree \/ (CanMkdir(tree, PathOf(1)) /\ tree' = Mkdir(tree, PathOf(1)))
      BY <2>2 DEF MkdirCmd
    <3>5. QED BY <3>3, <3>4, MkdirOK DEF PInv, TypeOK
  <2>3. QED BY <2>1, <2>2
<1>6. CopyOK' /\ CleanOK'
  BY <1>3 DEF CopyOK, CleanOK, At, Copying
<1>7. \A h : ~Owned(h)
  BY <1>1 DEF Owned, Copying, InSession
<1>8. QED BY <1>1, <1>3, <1>4, <1>5, <1>6, <1>7, FilePlain DEF PInv, TypeOK

\* The handles of cp, while it copies.
LEMMA CpOwned ==
  ASSUME cmd.op = "cp"
  PROVE  \A h : Owned(h) <=> cmd.at \in {"copy", "close"} /\ (h = In \/ h = Out)
BY DEF Owned, Copying, At, InSession

LEMMA CpOpenStep ==
  ASSUME PInv, CpOpen
  PROVE  PInv'
<1>1. At("cp", "open") /\ Within /\ UNCHANGED slips /\ cmd.op = "cp"
  BY DEF CpOpen, At
<1>2. PICK r \in Outcomes :
        /\ Suffers(r, "open")
        /\ IF r = "bad" \/ ~IsFile(tree, cmd.v.from) \/ ~CanCreate(tree, cmd.v.to)
           THEN Answers("error opening") /\ UNCHANGED <<tree, open>>
           ELSE /\ tree' = Created(tree, cmd.v.to)
                /\ open' = open \cup {In, Out}
                /\ Goes("copy", [from |-> cmd.v.from, to |-> cmd.v.to, rest |-> tree[cmd.v.from].data, out |-> << >>, error |-> FALSE])
  BY DEF CpOpen
<1>3. faults' \in 0 .. MaxFaults
  BY <1>2, SuffersIs DEF PInv
<1>4. IsSequence(cmd.v.from) /\ IsSequence(cmd.v.to)
  BY <1>1 DEF PInv, CopyOK
<1>5. \A h : ~Owned(h)
  BY <1>1, CpOwned DEF At
<1>6. CASE Answers("error opening") /\ UNCHANGED <<tree, open>>
  <2>1. DOMAIN cmd' = DOMAIN cmd /\ cmd'.op = cmd.op /\ cmd'.line = cmd.line /\ cmd'.at = "done"
    BY <1>6, AnswersIs DEF PInv
  <2>2. CopyOK' /\ CleanOK'
    BY <1>1, <2>1 DEF CopyOK, CleanOK, At, Copying
  <2>3. QED BY <1>1, <1>3, <1>5, <1>6, <2>1, <2>2, FilePlain DEF PInv, TypeOK
<1>7. CASE /\ IsFile(tree, cmd.v.from) /\ CanCreate(tree, cmd.v.to)
           /\ tree' = Created(tree, cmd.v.to)
           /\ open' = open \cup {In, Out}
           /\ Goes("copy", [from |-> cmd.v.from, to |-> cmd.v.to, rest |-> tree[cmd.v.from].data, out |-> << >>, error |-> FALSE])
  <2> DEFINE v == [from |-> cmd.v.from, to |-> cmd.v.to, rest |-> tree[cmd.v.from].data, out |-> << >>, error |-> FALSE]
  <2>1. DOMAIN cmd' = DOMAIN cmd /\ cmd'.op = cmd.op /\ cmd'.line = cmd.line /\ cmd'.at = "copy" /\ cmd'.v = v
    BY <1>7, GoesIs DEF PInv
  <2>2. DOMAIN v = {"from", "to", "rest", "out", "error"} /\ v.from = cmd.v.from /\ v.to = cmd.v.to
        /\ v.rest = tree[cmd.v.from].data /\ v.out = << >>
    OBVIOUS
  <2> HIDE DEF v
  <2>3. IsContent(v.rest) /\ IsContent(v.out)
    BY <1>7, <2>2, NoContent DEF PInv, TypeOK, WellFormed, IsNode, IsFile, Exists
  <2>4. CopyOK' /\ CleanOK'
    BY <1>1, <1>4, <2>1, <2>2, <2>3 DEF CopyOK, CleanOK, At, Copying
  <2>5. WellFormed(tree')
    BY <1>4, <1>7, CreatedOK DEF PInv, TypeOK
  <2>6. \A h \in open' : h[1] \in TarHandles \/ Owned(h)'
    <3>1. In' = In /\ Out' = Out
      BY <2>1, <2>2 DEF In, Out
    <3>2. \A h \in open : h[1] \in TarHandles
      BY <1>1, <1>5 DEF PInv, HandlesOK
    <3>3. Owned(In)' /\ Owned(Out)'
      BY <1>1, <2>1, <3>1 DEF Owned, Copying
    <3>4. QED BY <1>7, <3>1, <3>2, <3>3
  <2>7. IsFiniteSet(open')
    BY <1>7, FiniteSteps DEF PInv, TypeOK
  <2>8. QED BY <1>1, <1>3, <2>1, <2>4, <2>5, <2>6, <2>7, FileCommand DEF PInv, TypeOK
<1>8. QED BY <1>2, <1>6, <1>7

LEMMA CpCopyStep ==
  ASSUME PInv, CpBlock \/ CpEof
  PROVE  PInv'
<1>1. At("cp", "copy") /\ Within /\ UNCHANGED <<tree, open, slips>> /\ cmd.op = "cp"
  BY DEF CpBlock, CpEof, At
<1>2. /\ IsSequence(cmd.v.from) /\ IsSequence(cmd.v.to) /\ DOMAIN cmd.v = {"from", "to", "rest", "out", "error"}
      /\ IsContent(cmd.v.rest) /\ IsContent(cmd.v.out)
  BY <1>1 DEF PInv, CopyOK, Copying, At
<1>3. faults' \in 0 .. MaxFaults
  BY SuffersIs DEF CpBlock, CpEof, Quietly, PInv, TypeOK
<1>4. \E at, v :
        /\ at \in {"copy", "close"} /\ Goes(at, v)
        /\ DOMAIN v = DOMAIN cmd.v /\ v.from = cmd.v.from /\ v.to = cmd.v.to
        /\ IsContent(v.rest) /\ IsContent(v.out)
  <2>1. CASE CpEof
    BY <2>1, <1>2 DEF CpEof
  <2>2. ASSUME cmd.v.rest # << >>, NEW v, v = [cmd.v EXCEPT !.rest = Tail(@), !.out = Append(@, Head(cmd.v.rest))]
        PROVE  /\ DOMAIN v = DOMAIN cmd.v /\ v.from = cmd.v.from /\ v.to = cmd.v.to
               /\ IsContent(v.rest) /\ IsContent(v.out)
    <3>1. /\ DOMAIN v = DOMAIN cmd.v /\ v.from = cmd.v.from /\ v.to = cmd.v.to
          /\ v.rest = Tail(cmd.v.rest) /\ v.out = Append(cmd.v.out, Head(cmd.v.rest))
      BY <2>2, <1>2
    <3>2. IsContent(Tail(cmd.v.rest))
      BY <2>2, <1>2, TailContent
    <3>3. IsContent(Append(cmd.v.out, Head(cmd.v.rest)))
      BY <2>2, <1>2, HeadContent, AppendContent
    <3>4. QED BY <3>1, <3>2, <3>3
  <2>3. CASE CpBlock
    <3>1. PICK r \in Outcomes, call \in {"read", "write"} :
            IF r = "ok"
            THEN Goes("copy", [cmd.v EXCEPT !.rest = Tail(@), !.out = Append(@, Head(cmd.v.rest))])
            ELSE Goes("close", [cmd.v EXCEPT !.error = Says(call)])
      BY <2>3 DEF CpBlock
    <3>2. cmd.v.rest # << >>
      BY <2>3 DEF CpBlock
    <3>3. CASE r = "ok"
      BY <3>1, <3>2, <3>3, <2>2
    <3>4. CASE r # "ok"
      <4> DEFINE v == [cmd.v EXCEPT !.error = Says(call)]
      <4>1. DOMAIN v = DOMAIN cmd.v /\ v.from = cmd.v.from /\ v.to = cmd.v.to /\ v.rest = cmd.v.rest /\ v.out = cmd.v.out
        BY <1>2
      <4>2. Goes("close", v)
        BY <3>1, <3>4
      <4> HIDE DEF v
      <4>3. QED BY <1>2, <4>1, <4>2
    <3>5. QED BY <3>3, <3>4
  <2>4. QED BY <2>1, <2>3
<1>5. PICK at, v :
        /\ at \in {"copy", "close"} /\ Goes(at, v)
        /\ DOMAIN v = DOMAIN cmd.v /\ v.from = cmd.v.from /\ v.to = cmd.v.to
        /\ IsContent(v.rest) /\ IsContent(v.out)
  BY <1>4
<1>6. DOMAIN cmd' = DOMAIN cmd /\ cmd'.op = cmd.op /\ cmd'.line = cmd.line /\ cmd'.at = at /\ cmd'.v = v
  BY <1>5, GoesIs DEF PInv
<1>7. CopyOK' /\ CleanOK'
  BY <1>1, <1>2, <1>5, <1>6 DEF CopyOK, CleanOK, At, Copying
<1>8. \A h \in open' : h[1] \in TarHandles \/ Owned(h)'
  <2>1. In' = In /\ Out' = Out
    BY <1>5, <1>6 DEF In, Out
  <2>2. \A h \in open : h[1] \in TarHandles \/ h = In \/ h = Out
    BY <1>1, CpOwned DEF PInv, HandlesOK
  <2>3. Owned(In)' /\ Owned(Out)'
    BY <1>1, <1>5, <1>6, <2>1 DEF Owned, Copying
  <2>4. QED BY <1>1, <2>1, <2>2, <2>3
<1>9. QED BY <1>1, <1>3, <1>5, <1>6, <1>7, <1>8, FileCommand DEF PInv, TypeOK

LEMMA CpCloseStep ==
  ASSUME PInv, CpClose
  PROVE  PInv'
<1>1. At("cp", "close") /\ Within /\ UNCHANGED slips /\ cmd.op = "cp" /\ open' = open \ {In, Out}
  BY DEF CpClose, At
<1>2. PICK r \in Outcomes, call \in {"close", "getattr", "setattr"}, t \in {tree, Stored(tree, cmd.v.to, cmd.v.out)} :
        Suffers(r, call) /\ (tree' = Marked(t, cmd.v.to) \/ tree' = t)
  BY DEF CpClose
<1>3. faults' \in 0 .. MaxFaults
  BY <1>2, SuffersIs DEF PInv
<1>4. WellFormed(tree')
  <2>1. IsContent(cmd.v.out) /\ WellFormed(tree)
    BY <1>1 DEF PInv, CopyOK, Copying, At, TypeOK
  <2>2. WellFormed(t)
    BY <2>1, StoredOK
  <2>3. QED BY <1>2, <2>2, MarkedOK
<1>5. \E said : Answers(said)
  BY DEF CpClose
<1>6. DOMAIN cmd' = DOMAIN cmd /\ cmd'.op = cmd.op /\ cmd'.line = cmd.line /\ cmd'.at = "done"
  BY <1>5, AnswersIs DEF PInv
<1>7. CopyOK' /\ CleanOK'
  BY <1>1, <1>6 DEF CopyOK, CleanOK, At, Copying
<1>8. \A h \in open' : h[1] \in TarHandles
  BY <1>1, CpOwned DEF PInv, HandlesOK
<1>9. IsFiniteSet(open')
  BY <1>1, FiniteSteps DEF PInv, TypeOK
<1>10. QED BY <1>1, <1>3, <1>4, <1>6, <1>7, <1>8, <1>9, FileCommand DEF PInv, TypeOK

\* The handles of rm, one for each level of the recursion.
LEMMA RmOwned ==
  ASSUME cmd.op = "rm"
  PROVE  \A h : Owned(h) <=> cmd.at = "clean" /\ \E k \in 1 .. Len(Frames) : h = DirHandle(Frames[k].dir)
BY DEF Owned, Copying, At, InSession

LEMMA RmSingleStep ==
  ASSUME PInv, RmStart \/ RmCount \/ RmRemove
  PROVE  PInv'
<1>1. /\ cmd.op = "rm" /\ cmd.at \in {"start", "count", "remove"} /\ Within /\ UNCHANGED open
      /\ cmd.at = "count" => DOMAIN cmd.v = {"stack"} /\ Frames = << >>
  BY DEF RmStart, RmCount, RmRemove, At, PInv, CleanOK
<1>2. faults' \in 0 .. MaxFaults
  BY SuffersIs DEF RmStart, RmCount, RmRemove, PInv
<1>3. WellFormed(tree')
  <2>1. cmd.op \in Commands
    BY <1>1 DEF Commands
  <2>2. 1 \in 1 .. Len(Line.args)
    BY <1>1, <2>1, Arguments DEF PInv
  <2>3. IsSequence(PathOf(1))
    BY <1>1, <2>1, <2>2, ArgumentIs DEF PInv
  <2>4. tree' = tree \/ (CanRemove(tree, PathOf(1)) /\ tree' = Without(tree, {PathOf(1)}))
    BY DEF RmStart, RmCount, RmRemove
  <2>5. QED BY <2>3, <2>4, WithoutOK DEF PInv, TypeOK, CanRemove
<1>4. IsFiniteSet(slips')
  <2>1. slips' = slips \/ slips' = slips \cup {<<"unopened", cmd.op>>}
    BY DEF RmStart, RmCount, RmRemove, Slip
  <2>2. IsFiniteSet(slips)
    BY DEF PInv, TypeOK
  <2>3. IsFiniteSet(slips \cup {<<"unopened", cmd.op>>})
    BY <2>2, FiniteSteps
  <2>4. QED BY <2>1, <2>2, <2>3
<1>5. \/ \E said : Answers(said)
      \/ \E at \in {"count", "remove"} : Goes(at, [stack |-> << >>])
      \/ \E at \in {"remove", "clean", "spin"} : cmd.at = "count" /\ Goes(at, cmd.v)
  BY DEF RmStart, RmCount, RmRemove, At
<1>6. /\ DOMAIN cmd' = DOMAIN cmd /\ cmd'.op = cmd.op /\ cmd'.line = cmd.line
      /\ \/ cmd'.at \in {"done", "remove", "spin"}
         \/ cmd'.at \in {"count", "clean"} /\ DOMAIN cmd'.v = {"stack"} /\ cmd'.v.stack = << >>
  <2>1. CASE \E said : Answers(said)
    BY <2>1, AnswersIs DEF PInv
  <2>2. ASSUME NEW at \in {"count", "remove", "clean", "spin"}, NEW v, DOMAIN v = {"stack"}, v.stack = << >>, Goes(at, v)
        PROVE  /\ DOMAIN cmd' = DOMAIN cmd /\ cmd'.op = cmd.op /\ cmd'.line = cmd.line
               /\ \/ cmd'.at \in {"remove", "spin"}
                  \/ cmd'.at \in {"count", "clean"} /\ DOMAIN cmd'.v = {"stack"} /\ cmd'.v.stack = << >>
    BY <2>2, GoesIs DEF PInv
  <2>3. DOMAIN [stack |-> << >>] = {"stack"} /\ [stack |-> << >>].stack = << >>
    OBVIOUS
  <2>4. CASE \E at \in {"count", "remove"} : Goes(at, [stack |-> << >>])
    BY <2>2, <2>3, <2>4
  <2>5. CASE \E at \in {"remove", "clean", "spin"} : cmd.at = "count" /\ Goes(at, cmd.v)
    <3>1. DOMAIN cmd.v = {"stack"} /\ cmd.v.stack = << >>
      BY <1>1, <2>5 DEF Frames
    <3>2. PICK at \in {"remove", "clean", "spin"} : Goes(at, cmd.v)
      BY <2>5
    <3>3. QED BY <3>1, <3>2, <2>2
  <2>6. QED BY <1>5, <2>1, <2>4, <2>5
<1>7. CopyOK' /\ CleanOK'
  <2>1. CopyOK'
    BY <1>1, <1>6 DEF CopyOK, At, Copying
  <2>2. Len(<< >>) = 0 /\ IsSequence(<< >>)
    BY NoContent
  <2>3. cmd'.at \in {"count", "clean"} => DOMAIN cmd'.v = {"stack"} /\ Frames' = << >>
    BY <1>6 DEF Frames
  <2>4. CleanOK'
    BY <2>2, <2>3 DEF CleanOK, StackOK, At
  <2>5. QED BY <2>1, <2>4
<1>8. \A h : ~Owned(h)
  BY <1>1, RmOwned
<1>9. cmd'.at # "start"
  BY <1>6
<1>10. QED BY <1>1, <1>2, <1>3, <1>4, <1>6, <1>7, <1>8, <1>9, FilePlain

\* All the levels give up.
LEMMA GivesUp ==
  ASSUME PInv, At("rm", "clean"), Within, GiveUp, WellFormed(tree'), UNCHANGED slips, faults' \in 0 .. MaxFaults
  PROVE  PInv'
<1>1. cmd.op = "rm" /\ cmd.at = "clean" /\ IsSequence(Frames)
  BY DEF At, PInv, CleanOK, StackOK
<1>2. DOMAIN Frames = 1 .. Len(Frames)
  BY <1>1, SequenceFacts
<1>3. open' = open \ {DirHandle(Frames[k].dir) : k \in DOMAIN Frames} /\ Answers("gave up")
  BY DEF GiveUp
<1>4. DOMAIN cmd' = DOMAIN cmd /\ cmd'.op = cmd.op /\ cmd'.line = cmd.line /\ cmd'.at = "done"
  BY <1>3, AnswersIs DEF PInv
<1>5. \A h \in open' : h[1] \in TarHandles
  <2>1. \A h \in open : h[1] \in TarHandles \/ \E k \in 1 .. Len(Frames) : h = DirHandle(Frames[k].dir)
    BY <1>1, RmOwned DEF PInv, HandlesOK
  <2>2. QED BY <1>2, <1>3, <2>1
<1>6. CopyOK' /\ CleanOK'
  BY <1>1, <1>4 DEF CopyOK, CleanOK, At, Copying
<1>7. IsFiniteSet(open')
  BY <1>3, FiniteSteps DEF PInv, TypeOK
<1>8. QED BY <1>1, <1>4, <1>5, <1>6, <1>7, FileCommand DEF PInv, TypeOK

\* The stack of directories changes.
LEMMA CleanGoes ==
  ASSUME PInv, At("rm", "clean"), Within, WellFormed(tree'), IsFiniteSet(open'), UNCHANGED slips, faults' \in 0 .. MaxFaults,
         NEW v, Goes("clean", v), DOMAIN v = {"stack"}, StackOK(v.stack, tree'),
         \A h \in open' : h[1] \in TarHandles \/ \E k \in 1 .. Len(v.stack) : h = DirHandle(v.stack[k].dir)
  PROVE  PInv'
<1>1. cmd.op = "rm" /\ cmd.at = "clean"
  BY DEF At
<1>2. DOMAIN cmd' = DOMAIN cmd /\ cmd'.op = cmd.op /\ cmd'.line = cmd.line /\ cmd'.at = "clean" /\ cmd'.v = v
  BY GoesIs DEF PInv
<1>3. Frames' = v.stack
  BY <1>2 DEF Frames
<1>4. CopyOK' /\ CleanOK'
  BY <1>1, <1>2, <1>3 DEF CopyOK, CleanOK, At, Copying
<1>5. \A h \in open' : h[1] \in TarHandles \/ Owned(h)'
  BY <1>1, <1>2, <1>3 DEF Owned, At, DirHandle
<1>6. QED BY <1>1, <1>2, <1>4, <1>5, FileCommand DEF PInv, TypeOK

\* The top of the stack is replaced by a frame of the same directory.
LEMMA TopReplaced ==
  ASSUME NEW s, NEW t, NEW u, StackOK(s, t), s # << >>, NEW f, IsFrame(f, u), f.dir = s[Len(s)].dir
  PROVE  /\ StackOK(Append(Front(s), f), u)
         /\ Append(Front(s), f) # << >>
         /\ \A k \in 1 .. Len(s) : Append(Front(s), f)[k].dir = s[k].dir
         /\ Len(Append(Front(s), f)) = Len(s)
<1> DEFINE n == Append(Front(s), f)
<1>1. IsSequence(s)
  BY DEF StackOK
<1>2. IsSequence(n)
  BY <1>1, TopFacts
<1>3. Len(n) = Len(s) /\ Len(s) \in Nat /\ Len(s) >= 1
  BY <1>1, TopFacts
<1>4. \A k \in 1 .. Len(s) : n[k] = IF k = Len(s) THEN f ELSE s[k]
  BY <1>1, TopFacts
<1> HIDE DEF n
<1>5. ASSUME NEW k \in 1 .. Len(n)
      PROVE  IsFrame(n[k], u) /\ (k # Len(n) => n[k].pass = "dirs")
  <2>1. CASE k = Len(s)
    BY <1>3, <1>4, <2>1
  <2>2. CASE k # Len(s)
    <3>1. n[k] = s[k] /\ IsFrame(s[k], t) /\ s[k].pass = "dirs"
      BY <1>3, <1>4, <2>2 DEF StackOK
    <3>2. QED BY <3>1 DEF IsFrame
  <2>3. QED BY <2>1, <2>2
<1>6. StackOK(n, u)
  BY <1>2, <1>5 DEF StackOK
<1>7. n # << >>
  BY <1>3, NoContent
<1>8. QED BY <1>3, <1>4, <1>6, <1>7 DEF n

\* A directory to be read is pushed.
LEMMA Pushed ==
  ASSUME NEW s, NEW t, StackOK(s, t), s # << >> => s[Len(s)].pass = "dirs", NEW f, IsFrame(f, t)
  PROVE  /\ StackOK(Append(s, f), t)
         /\ \A k \in 1 .. Len(s) : k \in 1 .. Len(Append(s, f)) /\ Append(s, f)[k] = s[k]
         /\ Len(s) + 1 \in 1 .. Len(Append(s, f)) /\ Append(s, f)[Len(s) + 1] = f
<1> DEFINE n == Append(s, f)
<1>1. IsSequence(s) /\ Len(s) \in Nat
  BY SequenceFacts DEF StackOK
<1>2. IsSequence(n)
  BY <1>1, AppendFacts
<1>3. Len(n) = Len(s) + 1
  BY <1>1, AppendFacts
<1>4. \A k \in 1 .. Len(s) : n[k] = s[k]
  BY <1>1, AppendFacts
<1>5. n[Len(s) + 1] = f
  BY <1>1, AppendFacts
<1> HIDE DEF n
<1>6. ASSUME NEW k \in 1 .. Len(n)
      PROVE  IsFrame(n[k], t) /\ (k # Len(n) => n[k].pass = "dirs")
  <2>1. CASE k = Len(s) + 1
    BY <1>1, <1>3, <1>5, <2>1
  <2>2. CASE k # Len(s) + 1
    <3>1. k \in 1 .. Len(s)
      BY <1>1, <1>3, <2>2
    <3>2. s # << >>
      BY <3>1, NoContent
    <3>3. QED BY <1>4, <3>1, <3>2 DEF StackOK
  <2>3. QED BY <2>1, <2>2
<1>7. QED BY <1>1, <1>2, <1>3, <1>4, <1>5, <1>6 DEF n, StackOK

\* The stack without its top, whatever the tree has become.
LEMMA Popped ==
  ASSUME NEW s, NEW t, NEW u, StackOK(s, t), s # << >>
  PROVE  /\ StackOK(Front(s), u)
         /\ \A k \in 1 .. Len(s) : k # Len(s) => k \in 1 .. Len(Front(s)) /\ Front(s)[k] = s[k]
<1> DEFINE n == Front(s)
<1>1. IsSequence(s) /\ Len(s) \in Nat
  BY SequenceFacts DEF StackOK
<1>2. IsSequence(n)
  BY <1>1, FrontFacts
<1>3. Len(n) = Len(s) - 1
  BY <1>1, FrontFacts
<1>4. \A k \in 1 .. Len(s) - 1 : n[k] = s[k]
  BY <1>1, FrontFacts
<1> HIDE DEF n
<1>5. ASSUME NEW k \in 1 .. Len(n)
      PROVE  IsFrame(n[k], u) /\ n[k].pass = "dirs"
  <2>1. n[k] = s[k] /\ IsFrame(s[k], t) /\ s[k].pass = "dirs"
    BY <1>1, <1>3, <1>4 DEF StackOK
  <2>2. QED BY <2>1 DEF IsFrame
<1>6. \A k \in 1 .. Len(s) : k # Len(s) => k \in 1 .. Len(n) /\ n[k] = s[k]
  BY <1>1, <1>3, <1>4
<1>7. QED BY <1>2, <1>5, <1>6 DEF n, StackOK

\* What clean_dir has at each of its steps.
LEMMA CleanHas ==
  ASSUME PInv, At("rm", "clean")
  PROVE  /\ cmd.op = "rm" /\ cmd.at = "clean" /\ DOMAIN cmd.v = {"stack"} /\ StackOK(Frames, tree) /\ WellFormed(tree)
         /\ IsSequence(PathOf(1))
         /\ Frames # << >> => Len(Frames) \in 1 .. Len(Frames) /\ IsFrame(Top, tree)
         /\ \A h \in open : h[1] \in TarHandles \/ \E k \in 1 .. Len(Frames) : h = DirHandle(Frames[k].dir)
<1>1. cmd.op = "rm" /\ cmd.at = "clean" /\ DOMAIN cmd.v = {"stack"} /\ StackOK(Frames, tree) /\ WellFormed(tree)
  BY DEF At, PInv, CleanOK, TypeOK
<1>2. cmd.op \in Commands
  BY <1>1 DEF Commands
<1>3. 1 \in 1 .. Len(Line.args)
  BY <1>1, <1>2, Arguments DEF PInv
<1>4. IsSequence(PathOf(1))
  BY <1>1, <1>2, <1>3, ArgumentIs DEF PInv
<1>5. \A h \in open : h[1] \in TarHandles \/ \E k \in 1 .. Len(Frames) : h = DirHandle(Frames[k].dir)
  <2>1. cmd.op # "off" => \A h \in open : h[1] \in TarHandles \/ Owned(h)
    BY DEF PInv, HandlesOK
  <2>2. QED BY <1>1, <2>1, RmOwned
<1>6. Frames # << >> => Len(Frames) \in 1 .. Len(Frames) /\ IsFrame(Top, tree)
  <2>1. IsSequence(Frames) /\ Len(Frames) \in Nat
    BY <1>1, SequenceFacts DEF StackOK
  <2>2. ASSUME Frames # << >>
        PROVE  Len(Frames) \in 1 .. Len(Frames)
    BY <2>1, <2>2, FrontFacts
  <2>3. QED BY <1>1, <2>2 DEF StackOK, Top
<1>7. QED BY <1>1, <1>4, <1>5, <1>6

\* An entry is taken from those unread.
Took(f, p) == [f EXCEPT !.unread = @ \ {p}]

\* A directory of which one entry was taken.
LEMMA Taken ==
  ASSUME NEW f, NEW t, NEW u, IsFrame(f, t), NEW p, \A q \in f.unread \ {p} : IsFile(t, q) => IsFile(u, q)
  PROVE  IsFrame(Took(f, p), u) /\ Took(f, p).dir = f.dir /\ Took(f, p).pass = f.pass
<1> DEFINE g == Took(f, p)
<1>1. f = [dir |-> f.dir, pass |-> f.pass, unread |-> f.unread]
  BY DEF IsFrame
<1>2. DOMAIN f = {"dir", "pass", "unread"}
  BY <1>1
<1>3. g = [dir |-> f.dir, pass |-> f.pass, unread |-> f.unread \ {p}]
  BY <1>1, <1>2 DEF Took
<1> HIDE DEF g
<1>4. g.dir = f.dir /\ g.pass = f.pass /\ g.unread = f.unread \ {p} /\ g = [dir |-> g.dir, pass |-> g.pass, unread |-> g.unread]
  BY <1>3
<1>5. IsFrame(g, u)
  BY <1>4 DEF IsFrame
<1>6. QED BY <1>4, <1>5 DEF g

\* A directory read again, for files.
LEMMA Rewound ==
  ASSUME NEW f, NEW t, IsFrame(f, t), NEW files, \A q \in files : IsSequence(q) /\ IsFile(t, q),
         NEW g, g = [f EXCEPT !.pass = "files", !.unread = files]
  PROVE  IsFrame(g, t) /\ g.dir = f.dir
<1>1. f = [dir |-> f.dir, pass |-> f.pass, unread |-> f.unread]
  BY DEF IsFrame
<1>2. DOMAIN f = {"dir", "pass", "unread"}
  BY <1>1
<1>3. g = [dir |-> f.dir, pass |-> "files", unread |-> files]
  BY <1>1, <1>2
<1>4. g.dir = f.dir /\ g.pass = "files" /\ g.unread = files /\ g = [dir |-> g.dir, pass |-> g.pass, unread |-> g.unread]
  BY <1>3
<1>5. QED BY <1>4 DEF IsFrame

LEMMA CleanOpenStep ==
  ASSUME PInv, CleanOpen
  PROVE  PInv'
<1>1. At("rm", "clean") /\ Within /\ UNCHANGED <<tree, slips>> /\ (Frames = << >> \/ (Top.pass = "dirs" /\ Top.unread # {}))
  BY DEF CleanOpen
<1> DEFINE Above(p) == IF Frames = << >> THEN << >> ELSE Append(Front(Frames), [Top EXCEPT !.unread = @ \ {p}])
           Frame(p) == [dir |-> p, pass |-> "dirs", unread |-> Of(Children(tree, p), TRUE)]
<1>2. PICK p \in IF Frames = << >> THEN {PathOf(1)} ELSE Top.unread, r \in Outcomes :
        /\ Suffers(r, "open")
        /\ \/ GiveUp
           \/ open' = open \cup {DirHandle(p)} /\ Goes("clean", [stack |-> Append(Above(p), Frame(p))])
  BY DEF CleanOpen
<1>3. faults' \in 0 .. MaxFaults
  BY <1>2, SuffersIs DEF PInv
<1>4. CASE GiveUp
  BY <1>1, <1>3, <1>4, GivesUp DEF PInv, TypeOK
<1>5. CASE open' = open \cup {DirHandle(p)} /\ Goes("clean", [stack |-> Append(Above(p), Frame(p))])
  <2>1. StackOK(Frames, tree) /\ WellFormed(tree) /\ (Frames # << >> => IsFrame(Top, tree))
    BY <1>1, CleanHas
  <2>2. IsSequence(p)
    BY <1>1, <1>2, <2>1, CleanHas DEF IsFrame
  <2>3. IsFrame(Frame(p), tree) /\ Frame(p).dir = p
    <3>1. \A q \in Of(Children(tree, p), TRUE) : IsSequence(q)
      BY <2>1 DEF Of, Children, WellFormed
    <3>2. QED BY <2>2, <3>1 DEF IsFrame
  <2>4. /\ StackOK(Above(p), tree) /\ (Above(p) # << >> => Above(p)[Len(Above(p))].pass = "dirs")
        /\ \A k \in 1 .. Len(Frames) : Above(p)[k].dir = Frames[k].dir
        /\ Len(Above(p)) = Len(Frames)
    <3>1. CASE Frames = << >>
      <4>1. Above(p) = << >> /\ Len(<< >>) = 0
        BY <3>1
      <4>2. StackOK(<< >>, tree)
        BY <4>1, NoContent DEF StackOK
      <4>3. QED BY <3>1, <4>1, <4>2
    <3>2. CASE Frames # << >>
      <4> DEFINE f == [Top EXCEPT !.unread = @ \ {p}]
      <4>1. IsFrame(Top, tree)
        BY <2>1, <3>2
      <4>2. f = Took(Top, p) /\ Above(p) = Append(Front(Frames), f)
        BY <3>2 DEF Took
      <4> HIDE DEF f, Above
      <4>3. IsFrame(f, tree) /\ f.dir = Top.dir /\ f.pass = "dirs"
        BY <1>1, <3>2, <4>1, <4>2, Taken
      <4>4. IsFrame(f, tree) /\ f.dir = Frames[Len(Frames)].dir
        BY <4>3 DEF Top
      <4>5. StackOK(Above(p), tree) /\ Len(Above(p)) = Len(Frames) /\ \A k \in 1 .. Len(Frames) : Above(p)[k].dir = Frames[k].dir
        BY ZenonT(60), <2>1, <3>2, <4>2, <4>4, TopReplaced
      <4>6. Above(p)[Len(Frames)] = f
        <5>1. IsSequence(Frames) /\ Len(Frames) \in 1 .. Len(Frames)
          BY <2>1, <3>2, <1>1, CleanHas DEF StackOK
        <5>2. QED BY <3>2, <4>2, <5>1, TopFacts
      <4>7. QED BY <4>3, <4>5, <4>6
    <3>3. QED BY <3>1, <3>2
  <2> HIDE DEF Above, Frame
  <2> DEFINE s == Append(Above(p), Frame(p))
             v == [stack |-> s]
  <2>5. StackOK(s, tree)
    BY <2>3, <2>4, Pushed
  <2>6. \A k \in 1 .. Len(Frames) : k \in 1 .. Len(s) /\ s[k].dir = Frames[k].dir
    BY <2>3, <2>4, Pushed
  <2>7. Len(Frames) + 1 \in 1 .. Len(s) /\ s[Len(Frames) + 1].dir = p
    BY <2>3, <2>4, Pushed
  <2>8. v.stack = s /\ DOMAIN v = {"stack"} /\ Goes("clean", v)
    BY <1>5
  <2> HIDE DEF s, v
  <2>9. \A h \in open' : h[1] \in TarHandles \/ \E k \in 1 .. Len(s) : h = DirHandle(s[k].dir)
    <3>1. \A h \in open : h[1] \in TarHandles \/ \E k \in 1 .. Len(s) : h = DirHandle(s[k].dir)
      BY <1>1, <2>6, CleanHas
    <3>2. QED BY <1>5, <2>7, <3>1
  <2>10. IsFiniteSet(open')
    BY <1>5, FiniteSteps DEF PInv, TypeOK
  <2>11. QED BY <1>1, <1>3, <2>1, <2>5, <2>8, <2>9, <2>10, CleanGoes
<1>6. QED BY <1>2, <1>4, <1>5

LEMMA CleanRewindStep ==
  ASSUME PInv, CleanRewind
  PROVE  PInv'
<1>1. At("rm", "clean") /\ Within /\ UNCHANGED <<tree, open, slips>> /\ Frames # << >>
  BY DEF CleanRewind
<1>2. /\ cmd.op = "rm" /\ DOMAIN cmd.v = {"stack"} /\ StackOK(Frames, tree) /\ WellFormed(tree) /\ IsFrame(Top, tree)
      /\ \A h \in open : h[1] \in TarHandles \/ \E k \in 1 .. Len(Frames) : h = DirHandle(Frames[k].dir)
  BY <1>1, CleanHas
<1> DEFINE f == [Top EXCEPT !.pass = "files", !.unread = Files]
           s == Append(Front(Frames), f)
           v == WithTop(f)
<1>3. faults' \in 0 .. MaxFaults /\ Goes("clean", v)
  BY SuffersIs DEF CleanRewind, PInv
<1>4. IsFrame(f, tree) /\ f.dir = Frames[Len(Frames)].dir
  <2>1. \A q \in Files : IsSequence(q) /\ IsFile(tree, q)
    BY <1>2 DEF Files, Of, Children, WellFormed, IsFile, Exists
  <2>2. f = [Top EXCEPT !.pass = "files", !.unread = Files]
    OBVIOUS
  <2> HIDE DEF f
  <2>3. IsFrame(f, tree) /\ f.dir = Top.dir
    BY <1>2, <2>1, <2>2, Rewound
  <2>4. QED BY <2>3 DEF Top
<1>5. v = [cmd.v EXCEPT !.stack = s]
  BY DEF WithTop
<1> HIDE DEF f
<1>6. StackOK(Frames, tree)
  BY <1>2
<1>7. StackOK(s, tree) /\ Len(s) = Len(Frames) /\ \A k \in 1 .. Len(Frames) : s[k].dir = Frames[k].dir
  BY <1>1, <1>4, <1>6, TopReplaced
<1> HIDE DEF s, v
<1>8. DOMAIN v = {"stack"} /\ v.stack = s
  BY <1>2, <1>5
<1>9. \A h \in open' : h[1] \in TarHandles \/ \E k \in 1 .. Len(s) : h = DirHandle(s[k].dir)
  BY <1>1, <1>2, <1>7
<1>10. QED BY <1>1, <1>2, <1>3, <1>7, <1>8, <1>9, CleanGoes DEF PInv, TypeOK

LEMMA CleanFileStep ==
  ASSUME PInv, CleanFile
  PROVE  PInv'
<1>1. At("rm", "clean") /\ Within /\ UNCHANGED slips /\ Frames # << >> /\ Top.pass = "files"
  BY DEF CleanFile
<1>2. /\ cmd.op = "rm" /\ DOMAIN cmd.v = {"stack"} /\ StackOK(Frames, tree) /\ WellFormed(tree) /\ IsFrame(Top, tree)
      /\ \A h \in open : h[1] \in TarHandles \/ \E k \in 1 .. Len(Frames) : h = DirHandle(Frames[k].dir)
  BY <1>1, CleanHas
<1>3. PICK p \in Top.unread, r \in Outcomes :
        /\ Suffers(r, "remove")
        /\ \/ GiveUp /\ UNCHANGED tree
           \/ /\ tree' = Without(tree, {p}) /\ UNCHANGED open
              /\ Goes("clean", WithTop([Top EXCEPT !.unread = @ \ {p}]))
  BY DEF CleanFile
<1>4. faults' \in 0 .. MaxFaults
  BY <1>3, SuffersIs DEF PInv
<1>5. CASE GiveUp /\ UNCHANGED tree
  BY <1>1, <1>2, <1>4, <1>5, GivesUp
<1>6. CASE /\ tree' = Without(tree, {p}) /\ UNCHANGED open
           /\ Goes("clean", WithTop([Top EXCEPT !.unread = @ \ {p}]))
  <2> DEFINE f == [Top EXCEPT !.unread = @ \ {p}]
             s == Append(Front(Frames), f)
             v == WithTop(f)
  <2>1. IsSequence(p) /\ IsFile(tree, p)
    BY <1>1, <1>2 DEF IsFrame
  <2>2. WellFormed(tree')
    <3>1. p # Root
      BY <1>2, <2>1 DEF WellFormed, IsDir, IsFile
    <3>2. QED BY <1>2, <1>6, <2>1, <3>1, WithoutOK
  <2>3. IsFrame(f, tree') /\ f.dir = Frames[Len(Frames)].dir
    <3>1. \A q \in Top.unread \ {p} : IsFile(tree, q) => IsFile(tree', q)
      BY <1>6 DEF Without, IsFile, Exists
    <3>2. IsFrame(Top, tree)
      BY <1>2
    <3>3. f = Took(Top, p)
      BY DEF Took
    <3> HIDE DEF f
    <3>4. IsFrame(f, tree') /\ f.dir = Top.dir
      BY <3>1, <3>2, <3>3, Taken
    <3>5. QED BY <3>4 DEF Top
  <2>4. v = [cmd.v EXCEPT !.stack = s] /\ Goes("clean", v)
    BY <1>6 DEF WithTop
  <2> HIDE DEF f
  <2>5. StackOK(s, tree') /\ Len(s) = Len(Frames) /\ \A k \in 1 .. Len(Frames) : s[k].dir = Frames[k].dir
    BY ZenonT(60), <1>1, <1>2, <2>3, TopReplaced
  <2> HIDE DEF s, v
  <2>6. DOMAIN v = {"stack"} /\ v.stack = s
    BY <1>2, <2>4
  <2>7. \A h \in open' : h[1] \in TarHandles \/ \E k \in 1 .. Len(s) : h = DirHandle(s[k].dir)
    BY <1>2, <1>6, <2>5
  <2>8. IsFiniteSet(open')
    BY <1>6 DEF PInv, TypeOK
  <2>9. QED BY ZenonT(60), <1>1, <1>4, <2>2, <2>4, <2>5, <2>6, <2>7, <2>8, CleanGoes
<1>7. QED BY <1>3, <1>5, <1>6

LEMMA CleanEndStep ==
  ASSUME PInv, CleanEnd
  PROVE  PInv'
<1>1. At("rm", "clean") /\ Within /\ UNCHANGED slips /\ Frames # << >>
  BY DEF CleanEnd
<1>2. /\ cmd.op = "rm" /\ StackOK(Frames, tree) /\ WellFormed(tree) /\ IsFrame(Top, tree) /\ Len(Frames) \in 1 .. Len(Frames)
      /\ \A h \in open : h[1] \in TarHandles \/ \E k \in 1 .. Len(Frames) : h = DirHandle(Frames[k].dir)
  BY <1>1, CleanHas
<1>3. PICK r \in Outcomes, call \in {"read", "remove"} :
        /\ Suffers(r, call)
        /\ tree' = tree \/ (CanRemove(tree, Top.dir) /\ tree' = Without(tree, {Top.dir}))
        /\ \/ GiveUp
           \/ /\ open' = open \ {DirHandle(Top.dir)}
              /\ \/ Len(Frames) = 1 /\ Answers("removed")
                 \/ Goes("clean", [stack |-> Front(Frames)])
  BY DEF CleanEnd
<1>4. faults' \in 0 .. MaxFaults
  BY <1>3, SuffersIs DEF PInv
<1>5. WellFormed(tree')
  <2>1. IsSequence(Top.dir)
    BY <1>2 DEF IsFrame
  <2>2. QED BY <1>2, <1>3, <2>1, WithoutOK DEF CanRemove
<1>6. CASE GiveUp
  BY <1>1, <1>4, <1>5, <1>6, GivesUp
<1>7. ASSUME open' = open \ {DirHandle(Top.dir)}
      PROVE  /\ IsFiniteSet(open')
             /\ \A h \in open' : h[1] \in TarHandles \/ \E k \in 1 .. Len(Frames) : k # Len(Frames) /\ h = DirHandle(Frames[k].dir)
  <2>1. IsFiniteSet(open')
    BY <1>7, FiniteSteps DEF PInv, TypeOK
  <2>2. QED BY <1>2, <1>7, <2>1 DEF Top
<1>8. CASE open' = open \ {DirHandle(Top.dir)} /\ Len(Frames) = 1 /\ Answers("removed")
  <2>1. DOMAIN cmd' = DOMAIN cmd /\ cmd'.op = cmd.op /\ cmd'.line = cmd.line /\ cmd'.at = "done"
    BY <1>8, AnswersIs DEF PInv
  <2>2. CopyOK' /\ CleanOK'
    BY <1>2, <2>1 DEF CopyOK, CleanOK, At, Copying
  <2>3. \A h \in open' : h[1] \in TarHandles
    BY <1>7, <1>8
  <2>4. QED BY <1>1, <1>2, <1>4, <1>5, <1>7, <1>8, <2>1, <2>2, <2>3, FileCommand DEF PInv, TypeOK
<1>9. CASE open' = open \ {DirHandle(Top.dir)} /\ Goes("clean", [stack |-> Front(Frames)])
  <2> DEFINE s == Front(Frames)
             v == [stack |-> s]
  <2>1. StackOK(s, tree') /\ \A k \in 1 .. Len(Frames) : k # Len(Frames) => k \in 1 .. Len(s) /\ s[k] = Frames[k]
    BY <1>1, <1>2, Popped
  <2>2. DOMAIN v = {"stack"} /\ v.stack = s /\ Goes("clean", v)
    BY <1>9
  <2> HIDE DEF s, v
  <2>3. \A h \in open' : h[1] \in TarHandles \/ \E k \in 1 .. Len(s) : h = DirHandle(s[k].dir)
    BY <1>7, <1>9, <2>1
  <2>4. QED BY <1>1, <1>4, <1>5, <1>7, <1>9, <2>1, <2>2, <2>3, CleanGoes DEF PInv, TypeOK
<1>10. QED BY <1>3, <1>6, <1>8, <1>9

LEMMA FileStepOK ==
  ASSUME PInv, FileStep
  PROVE  PInv'
BY CheckStep, MvStep, CpOpenStep, CpCopyStep, CpCloseStep, RmSingleStep, CleanOpenStep, CleanRewindStep, CleanFileStep,
   CleanEndStep DEF FileStep
-----------------------------------------------------------------------------
(* tar. *)

\* A step of tar slips at most once.
TarSlips == slips' = slips \/ \E what : Slip(what)

\* A step of tar leaves handles of tar's alone.
LEMMA TarCommand ==
  ASSUME PInv, Within, cmd.op = "tar", TarSlips, faults' \in 0 .. MaxFaults,
         cmd'.op = cmd.op, cmd'.line = cmd.line, DOMAIN cmd' = DOMAIN cmd, cmd'.at # "start",
         WellFormed(tree'), IsFiniteSet(open'), TarOK', \A h \in open' : h[1] \in TarHandles,
         cmd'.at = "done" /\ cmd'.said \in {"created", "read", "failed"} => TarHandle' \notin open'
  PROVE  PInv'
<1>1. cmd.op \in Commands
  BY DEF Commands
<1>2. IsFiniteSet(slips')
  <2>1. IsFiniteSet(slips)
    BY DEF PInv, TypeOK
  <2>2. ASSUME NEW what, slips' = slips \cup {<<what, cmd.op>>}
        PROVE  IsFiniteSet(slips')
    BY <2>1, <2>2, FiniteSteps
  <2>3. QED BY <2>1, <2>2 DEF TarSlips, Slip
<1>3. (TypeOK /\ CmdOK /\ PwdOK /\ MountOK)'
  BY <1>1, <1>2, WithinCommand
<1>4. CopyOK' /\ CleanOK' /\ CcOK'
  BY DEF CopyOK, CleanOK, CcOK, Copying, InSession, At
<1>5. HandlesOK'
  BY DEF HandlesOK, At
<1>6. QED BY <1>3, <1>4, <1>5 DEF PInv

\* While tar runs the handles that are open are tar's.
LEMMA TarHas ==
  ASSUME PInv, cmd.op = "tar"
  PROVE  /\ \A h \in open : h[1] \in TarHandles
         /\ IsFiniteSet(open) /\ WellFormed(tree)
<1>1. \A h : ~Owned(h)
  BY DEF Owned, Copying, At, InSession
<1>2. QED BY <1>1 DEF PInv, HandlesOK, TypeOK

\* A handle of tar's is opened, or handles are closed.
TarsHandles ==
  \/ open' = open
  \/ \E H : open' = open \ H
  \/ \E name \in TarHandles : \E p : open' = open \cup {Handle(name, p)}
LEMMA TarsHandlesOK ==
  ASSUME PInv, cmd.op = "tar", TarsHandles
  PROVE  IsFiniteSet(open') /\ \A h \in open' : h[1] \in TarHandles
<1>1. CASE open' = open
  BY <1>1, TarHas
<1>2. CASE \E H : open' = open \ H
  BY <1>2, TarHas, FiniteSteps
<1>3. ASSUME NEW name \in TarHandles, NEW p, open' = open \cup {Handle(name, p)}
      PROVE  IsFiniteSet(open') /\ \A h \in open' : h[1] \in TarHandles
  <2>1. Handle(name, p)[1] = name
    BY DEF Handle
  <2>2. QED BY <1>3, <2>1, TarHas, FiniteSteps
<1>4. QED BY <1>1, <1>2, <1>3 DEF TarsHandles

\* A step that stays in tar c keeps the invariant if it keeps the archive's part of it,
LEMMA TarCreates ==
  ASSUME PInv, Within, cmd.op = "tar", Line.flag = "c", TarSlips, faults' \in 0 .. MaxFaults,
         WellFormed(tree'), TarsHandles,
         NEW at \in {"create", "close", "bail"}, NEW v, Goes(at, v), CreateOK(v, tree')
  PROVE  PInv'
<1>1. DOMAIN cmd' = DOMAIN cmd /\ cmd'.op = cmd.op /\ cmd'.line = cmd.line /\ cmd'.at = at /\ cmd'.v = v
  BY GoesIs DEF PInv
<1>2. TarOK'
  <2>1. Cwd' = Cwd
    BY DEF Within, Cwd
  <2>2. (CreateOK(cmd.v, tree))'
    BY <1>1, <2>1 DEF CreateOK
  <2>3. QED BY <1>1, <2>2 DEF TarOK, Creating, Reading, At, Line
<1>3. QED BY <1>1, <1>2, TarsHandlesOK, TarCommand

\* one that stays in tar t or x the entry's part,
LEMMA TarReads ==
  ASSUME PInv, Within, cmd.op = "tar", Line.flag # "c", TarSlips, faults' \in 0 .. MaxFaults,
         WellFormed(tree'), TarsHandles,
         NEW at \in {"header", "dirs", "shut", "bail"}, NEW v, Goes(at, v), ReadOK(v)
  PROVE  PInv'
<1>1. DOMAIN cmd' = DOMAIN cmd /\ cmd'.op = cmd.op /\ cmd'.line = cmd.line /\ cmd'.at = at /\ cmd'.v = v
  BY GoesIs DEF PInv
<1>2. TarOK'
  BY <1>1 DEF TarOK, Creating, Reading, At, Line
<1>3. QED BY <1>1, <1>2, TarsHandlesOK, TarCommand

\* and one that ends tar only has to have closed the archive.
LEMMA TarAnswers ==
  ASSUME PInv, Within, cmd.op = "tar", TarSlips, faults' \in 0 .. MaxFaults,
         WellFormed(tree'), TarsHandles, NEW said, Answers(said),
         said \in {"created", "read", "failed"} => TarHandle \notin open'
  PROVE  PInv'
<1>1. DOMAIN cmd' = DOMAIN cmd /\ cmd'.op = cmd.op /\ cmd'.line = cmd.line /\ cmd'.v = cmd.v
      /\ cmd'.at = "done" /\ cmd'.said = said
  BY AnswersIs DEF PInv
<1>2. TarOK'
  BY <1>1 DEF TarOK, Creating, Reading, At, Line
<1>3. TarHandle' = TarHandle
  BY <1>1 DEF TarHandle
<1>4. QED BY <1>1, <1>2, <1>3, TarsHandlesOK, TarCommand

\* What is read of a file is content.
LEMMA ReadsContent ==
  ASSUME NEW data, IsContent(data), NEW n \in Nat, NEW stale, IsBlock(stale)
  PROVE  IsContent(Reads(data, n, stale)) /\ Len(Reads(data, n, stale)) = n
<1> DEFINE blocks == Reads(data, n, stale)
<1>1. DOMAIN blocks = 1 .. n /\ blocks = [k \in 1 .. n |-> blocks[k]]
  BY DEF Reads
<1>2. Len(data) \in Nat
  BY SequenceFacts DEF IsContent
<1>3. ASSUME NEW k \in 1 .. n
      PROVE  IsBlock(blocks[k])
  <2>1. CASE k <= Len(data)
    BY <1>2, <2>1 DEF Reads, IsContent
  <2>2. CASE ~(k <= Len(data)) /\ data = << >>
    <3>1. blocks[k] = stale
      BY <2>2 DEF Reads
    <3>2. QED BY <3>1
  <2>3. CASE ~(k <= Len(data)) /\ data # << >>
    <3>1. blocks[k] = data[Len(data)]
      BY <2>3 DEF Reads, Last
    <3>2. Len(data) >= 1
      BY <2>3, FrontFacts DEF IsContent
    <3>3. QED BY <1>2, <3>1, <3>2 DEF IsContent
  <2>4. QED BY <2>1, <2>2, <2>3
<1> HIDE DEF blocks
<1>4. IsSequence(blocks) /\ Len(blocks) = n
  BY <1>1, OfFunction
<1>5. QED BY <1>3, <1>4 DEF IsContent, blocks

LEMMA PrefixContent ==
  ASSUME NEW data, IsContent(data), NEW n \in 0 .. Len(data)
  PROVE  IsContent(SubSeq(data, 1, n))
<1>1. IsSequence(data) /\ Len(data) \in Nat
  BY SequenceFacts DEF IsContent
<1>2. IsSequence(SubSeq(data, 1, n)) /\ Len(SubSeq(data, 1, n)) = n /\ \A i \in 1 .. n : SubSeq(data, 1, n)[i] = data[i]
  BY <1>1, PrefixSeq
<1>3. QED BY <1>1, <1>2 DEF IsContent

LEMMA HeaderIs ==
  ASSUME NEW name, IsSequence(name), name # << >>, NEW size \in Nat, NEW exe
  PROVE  IsBlock(Header(name, size, exe))
<1>1. /\ DOMAIN Header(name, size, exe) = {"name", "size", "exe", "slash"}
      /\ Header(name, size, exe).size = size /\ Header(name, size, exe).name = name
  BY DEF Header
<1>2. QED BY <1>1 DEF IsBlock, IsSource

LEMMA OtherBlocks ==
  IsBlock(Zero) /\ IsBlock(Garbage)
<1>1. DOMAIN Zero = {"zero"} /\ DOMAIN Garbage = {"text"}
  BY DEF Zero, Garbage
<1>2. QED BY <1>1 DEF IsBlock, IsHeader, IsSource

\* Any block taken for a header has a size and a name.
LEMMA AsHeaderIs ==
  ASSUME NEW b, IsBlock(b)
  PROVE  AsHeader(b).size \in Nat /\ IsSequence(AsHeader(b).name) /\ AsHeader(b).name # << >>
<1>1. CASE IsHeader(b)
  BY <1>1 DEF AsHeader, IsBlock
<1>2. CASE ~IsHeader(b)
  <2>1. AsHeader(b).size = 0 /\ AsHeader(b).name = <<b.text>>
    BY <1>2 DEF AsHeader, Header
  <2>2. <<b.text>> # << >>
    OBVIOUS
  <2>3. QED BY <2>1, <2>2, OneFacts
<1>3. QED BY <1>1, <1>2

\* The header and the content of a file are added to the archive.
LEMMA TarFileStep ==
  ASSUME PInv, cmd.op = "tar", Line.flag = "c", Within, UNCHANGED <<tree, slips>>,
         NEW p, IsSequence(p), Len(p) > Len(Cwd), NEW size \in Nat, NEW v, CreateOK(v, tree), tar_file(p, size, v)
  PROVE  PInv'
<1>1. WellFormed(tree) /\ WellFormed(tree')
  BY TarHas
<1>2. CASE \E at \in {"create", "bail"} : Goes(at, v) /\ UNCHANGED open /\ Quietly
  <2>1. faults' \in 0 .. MaxFaults
    BY <1>2 DEF Quietly, PInv, TypeOK
  <2>2. PICK at \in {"create", "bail"} : Goes(at, v) /\ UNCHANGED open
    BY <1>2
  <2>3. QED BY <1>1, <2>1, <2>2, TarCreates DEF TarsHandles, TarSlips
<1>3. ASSUME NEW r \in Outcomes, NEW call, Suffers(r, call), IsFile(tree, p), NEW exe, NEW header,
             header = Header(SubSeq(p, Len(Cwd) + 1, Len(p)), size, exe), NEW out, NEW at \in {"create", "bail"},
             out = Append(v.out, header) \/ out = Append(v.out, header) \o Reads(tree[p].data, size, header),
             Goes(at, [v EXCEPT !.out = out]), UNCHANGED open \/ open' = open \cup {Handle("tar in", p)}
      PROVE  PInv'
  <2>1. faults' \in 0 .. MaxFaults
    BY <1>3, SuffersIs DEF PInv
  <2>2. IsBlock(header)
    <3>1. IsSequence(Cwd) /\ Len(Cwd) \in Nat
      BY SequenceFacts DEF PInv, PwdOK, Cwd
    <3>2. Len(p) \in Nat /\ Len(Cwd) + 1 \in 1 .. Len(p) + 1 /\ Len(p) \in (Len(Cwd) + 1) - 1 .. Len(p)
      BY <3>1, SequenceFacts
    <3>3. IsSequence(SubSeq(p, Len(Cwd) + 1, Len(p)))
      BY <3>1, RestFacts
    <3>4. Len(SubSeq(p, Len(Cwd) + 1, Len(p))) = Len(p) - (Len(Cwd) + 1) + 1
      BY <3>2, SubFacts
    <3>5. SubSeq(p, Len(Cwd) + 1, Len(p)) # << >>
      BY <3>1, <3>2, <3>4
    <3>6. QED BY <1>3, <3>3, <3>5, HeaderIs
  <2>3. IsContent(out)
    <3>1. IsContent(v.out)
      BY DEF CreateOK
    <3>2. IsContent(Append(v.out, header))
      BY <2>2, <3>1, AppendContent
    <3>3. IsContent(tree[p].data)
      BY <1>1, <1>3 DEF WellFormed, IsNode, IsFile, Exists
    <3>4. IsContent(Append(v.out, header) \o Reads(tree[p].data, size, header))
      BY <2>2, <3>2, <3>3, ReadsContent, CatContent
    <3>5. QED BY <1>3, <3>1, <3>2, <3>4
  <2> DEFINE w == [v EXCEPT !.out = out]
  <2>4. DOMAIN w = DOMAIN v /\ w.arg = v.arg /\ w.stack = v.stack /\ w.out = out
    BY DEF CreateOK
  <2>5. Goes(at, w)
    BY <1>3
  <2> HIDE DEF w
  <2>6. CreateOK(w, tree')
    BY <2>3, <2>4 DEF CreateOK
  <2>7. TarsHandles
    BY <1>3 DEF TarsHandles, TarHandles
  <2>8. QED BY <1>1, <2>1, <2>5, <2>6, <2>7, TarCreates DEF TarSlips
<1>4. CASE ~(\E at \in {"create", "bail"} : Goes(at, v) /\ UNCHANGED open /\ Quietly)
  <2>1. PICK r \in Outcomes, call \in {"open", "getattr", "write", "read"} :
          LET exe == tree[p].exe /\ ~(r = "bad" /\ call = "getattr")
              header == Header(SubSeq(p, Len(Cwd) + 1, Len(p)), size, exe)
              archived == [v EXCEPT !.out = Append(@, header) \o Reads(tree[p].data, size, header)]
          IN /\ IsFile(tree, p)
             /\ Suffers(r, call)
             /\ IF r = "bad" /\ call = "open" THEN Goes("bail", v) /\ UNCHANGED open
                ELSE IF r = "bad" /\ call # "getattr"
                THEN /\ open' = open \cup {Handle("tar in", p)}
                     /\ Goes("bail", [v EXCEPT !.out = Append(@, header)])
                ELSE Goes("create", archived) /\ UNCHANGED open
    BY ZenonT(60), <1>4 DEF tar_file
  <2> DEFINE exe == tree[p].exe /\ ~(r = "bad" /\ call = "getattr")
             header == Header(SubSeq(p, Len(Cwd) + 1, Len(p)), size, exe)
  <2>2. CASE r = "bad" /\ call = "open"
    <3>1. Goes("bail", v) /\ UNCHANGED open /\ IsFile(tree, p) /\ Suffers(r, call)
      BY <2>1, <2>2
    <3>2. faults' \in 0 .. MaxFaults
      BY <3>1, SuffersIs DEF PInv
    <3>3. QED BY <1>1, <3>1, <3>2, TarCreates DEF TarsHandles, TarSlips
  <2>3. CASE ~(r = "bad" /\ call = "open") /\ r = "bad" /\ call # "getattr"
    <3>1. Goes("bail", [v EXCEPT !.out = Append(v.out, header)]) /\ open' = open \cup {Handle("tar in", p)}
          /\ IsFile(tree, p) /\ Suffers(r, call)
      BY <2>1, <2>3
    <3> HIDE DEF exe
    <3>2. QED BY <3>1, <1>3
  <2>4. CASE ~(r = "bad" /\ call # "getattr")
    <3>1. Goes("create", [v EXCEPT !.out = Append(v.out, header) \o Reads(tree[p].data, size, header)]) /\ UNCHANGED open
          /\ IsFile(tree, p) /\ Suffers(r, call)
      BY <2>1, <2>4
    <3> HIDE DEF exe
    <3>2. QED BY <3>1, <1>3
  <2>5. QED BY <2>2, <2>3, <2>4
<1>5. QED BY <1>2, <1>4

LEMMA TarDirStep ==
  ASSUME PInv, cmd.op = "tar", Line.flag = "c", Within, UNCHANGED <<tree, slips>>,
         NEW p, IsSequence(p), Len(p) >= Len(Cwd), NEW v, CreateOK(v, tree), tar_dir(p, v)
  PROVE  PInv'
<1>1. WellFormed(tree')
  BY TarHas
<1>2. PICK r \in Outcomes :
        /\ Suffers(r, "open")
        /\ \/ Goes("bail", v) /\ UNCHANGED open
           \/ /\ open' = open \cup {Handle("tar dir", p)}
              /\ Goes("create", [v EXCEPT !.stack = Append(@, [dir |-> p, unread |-> Children(tree, p)])])
  BY DEF tar_dir
<1>3. faults' \in 0 .. MaxFaults
  BY <1>2, SuffersIs DEF PInv
<1>4. \A q \in Children(tree, p) : q \in DOMAIN tree /\ Len(q) > Len(Cwd)
  <2>1. ASSUME NEW q \in Children(tree, p)
        PROVE  Len(q) > Len(Cwd)
    <3>1. q \in DOMAIN tree /\ q # << >> /\ Front(q) = p
      BY <2>1 DEF Children, Root
    <3>2. IsSequence(q) /\ Len(q) \in Nat /\ Len(Cwd) \in Nat /\ Len(p) \in Nat
      BY <3>1, TarHas, SequenceFacts DEF WellFormed, PInv, PwdOK, Cwd
    <3>3. Len(p) = Len(q) - 1
      BY <3>1, <3>2, FrontFacts
    <3>4. QED BY <3>2, <3>3
  <2>2. QED BY <2>1 DEF Children
<1>5. CASE Goes("bail", v) /\ UNCHANGED open
  BY <1>1, <1>3, <1>5, TarCreates DEF TarsHandles, TarSlips
<1>6. CASE /\ open' = open \cup {Handle("tar dir", p)}
           /\ Goes("create", [v EXCEPT !.stack = Append(@, [dir |-> p, unread |-> Children(tree, p)])])
  <2> DEFINE f == [dir |-> p, unread |-> Children(tree, p)]
             s == Append(v.stack, f)
             w == [v EXCEPT !.stack = s]
  <2>1. DOMAIN w = DOMAIN v /\ w.arg = v.arg /\ w.out = v.out /\ w.stack = s /\ Goes("create", w)
    BY <1>6 DEF CreateOK
  <2>2. DOMAIN f = {"dir", "unread"} /\ \A q \in f.unread : q \in DOMAIN tree /\ Len(q) > Len(Cwd)
    BY <1>4
  <2> HIDE DEF f, w
  <2>3. IsSequence(v.stack) /\ Len(v.stack) \in Nat
    BY SequenceFacts DEF CreateOK
  <2>4. IsSequence(s) /\ Len(s) = Len(v.stack) + 1
    BY <2>3, AppendFacts
  <2>5. \A k \in 1 .. Len(v.stack) : s[k] = v.stack[k]
    BY <2>3, AppendFacts
  <2>6. s[Len(v.stack) + 1] = f
    BY <2>3, AppendFacts
  <2> HIDE DEF s
  <2>7. ASSUME NEW k \in 1 .. Len(s)
        PROVE  DOMAIN s[k] = {"dir", "unread"} /\ \A q \in s[k].unread : q \in DOMAIN tree /\ Len(q) > Len(Cwd)
    <3>1. CASE k = Len(v.stack) + 1
      BY <2>2, <2>6, <3>1
    <3>2. CASE k # Len(v.stack) + 1
      <4>1. k \in 1 .. Len(v.stack)
        BY <2>3, <2>4, <3>2
      <4>2. QED BY <2>5, <4>1 DEF CreateOK
    <3>3. QED BY <3>1, <3>2
  <2>8. CreateOK(w, tree')
    BY <2>1, <2>4, <2>7 DEF CreateOK
  <2>9. TarsHandles
    BY <1>6 DEF TarsHandles, TarHandles
  <2>10. QED BY <1>1, <1>3, <2>1, <2>8, <2>9, TarCreates DEF TarSlips
<1>7. QED BY <1>2, <1>5, <1>6

LEMMA TarStartStep ==
  ASSUME PInv, TarStart
  PROVE  PInv'
<1>1. cmd.op = "tar" /\ cmd.op \in Commands /\ Within /\ TarSlips
  BY DEF TarStart, At, Commands, TarSlips
<1> DEFINE file == FullPath(Line.args[1])
           p == file.names
<1>2. IsSequence(p) /\ p = PathOf(1)
  <2>1. 1 \in 1 .. Len(Line.args)
    BY <1>1, Arguments DEF PInv
  <2>2. QED BY <1>1, <2>1, ArgumentIs DEF PInv, PathOf
<1>3. PICK r \in Outcomes :
        /\ Suffers(r, "open")
        /\ \/ Answers("can't open") /\ UNCHANGED <<tree, open>>
           \/ /\ open' = open \cup {Handle("tar", p)}
              /\ \/ /\ Line.flag = "c" /\ CanCreate(tree, p)
                    /\ tree' = Created(tree, p)
                    /\ Goes("create", [file |-> file, arg |-> 2, stack |-> << >>, out |-> << >>])
                 \/ /\ Line.flag # "c" /\ IsFile(tree, p) /\ UNCHANGED tree
                    /\ \E fresh \in {Zero, Garbage} :
                         Goes("header", [file |-> file, rest |-> tree[p].data, hdr |-> fresh, made |-> 0])
  BY DEF TarStart
<1>4. faults' \in 0 .. MaxFaults
  BY <1>3, SuffersIs DEF PInv
<1>5. WellFormed(tree)
  BY <1>1, TarHas
<1> HIDE DEF file, p
<1>6. CASE Answers("can't open") /\ UNCHANGED <<tree, open>>
  BY <1>1, <1>4, <1>5, <1>6, TarAnswers DEF TarsHandles, TarSlips
<1>7. ASSUME open' = open \cup {Handle("tar", p)}
      PROVE  TarsHandles
  BY <1>7 DEF TarsHandles, TarHandles
<1>8. CASE /\ Line.flag = "c" /\ CanCreate(tree, p) /\ open' = open \cup {Handle("tar", p)}
           /\ tree' = Created(tree, p)
           /\ Goes("create", [file |-> file, arg |-> 2, stack |-> << >>, out |-> << >>])
  <2> DEFINE v == [file |-> file, arg |-> 2, stack |-> << >>, out |-> << >>]
  <2>1. DOMAIN v = {"file", "arg", "stack", "out"} /\ v.arg = 2 /\ v.stack = << >> /\ v.out = << >> /\ Goes("create", v)
    BY <1>8
  <2> HIDE DEF v
  <2>2. CreateOK(v, tree')
    BY <2>1, NoContent DEF CreateOK
  <2>3. WellFormed(tree')
    BY <1>2, <1>5, <1>8, CreatedOK
  <2>4. QED BY <1>1, <1>4, <1>7, <1>8, <2>1, <2>2, <2>3, TarCreates DEF TarSlips
<1>9. ASSUME Line.flag # "c", IsFile(tree, p), UNCHANGED tree, open' = open \cup {Handle("tar", p)}, NEW fresh \in {Zero, Garbage},
             Goes("header", [file |-> file, rest |-> tree[p].data, hdr |-> fresh, made |-> 0])
      PROVE  PInv'
  <2> DEFINE v == [file |-> file, rest |-> tree[p].data, hdr |-> fresh, made |-> 0]
  <2>1. /\ DOMAIN v = {"file", "rest", "hdr", "made"} /\ v.rest = tree[p].data /\ v.hdr = fresh /\ v.made = 0
        /\ Goes("header", v)
    BY <1>9
  <2> HIDE DEF v
  <2>2. IsContent(tree[p].data)
    BY <1>5, <1>9 DEF WellFormed, IsNode, IsFile, Exists
  <2>3. IsBlock(fresh)
    BY <1>9, OtherBlocks
  <2>4. ReadOK(v)
    BY <2>1, <2>2, <2>3 DEF ReadOK
  <2>5. QED BY <1>1, <1>4, <1>5, <1>7, <1>9, <2>1, <2>4, TarReads DEF TarSlips
<1>10. QED BY <1>3, <1>6, <1>8, <1>9

\* An argument, or an entry of a directory.
LEMMA TarNextStep ==
  ASSUME PInv, TarArgument \/ TarEntry
  PROVE  PInv'
<1>1. At("tar", "create") /\ cmd.op = "tar" /\ cmd.op \in Commands /\ Within /\ UNCHANGED <<tree, slips>>
  BY DEF TarArgument, TarEntry, At, Commands
<1>2. Line.flag = "c" /\ CreateOK(cmd.v, tree)
  BY <1>1 DEF PInv, TarOK, Creating, At
<1>3. WellFormed(tree)
  BY <1>1, TarHas
<1>4. \A q \in DOMAIN tree : IsSequence(q) /\ Len(tree[q].data) \in Nat
  BY <1>3, SequenceFacts DEF WellFormed, IsNode, IsContent
<1>5. CASE TarArgument
  <2> DEFINE p == PathOf(cmd.v.arg)
             place == IF p = Root THEN Cwd ELSE Append(Cwd, Last(p))
             v == [cmd.v EXCEPT !.arg = @ + 1]
  <2>1. \/ p \in DOMAIN tree /\ (tar_dir(place, v) \/ (~IsDir(tree, p) /\ tar_file(place, Len(tree[p].data), v)))
        \/ \E r \in Outcomes : Suffers(r, "stat") /\ Goes("bail", v) /\ UNCHANGED open
    BY <1>5 DEF TarArgument, Exists
  <2>2. IsSequence(place) /\ Len(place) >= Len(Cwd) /\ (~IsDir(tree, p) => Len(place) > Len(Cwd))
    <3>1. IsSequence(Cwd) /\ Len(Cwd) \in Nat
      BY SequenceFacts DEF PInv, PwdOK, Cwd
    <3>2. CASE p = Root
      BY <1>3, <3>1, <3>2 DEF WellFormed
    <3>3. CASE p # Root
      <4>1. IsSequence(place)
        BY <3>1, <3>3, AppendFacts
      <4>2. Len(place) = Len(Cwd) + 1
        BY <3>1, <3>3, AppendFacts
      <4>3. QED BY <3>1, <4>1, <4>2
    <3>4. QED BY <3>2, <3>3
  <2>3. DOMAIN v = DOMAIN cmd.v /\ v.arg = cmd.v.arg + 1 /\ v.stack = cmd.v.stack /\ v.out = cmd.v.out
    BY <1>2 DEF CreateOK
  <2> HIDE DEF p, place, v
  <2>4. v.arg \in Nat \ {0}
    BY <1>2, <2>3 DEF CreateOK
  <2>5. CreateOK(v, tree)
    BY <1>2, <2>3, <2>4 DEF CreateOK
  <2>6. CASE p \in DOMAIN tree /\ tar_dir(place, v)
    BY <1>1, <1>2, <2>2, <2>5, <2>6, TarDirStep
  <2>7. CASE p \in DOMAIN tree /\ ~IsDir(tree, p) /\ tar_file(place, Len(tree[p].data), v)
    BY <1>1, <1>2, <1>4, <2>2, <2>5, <2>7, TarFileStep
  <2>8. ASSUME NEW r \in Outcomes, Suffers(r, "stat"), Goes("bail", v), UNCHANGED open
        PROVE  PInv'
    <3>1. faults' \in 0 .. MaxFaults
      BY <2>8, SuffersIs DEF PInv
    <3>2. CreateOK(v, tree') /\ WellFormed(tree')
      BY <1>1, <1>3, <2>5
    <3>3. QED BY <1>1, <1>2, <2>8, <3>1, <3>2, TarCreates DEF TarsHandles, TarSlips
  <2>9. QED BY <2>1, <2>6, <2>7, <2>8
<1>6. CASE TarEntry
  <2>1. TarFrames # << >>
    BY <1>6 DEF TarEntry
  <2>2. PICK p \in TarTop.unread :
          LET v == [cmd.v EXCEPT !.stack = Append(Front(TarFrames), [TarTop EXCEPT !.unread = @ \ {p}])]
          IN tar_dir(p, v) \/ tar_file(p, Len(tree[p].data), v)
    BY <1>6 DEF TarEntry
  <2> DEFINE f == [TarTop EXCEPT !.unread = @ \ {p}]
             s == Append(Front(TarFrames), f)
             v == [cmd.v EXCEPT !.stack = s]
  <2>3. tar_dir(p, v) \/ tar_file(p, Len(tree[p].data), v)
    BY <2>2
  <2>4. IsSequence(TarFrames) /\ Len(TarFrames) \in 1 .. Len(TarFrames)
    <3>1. IsSequence(TarFrames)
      BY <1>2 DEF CreateOK, TarFrames
    <3>2. Len(TarFrames) \in Nat /\ Len(TarFrames) >= 1
      BY <2>1, <3>1, FrontFacts, SequenceFacts
    <3>3. QED BY <3>1, <3>2
  <2>5. \A k \in 1 .. Len(TarFrames) : DOMAIN TarFrames[k] = {"dir", "unread"} /\ \A q \in TarFrames[k].unread : q \in DOMAIN tree /\ Len(q) > Len(Cwd)
    BY <1>2 DEF CreateOK, TarFrames
  <2>6. DOMAIN TarTop = {"dir", "unread"} /\ \A q \in TarTop.unread : q \in DOMAIN tree /\ Len(q) > Len(Cwd)
    BY <2>4, <2>5 DEF TarTop
  <2>7. DOMAIN f = {"dir", "unread"} /\ \A q \in f.unread : q \in DOMAIN tree /\ Len(q) > Len(Cwd)
    <3>1. DOMAIN f = {"dir", "unread"} /\ f.unread = TarTop.unread \ {p}
      BY <2>6
    <3> HIDE DEF f
    <3>2. QED BY <2>6, <3>1
  <2>8. DOMAIN v = DOMAIN cmd.v /\ v.arg = cmd.v.arg /\ v.stack = s /\ v.out = cmd.v.out
    BY <1>2 DEF CreateOK
  <2> HIDE DEF f, v
  <2>9. IsSequence(s) /\ Len(s) = Len(TarFrames)
    BY <2>1, <2>4, TopFacts
  <2>10. \A k \in 1 .. Len(TarFrames) : s[k] = IF k = Len(TarFrames) THEN f ELSE TarFrames[k]
    BY <2>1, <2>4, TopFacts
  <2> HIDE DEF s
  <2>11. \A k \in 1 .. Len(s) : DOMAIN s[k] = {"dir", "unread"} /\ \A q \in s[k].unread : q \in DOMAIN tree /\ Len(q) > Len(Cwd)
    BY <2>5, <2>7, <2>9, <2>10
  <2>12. CreateOK(v, tree)
    BY <1>2, <2>8, <2>9, <2>11 DEF CreateOK
  <2>13. IsSequence(p) /\ Len(tree[p].data) \in Nat /\ Len(p) > Len(Cwd)
    BY <1>4, <2>6
  <2>14. Len(p) >= Len(Cwd)
    BY <2>13, SequenceFacts DEF PInv, PwdOK, Cwd
  <2>15. QED BY <1>1, <1>2, <2>3, <2>12, <2>13, <2>14, TarDirStep, TarFileStep
<1>7. QED BY <1>5, <1>6

LEMMA TarEndStep ==
  ASSUME PInv, TarDirEnd \/ TarEnd
  PROVE  PInv'
<1>1. At("tar", "create") /\ cmd.op = "tar" /\ Within /\ UNCHANGED <<tree, slips>>
  BY DEF TarDirEnd, TarEnd, At, TarGoes
<1>2. Line.flag = "c" /\ CreateOK(cmd.v, tree)
  BY <1>1 DEF PInv, TarOK, Creating, At
<1>3. WellFormed(tree')
  BY <1>1, TarHas
<1>4. faults' \in 0 .. MaxFaults
  BY SuffersIs DEF TarDirEnd, TarEnd, PInv
<1>5. CASE TarDirEnd
  <2> DEFINE s == Front(cmd.v.stack)
             v == [cmd.v EXCEPT !.stack = s]
  <2>1. DOMAIN v = DOMAIN cmd.v /\ v.arg = cmd.v.arg /\ v.stack = s /\ v.out = cmd.v.out
    BY <1>2 DEF CreateOK
  <2>2. Goes("create", v) /\ cmd.v.stack # << >>
    BY <1>5 DEF TarDirEnd, TarFrames
  <2> HIDE DEF v
  <2>3. IsSequence(cmd.v.stack) /\ Len(cmd.v.stack) \in Nat
    BY <1>2, SequenceFacts DEF CreateOK
  <2>4. IsSequence(s)
    BY <2>2, <2>3, FrontFacts
  <2>5. Len(s) = Len(cmd.v.stack) - 1
    BY <2>2, <2>3, FrontFacts
  <2>6. \A k \in 1 .. Len(cmd.v.stack) - 1 : s[k] = cmd.v.stack[k]
    BY <2>2, <2>3, FrontFacts
  <2> HIDE DEF s
  <2>7. \A k \in 1 .. Len(s) : DOMAIN s[k] = {"dir", "unread"} /\ \A q \in s[k].unread : q \in DOMAIN tree /\ Len(q) > Len(Cwd)
    BY SMTT(40), <1>2, <2>3, <2>5, <2>6 DEF CreateOK
  <2>8. CreateOK(v, tree')
    BY <1>1, <1>2, <2>1, <2>4, <2>7 DEF CreateOK
  <2>9. TarsHandles
    BY <1>5 DEF TarDirEnd, TarsHandles
  <2>10. QED BY <1>1, <1>2, <1>3, <1>4, <2>2, <2>8, <2>9, TarCreates DEF TarSlips
<1>6. CASE TarEnd
  <2>1. PICK r \in Outcomes, k \in 0 .. 1 :
          TarGoes("close", [cmd.v EXCEPT !.out = @ \o (IF r = "ok" THEN <<Zero, Zero>> ELSE SubSeq(<<Zero>>, 1, k))])
    BY <1>6 DEF TarEnd
  <2> DEFINE zeros == IF r = "ok" THEN <<Zero, Zero>> ELSE SubSeq(<<Zero>>, 1, k)
             v == [cmd.v EXCEPT !.out = @ \o zeros]
  <2>2. DOMAIN v = DOMAIN cmd.v /\ v.arg = cmd.v.arg /\ v.stack = cmd.v.stack /\ v.out = cmd.v.out \o zeros
    BY <1>2 DEF CreateOK
  <2>3. Goes("close", v) /\ UNCHANGED open
    BY <2>1 DEF TarGoes
  <2> HIDE DEF v
  <2>4. IsBlock(Zero)
    BY OtherBlocks
  <2>5. IsContent(<<Zero>>) /\ Len(<<Zero>>) = 1
    BY <2>4, OneFacts DEF IsContent
  <2>6. IsContent(SubSeq(<<Zero>>, 1, k))
    BY <2>5, PrefixContent
  <2>7. IsContent(<<Zero, Zero>>)
    <3>1. <<Zero, Zero>> = Append(<<Zero>>, Zero)
      OBVIOUS
    <3>2. QED BY <2>4, <2>5, <3>1, AppendContent
  <2>8. IsContent(zeros)
    BY <2>6, <2>7
  <2> HIDE DEF zeros
  <2>9. IsContent(cmd.v.out \o zeros)
    BY <1>2, <2>8, CatContent DEF CreateOK
  <2>10. CreateOK(v, tree')
    BY <1>1, <1>2, <2>2, <2>9 DEF CreateOK
  <2>11. QED BY SMTT(40), <1>1, <1>2, <1>3, <1>4, <2>3, <2>10, TarCreates DEF TarsHandles, TarSlips
<1>7. QED BY <1>5, <1>6

LEMMA TarCloseStep ==
  ASSUME PInv, TarCreated \/ TarShut
  PROVE  PInv'
<1>1. cmd.op = "tar" /\ Within /\ TarSlips
  BY DEF TarCreated, TarShut, TarSlips
<1>2. WellFormed(tree)
  BY <1>1, TarHas
<1>3. faults' \in 0 .. MaxFaults
  BY SuffersIs DEF TarCreated, TarClose, TarShut, Quietly, PInv, TypeOK
<1>4. open' = open \ {TarHandle}
  BY DEF TarCreated, TarClose, TarShut
<1>5. WellFormed(tree')
  <2>1. CASE TarShut
    BY <1>2, <2>1 DEF TarShut
  <2>2. CASE TarCreated
    <3>1. Creating
      BY <2>2 DEF TarCreated, Creating
    <3>2. IsContent(cmd.v.out)
      BY <3>1 DEF PInv, TarOK, CreateOK
    <3>3. tree' = tree \/ tree' = Stored(tree, cmd.v.file.names, cmd.v.out)
      BY <2>2 DEF TarCreated, TarClose
    <3>4. QED BY <1>2, <3>2, <3>3, StoredOK
  <2>3. QED BY <2>1, <2>2
<1>6. PICK said : Answers(said)
  BY DEF TarCreated, TarClose, TarShut
<1>7. TarsHandles /\ TarHandle \notin open'
  BY <1>4 DEF TarsHandles
<1>8. QED BY <1>1, <1>3, <1>5, <1>6, <1>7, TarAnswers DEF TarSlips

\* What is left of an archive behind a place in it is content.
LEMMA PastContent ==
  ASSUME IsContent(Rest), NEW n \in Nat
  PROVE  IsContent(Past(n))
<1>1. IsSequence(Rest)
  BY DEF IsContent
<1>2. CASE n >= Len(Rest)
  BY <1>2, NoContent DEF Past
<1>3. CASE ~(n >= Len(Rest))
  <2>1. Past(n) = SubSeq(Rest, n + 1, Len(Rest))
    BY <1>3 DEF Past
  <2>2. QED BY <1>1, <2>1, RestFacts, PartContent
<1>4. QED BY <1>2, <1>3

LEMMA TarHeaderStep ==
  ASSUME PInv, TarHeader
  PROVE  PInv'
<1>1. At("tar", "header") /\ cmd.op = "tar" /\ Within /\ UNCHANGED <<tree, open, slips>>
  BY DEF TarHeader, At
<1>2. Line.flag # "c" /\ ReadOK(cmd.v)
  BY <1>1 DEF PInv, TarOK, Creating, Reading, At
<1>3. WellFormed(tree')
  BY <1>1, TarHas
<1>4. faults' \in 0 .. MaxFaults
  BY SuffersIs DEF TarHeader, PInv
<1>5. IsContent(Rest) /\ IsBlock(cmd.v.hdr)
  BY <1>2 DEF ReadOK, Rest
<1>6. IsBlock(NextBlock)
  BY <1>5, HeadContent DEF NextBlock
<1> DEFINE h == AsHeader(NextBlock)
           v == [cmd.v EXCEPT !.hdr = NextBlock, !.rest = Past(1)]
<1>7. h.size \in Nat
  BY <1>6, AsHeaderIs
<1>8. DOMAIN v = DOMAIN cmd.v /\ v.file = cmd.v.file /\ v.made = cmd.v.made /\ v.hdr = NextBlock /\ v.rest = Past(1)
  BY <1>2 DEF ReadOK
<1>9. \/ Answers("error reading")
      \/ Goes("shut", cmd.v)
      \/ Goes("header", v)
      \/ Goes("header", [v EXCEPT !.rest = Seek(1 + h.size)])
      \/ Goes("dirs", [v EXCEPT !.made = 1])
  BY DEF TarHeader
<1> HIDE DEF h, v
<1>10. ReadOK(v)
  BY <1>2, <1>5, <1>6, <1>8, PastContent DEF ReadOK
<1>11. ReadOK([v EXCEPT !.rest = Seek(1 + h.size)])
  <2> DEFINE w == [v EXCEPT !.rest = Seek(1 + h.size)]
  <2>1. DOMAIN w = DOMAIN v /\ w.hdr = v.hdr /\ w.made = v.made /\ w.rest = Seek(1 + h.size)
    BY <1>10 DEF ReadOK
  <2>2. IsContent(Seek(1 + h.size))
    BY <1>5, <1>7, PastContent DEF Seek
  <2> HIDE DEF w
  <2>3. ReadOK(w)
    BY <1>10, <2>1, <2>2 DEF ReadOK
  <2>4. QED BY <2>3 DEF w
<1>12. ReadOK([v EXCEPT !.made = 1])
  <2> DEFINE w == [v EXCEPT !.made = 1]
  <2>1. DOMAIN w = DOMAIN v /\ w.hdr = v.hdr /\ w.made = 1 /\ w.rest = v.rest
    BY <1>10 DEF ReadOK
  <2> HIDE DEF w
  <2>2. ReadOK(w)
    BY <1>10, <2>1 DEF ReadOK
  <2>3. QED BY <2>2 DEF w
<1>13. TarsHandles
  BY <1>1 DEF TarsHandles
<1>14. CASE Answers("error reading")
  BY <1>1, <1>3, <1>4, <1>13, <1>14, TarAnswers DEF TarSlips
<1>15. CASE Goes("shut", cmd.v) \/ Goes("header", v)
  BY <1>1, <1>2, <1>3, <1>4, <1>10, <1>13, <1>15, TarReads DEF TarSlips
<1>16. CASE Goes("header", [v EXCEPT !.rest = Seek(1 + h.size)])
  BY <1>1, <1>2, <1>3, <1>4, <1>11, <1>13, <1>16, TarReads DEF TarSlips
<1>17. CASE Goes("dirs", [v EXCEPT !.made = 1])
  BY <1>1, <1>2, <1>3, <1>4, <1>12, <1>13, <1>17, TarReads DEF TarSlips
<1>18. QED BY <1>9, <1>14, <1>15, <1>16, <1>17

LEMMA TarMkdirsStep ==
  ASSUME PInv, TarMkdirs
  PROVE  PInv'
<1>1. At("tar", "dirs") /\ cmd.op = "tar" /\ Within /\ UNCHANGED <<open, slips>> /\ cmd.v.made < Len(Entry.name)
  BY DEF TarMkdirs, At
<1>2. Line.flag # "c" /\ ReadOK(cmd.v)
  BY <1>1 DEF PInv, TarOK, Creating, Reading, At
<1> DEFINE p == Cwd \o SubSeq(Entry.name, 1, cmd.v.made)
<1>3. PICK r \in Outcomes :
        /\ Suffers(r, "mkdir")
        /\ tree' = tree \/ (CanMkdir(tree, p) /\ tree' = Mkdir(tree, p))
        /\ Goes("dirs", [cmd.v EXCEPT !.made = @ + 1]) \/ Goes("bail", cmd.v)
  BY DEF TarMkdirs
<1>4. faults' \in 0 .. MaxFaults
  BY <1>3, SuffersIs DEF PInv
<1>5. IsSequence(p)
  <2>1. IsSequence(Entry.name) /\ Len(Entry.name) \in Nat
    BY <1>2, AsHeaderIs, SequenceFacts DEF Entry, ReadOK
  <2>2. cmd.v.made \in 0 .. Len(Entry.name)
    BY <1>1, <1>2, <2>1 DEF ReadOK
  <2>3. IsSequence(SubSeq(Entry.name, 1, cmd.v.made))
    BY <2>1, <2>2, PrefixSeq
  <2>4. QED BY <2>3, CatFacts DEF PInv, PwdOK, Cwd
<1> HIDE DEF p
<1>6. WellFormed(tree')
  BY <1>1, <1>3, <1>5, MkdirOK, TarHas
<1>7. ReadOK([cmd.v EXCEPT !.made = @ + 1])
  <2> DEFINE w == [cmd.v EXCEPT !.made = @ + 1]
  <2>1. DOMAIN w = DOMAIN cmd.v /\ w.hdr = cmd.v.hdr /\ w.made = cmd.v.made + 1 /\ w.rest = cmd.v.rest
    BY <1>2 DEF ReadOK
  <2> HIDE DEF w
  <2>2. w.made \in Nat
    BY <1>2, <2>1 DEF ReadOK
  <2>3. ReadOK(w)
    BY <1>2, <2>1, <2>2 DEF ReadOK
  <2>4. QED BY <2>3 DEF w
<1>8. QED BY <1>1, <1>2, <1>3, <1>4, <1>6, <1>7, TarReads DEF TarsHandles, TarSlips

LEMMA TarExtractStep ==
  ASSUME PInv, TarExtract
  PROVE  PInv'
<1>1. At("tar", "dirs") /\ cmd.op = "tar" /\ Within /\ UNCHANGED <<open, slips>>
  BY DEF TarExtract, At
<1>2. Line.flag # "c" /\ ReadOK(cmd.v)
  BY <1>1 DEF PInv, TarOK, Creating, Reading, At
<1> DEFINE size == Entry.size
           blocks == Reads(Rest, size, cmd.v.hdr)
           created == Created(tree, Place)
           whole == Stored(created, Place, blocks)
           hdr == IF size = 0 THEN cmd.v.hdr ELSE blocks[size]
           v == [cmd.v EXCEPT !.rest = Past(size), !.hdr = hdr]
<1>3. PICK r \in Outcomes, call \in {"create", "read", "write", "close", "setattr"} :
        /\ Suffers(r, call)
        /\ \/ UNCHANGED tree /\ Goes("bail", cmd.v)
           \/ /\ CanCreate(tree, Place) /\ size > 0
              /\ \E n \in 0 .. size - 1 : tree' \in {created, Stored(created, Place, SubSeq(blocks, 1, n))}
              /\ Goes("bail", cmd.v)
           \/ /\ CanCreate(tree, Place)
              /\ \E t \in {created, whole} : tree' = Marked(t, Place) \/ tree' = t
              /\ Goes("header", v)
  BY DEF TarExtract
<1>4. faults' \in 0 .. MaxFaults
  BY <1>3, SuffersIs DEF PInv
<1>5. size \in Nat /\ IsSequence(Place)
  <2>1. size \in Nat /\ IsSequence(Entry.name)
    BY <1>2, AsHeaderIs DEF Entry, ReadOK
  <2>2. QED BY <2>1, CatFacts DEF Place, PInv, PwdOK, Cwd
<1>6. IsContent(Rest) /\ IsBlock(cmd.v.hdr)
  BY <1>2 DEF ReadOK, Rest
<1> HIDE DEF size
<1>7. IsContent(blocks) /\ Len(blocks) = size
  BY <1>5, <1>6, ReadsContent
<1>8. WellFormed(tree)
  BY <1>1, TarHas
<1>9. CanCreate(tree, Place) => WellFormed(created)
  BY <1>5, <1>8, CreatedOK
<1>10. ReadOK(v)
  <2>1. DOMAIN v = DOMAIN cmd.v /\ v.made = cmd.v.made /\ v.rest = Past(size) /\ v.hdr = hdr
    BY <1>2 DEF ReadOK
  <2>2. IsContent(Past(size))
    BY <1>5, <1>6, PastContent
  <2> HIDE DEF v, blocks
  <2>3. IsBlock(hdr)
    BY <1>5, <1>6, <1>7 DEF IsContent
  <2> HIDE DEF hdr
  <2>4. QED BY <1>2, <2>1, <2>2, <2>3 DEF ReadOK
<1> HIDE DEF blocks, created, v, hdr
<1>11. WellFormed(tree')
  <2>1. CASE UNCHANGED tree
    BY <1>8, <2>1
  <2>2. CASE CanCreate(tree, Place) /\ size > 0 /\ \E n \in 0 .. size - 1 : tree' \in {created, Stored(created, Place, SubSeq(blocks, 1, n))}
    <3>1. PICK n \in 0 .. size - 1 : tree' \in {created, Stored(created, Place, SubSeq(blocks, 1, n))}
      BY <2>2
    <3>2. n \in 0 .. Len(blocks)
      BY <1>5, <1>7, <3>1
    <3>3. IsContent(SubSeq(blocks, 1, n))
      BY <1>7, <3>2, PrefixContent
    <3>4. WellFormed(created)
      BY <1>9, <2>2
    <3>5. QED BY <3>1, <3>3, <3>4, StoredOK
  <2>3. CASE CanCreate(tree, Place) /\ \E t \in {created, whole} : tree' = Marked(t, Place) \/ tree' = t
    <3>1. PICK t \in {created, whole} : tree' = Marked(t, Place) \/ tree' = t
      BY <2>3
    <3>2. WellFormed(t)
      BY <1>7, <1>9, <2>3, <3>1, StoredOK
    <3>3. QED BY <3>1, <3>2, MarkedOK
  <2>4. QED BY <1>3, <2>1, <2>2, <2>3
<1>12. Goes("bail", cmd.v) \/ Goes("header", v)
  BY <1>3
<1>13. QED BY <1>1, <1>2, <1>4, <1>10, <1>11, <1>12, TarReads DEF TarsHandles, TarSlips

LEMMA TarStepOK ==
  ASSUME PInv, TarStep
  PROVE  PInv'
BY TarStartStep, TarNextStep, TarEndStep, TarCloseStep, TarHeaderStep, TarMkdirsStep, TarExtractStep DEF TarStep
-----------------------------------------------------------------------------
(* cc and run. *)

\* A step of cc or of the loader leaves the parts of the invariant about other commands as they are.
LEMMA CcCommand ==
  ASSUME PInv, Within, cmd.op \in {"cc", "run"},
         cmd'.op = cmd.op, cmd'.line = cmd.line, DOMAIN cmd' = DOMAIN cmd, cmd'.at # "start",
         WellFormed(tree'), IsFiniteSet(open'), IsFiniteSet(slips'), faults' \in 0 .. MaxFaults,
         CcOK', \A h \in open' : h[1] \in TarHandles \/ Owned(h)'
  PROVE  PInv'
<1>1. cmd.op \in Commands
  BY DEF Commands
<1>2. (TypeOK /\ CmdOK /\ PwdOK /\ MountOK)'
  BY <1>1, WithinCommand
<1>3. TarOK' /\ CopyOK' /\ CleanOK'
  BY DEF TarOK, CopyOK, CleanOK, Creating, Reading, Copying, At
<1>4. HandlesOK'
  BY DEF HandlesOK, At
<1>5. QED BY <1>2, <1>3, <1>4 DEF PInv

\* The session goes on.
LEMMA CcGoes ==
  ASSUME PInv, Within, cmd.op \in {"cc", "run"},
         NEW at, at \notin {"start", "done"}, NEW v, Goes(at, v), SessionOK(v), PlaceOK(cmd.op, at, v),
         at = "open" => Exists(tree', v.path), WellFormed(tree'), IsFiniteSet(open'), IsFiniteSet(slips'), faults' \in 0 .. MaxFaults,
         \A h \in open' : h[1] \in TarHandles \/ HasHandle(v, h)
  PROVE  PInv'
<1>1. DOMAIN cmd' = DOMAIN cmd /\ cmd'.op = cmd.op /\ cmd'.line = cmd.line /\ cmd'.at = at /\ cmd'.v = v
  BY GoesIs DEF PInv
<1>2. InSession' /\ S' = v
  BY <1>1 DEF InSession, S
<1>3. CcOK'
  <2>1. HasOut' = HasOut
    BY <1>1 DEF HasOut, Line
  <2>2. PlaceOK(cmd.op, at, v)'
    BY <1>1, <2>1 DEF PlaceOK, LoadedOK
  <2>3. QED BY <1>1, <1>2, <2>2 DEF CcOK
<1>4. \A h \in open' : h[1] \in TarHandles \/ Owned(h)'
  BY <1>2 DEF Owned, HasHandle, FdHandle, UserHandle
<1>5. QED BY <1>1, <1>3, <1>4, CcCommand

\* The last step of cc has only to have closed its handles.
LEMMA CcAnswers ==
  ASSUME PInv, Within, cmd.op \in {"cc", "run"}, NEW said, Answers(said),
         WellFormed(tree'), IsFiniteSet(open'), IsFiniteSet(slips'), faults' \in 0 .. MaxFaults,
         \A h \in open' : h[1] \in TarHandles
  PROVE  PInv'
<1>1. DOMAIN cmd' = DOMAIN cmd /\ cmd'.op = cmd.op /\ cmd'.line = cmd.line /\ cmd'.at = "done"
  BY AnswersIs DEF PInv
<1>2. CcOK'
  BY <1>1 DEF CcOK, InSession
<1>3. QED BY <1>1, <1>2, CcCommand

\* fatal, without another look at the undefined behaviour.
LEMMA FatalIs ==
  ASSUME PInv, NEW v, fatal(v)
  PROVE  Goes("leave", v) /\ IsFiniteSet(slips')
<1>1. IsFiniteSet(slips)
  BY DEF PInv, TypeOK
<1>2. IsFiniteSet(slips \cup {<<"null source", cmd.op>>})
  BY <1>1, FiniteSteps
<1>3. slips' = slips \/ slips' = slips \cup {<<"null source", cmd.op>>}
  BY DEF fatal, Slip
<1>4. QED BY <1>1, <1>2, <1>3 DEF fatal

\* On the way out nothing more is asked of the session.
LEMMA CcFatal ==
  ASSUME PInv, Within, cmd.op \in {"cc", "run"}, NEW v, fatal(v), SessionOK(v),
         WellFormed(tree'), IsFiniteSet(open'), faults' \in 0 .. MaxFaults,
         \A h \in open' : h[1] \in TarHandles \/ HasHandle(v, h)
  PROVE  PInv'
<1>1. PlaceOK(cmd.op, "leave", v)
  BY DEF PlaceOK
<1>2. QED BY <1>1, FatalIs, CcGoes

\* What the invariant says of a session: its handles are fd's and the program's.
LEMMA CcHas ==
  ASSUME PInv, cmd.op \in {"cc", "run"}, cmd.at \notin {"start", "done"}
  PROVE  /\ SessionOK(S) /\ PlaceOK(cmd.op, cmd.at, S) /\ (cmd.at = "open" => Exists(tree, S.path))
         /\ \A h \in open : h[1] \in TarHandles \/ HasHandle(S, h)
         /\ IsFiniteSet(open) /\ IsFiniteSet(slips) /\ WellFormed(tree)
<1>1. SessionOK(S) /\ PlaceOK(cmd.op, cmd.at, S) /\ (cmd.at = "open" => Exists(tree, S.path))
  BY DEF PInv, CcOK, InSession
<1>2. \A h : Owned(h) => HasHandle(S, h)
  BY DEF Owned, Copying, At
<1>3. QED BY <1>1, <1>2 DEF PInv, HandlesOK, TypeOK

\* The names of a command line, as paths.
LEMMA CcPath ==
  ASSUME PInv, cmd.op \in {"cc", "run"}
  PROVE  IsSequence(PathOf(1)) /\ (HasOut => IsSequence(PathOf(2)))
<1>1. cmd.op \in Commands /\ cmd.op # "cd"
  BY DEF Commands
<1>2. 1 \in 1 .. Len(Line.args) /\ (HasOut => 2 \in 1 .. Len(Line.args))
  BY <1>1, Arguments DEF PInv, HasOut
<1>3. IsSequence(PathOf(1))
  BY <1>1, <1>2, ArgumentIs DEF PInv
<1>4. HasOut => IsSequence(PathOf(2))
  BY <1>1, <1>2, ArgumentIs DEF PInv
<1>5. QED BY <1>3, <1>4

LEMMA CcStartStep ==
  ASSUME PInv, CcStart
  PROVE  PInv'
<1>1. cmd.op = "cc" /\ cmd.at = "start" /\ Within /\ UNCHANGED tree
  BY DEF CcStart, At
<1> DEFINE p == PathOf(1)
           v == [Session("cc") EXCEPT !.mem = {"tables"}, !.path = p]
           lost == [v EXCEPT !.mem = @ \cup {"name"}]
           opened == [v EXCEPT !.mem = @ \cup {"fd"}, !.fd = "open"]
<1>2. PICK r \in Outcomes :
        /\ Suffers(r, "open")
        /\ \/ fatal(lost) /\ UNCHANGED open
           \/ Goes("read", opened) /\ open' = open \cup {FdHandle(p)} /\ UNCHANGED slips
  BY DEF CcStart
<1>3. faults' \in 0 .. MaxFaults
  BY <1>2, SuffersIs DEF PInv
<1>4. IsSequence(p)
  BY <1>1, CcPath
<1> HIDE DEF p
<1>5. /\ DOMAIN v = {"op", "fd", "path", "mem", "list", "freed", "lines", "base", "source", "out", "data"}
      /\ v.path = p /\ v.out = << >> /\ v.data = << >> /\ v.list = << >>
  BY DEF Session
<1> HIDE DEF v
<1>6. DOMAIN lost = DOMAIN v /\ lost.path = p /\ lost.out = << >> /\ lost.data = << >> /\ lost.list = << >>
  BY <1>5
<1>7. DOMAIN opened = DOMAIN v /\ opened.path = p /\ opened.out = << >> /\ opened.data = << >> /\ opened.list = << >>
      /\ opened.fd = "open"
  BY <1>5
<1> HIDE DEF lost, opened
<1>8. SessionOK(lost) /\ SessionOK(opened) /\ PlaceOK(cmd.op, "read", opened)
  BY <1>1, <1>4, <1>5, <1>6, <1>7, NoContent DEF SessionOK, PlaceOK
<1>9. \A h \in open : h[1] \in TarHandles
  <2>1. AtRest /\ cmd.op # "off"
    BY <1>1 DEF AtRest
  <2>2. QED BY <2>1, OnlyTars
<1>10. WellFormed(tree') /\ IsFiniteSet(open) /\ IsFiniteSet(slips)
  BY <1>1 DEF PInv, TypeOK
<1>11. CASE fatal(lost) /\ UNCHANGED open
  BY <1>1, <1>3, <1>8, <1>9, <1>10, <1>11, CcFatal
<1>12. CASE Goes("read", opened) /\ open' = open \cup {FdHandle(p)} /\ UNCHANGED slips
  <2>1. IsFiniteSet(open') /\ IsFiniteSet(slips')
    BY <1>10, <1>12, FiniteSteps
  <2>2. \A h \in open' : h[1] \in TarHandles \/ HasHandle(opened, h)
    BY <1>7, <1>9, <1>12 DEF HasHandle
  <2>3. QED BY <1>1, <1>3, <1>8, <1>10, <1>12, <2>1, <2>2, CcGoes
<1>13. QED BY <1>2, <1>11, <1>12

LEMMA CcReadStep ==
  ASSUME PInv, CcRead
  PROVE  PInv'
<1>1. cmd.op \in {"cc", "run"} /\ cmd.at = "read" /\ Within /\ UNCHANGED tree
  BY DEF CcRead, CcAt
<1>2. /\ SessionOK(S) /\ cmd.op = "cc" /\ IsFiniteSet(open) /\ IsFiniteSet(slips) /\ WellFormed(tree')
      /\ \A h \in open : h[1] \in TarHandles \/ HasHandle(S, h)
  BY <1>1, CcHas DEF PlaceOK
<1> DEFINE sources == {b \in ToSet(tree[S.path].data) : IsSource(b)}
           lost == [S EXCEPT !.mem = @ \cup {"source"}]
           got == [S EXCEPT !.mem = (@ \ {"fd"}) \cup {"source"}, !.fd = "null", !.base = TRUE, !.source = sources]
<1>3. PICK r \in Outcomes :
        /\ Suffers(r, "read")
        /\ \/ fatal(lost) /\ UNCHANGED open
           \/ Goes("compile", got) /\ open' = open \ {FdHandle(S.path)} /\ UNCHANGED slips
  BY DEF CcRead
<1>4. faults' \in 0 .. MaxFaults
  BY <1>3, SuffersIs DEF PInv
<1> HIDE DEF sources
<1>5. DOMAIN lost = DOMAIN S /\ lost.path = S.path /\ lost.out = S.out /\ lost.data = S.data /\ lost.list = S.list
      /\ lost.fd = S.fd
  BY <1>2 DEF SessionOK
<1>6. DOMAIN got = DOMAIN S /\ got.path = S.path /\ got.out = S.out /\ got.data = S.data /\ got.list = S.list
      /\ got.fd = "null"
  BY <1>2 DEF SessionOK
<1> HIDE DEF lost, got
<1>7. SessionOK(lost) /\ SessionOK(got) /\ PlaceOK(cmd.op, "compile", got)
  BY <1>2, <1>5, <1>6 DEF SessionOK, PlaceOK
<1>8. CASE fatal(lost) /\ UNCHANGED open
  <2>1. \A h \in open' : h[1] \in TarHandles \/ HasHandle(lost, h)
    BY <1>2, <1>5, <1>8 DEF HasHandle
  <2>2. QED BY <1>1, <1>2, <1>4, <1>7, <1>8, <2>1, CcFatal
<1>9. CASE Goes("compile", got) /\ open' = open \ {FdHandle(S.path)} /\ UNCHANGED slips
  <2>1. \A h \in open' : h[1] \in TarHandles \/ HasHandle(got, h)
    BY <1>2, <1>6, <1>9 DEF HasHandle
  <2>2. IsFiniteSet(open') /\ IsFiniteSet(slips')
    BY <1>2, <1>9, FiniteSteps
  <2>3. QED BY <1>1, <1>2, <1>4, <1>7, <1>9, <2>1, <2>2, CcGoes
<1>10. QED BY <1>3, <1>8, <1>9

LEMMA CcCompileStep ==
  ASSUME PInv, CcCompile
  PROVE  PInv'
<1>1. cmd.op \in {"cc", "run"} /\ cmd.at = "compile" /\ Within /\ UNCHANGED <<tree, open>>
  BY DEF CcCompile, CcAt
<1>2. /\ SessionOK(S) /\ cmd.op = "cc" /\ S.fd = "null" /\ IsFiniteSet(open) /\ IsFiniteSet(slips) /\ WellFormed(tree')
      /\ \A h \in open : h[1] \in TarHandles \/ HasHandle(S, h)
  BY <1>1, CcHas DEF PlaceOK
<1> DEFINE v == [S EXCEPT !.lines = TRUE]
           bare == [v EXCEPT !.mem = {}, !.base = FALSE]
<1>3. /\ faults' \in 0 .. MaxFaults
      /\ \/ fatal(v)
         \/ fatal(bare)
         \/ \E at \in {"create", "user"} : (at = "create" => HasOut) /\ Goes(at, bare) /\ UNCHANGED slips
  BY DEF CcCompile, Quietly, PInv, TypeOK
<1>4. DOMAIN v = DOMAIN S /\ v.path = S.path /\ v.out = S.out /\ v.data = S.data /\ v.list = S.list /\ v.fd = S.fd
  BY <1>2 DEF SessionOK
<1>5. DOMAIN bare = DOMAIN S /\ bare.path = S.path /\ bare.out = S.out /\ bare.data = S.data /\ bare.list = S.list
      /\ bare.fd = S.fd
  BY <1>2 DEF SessionOK
<1> HIDE DEF v, bare
<1>6. SessionOK(v) /\ SessionOK(bare) /\ \A at \in {"create", "user"} : (at = "create" => HasOut) => PlaceOK(cmd.op, at, bare)
  BY <1>2, <1>4, <1>5 DEF SessionOK, PlaceOK
<1>7. \A h \in open' : h[1] \in TarHandles \/ (HasHandle(v, h) /\ HasHandle(bare, h))
  BY <1>1, <1>2, <1>4, <1>5 DEF HasHandle
<1>8. IsFiniteSet(open')
  BY <1>1, <1>2
<1>9. CASE fatal(v) \/ fatal(bare)
  BY <1>1, <1>2, <1>3, <1>6, <1>7, <1>8, <1>9, CcFatal
<1>10. ASSUME NEW at \in {"create", "user"}, at = "create" => HasOut, Goes(at, bare), UNCHANGED slips
       PROVE  PInv'
  BY <1>1, <1>2, <1>3, <1>6, <1>7, <1>8, <1>10, CcGoes
<1>11. QED BY <1>3, <1>9, <1>10

LEMMA CcCreateStep ==
  ASSUME PInv, CcCreate
  PROVE  PInv'
<1>1. cmd.op \in {"cc", "run"} /\ cmd.at = "create" /\ Within
  BY DEF CcCreate, CcAt
<1>2. /\ SessionOK(S) /\ cmd.op = "cc" /\ S.fd = "null" /\ HasOut /\ IsFiniteSet(open) /\ IsFiniteSet(slips) /\ WellFormed(tree)
      /\ \A h \in open : h[1] \in TarHandles \/ HasHandle(S, h)
  BY <1>1, CcHas DEF PlaceOK
<1> DEFINE p == PathOf(2)
           v == [S EXCEPT !.fd = "open", !.path = p, !.mem = @ \cup {"fd"}]
<1>3. PICK r \in Outcomes :
        /\ Suffers(r, "open")
        /\ \/ fatal(S) /\ UNCHANGED <<tree, open>>
           \/ /\ CanCreate(tree, p) /\ tree' = Created(tree, p)
              /\ open' = open \cup {FdHandle(p)} /\ Goes("write", v) /\ UNCHANGED slips
  BY DEF CcCreate
<1>4. faults' \in 0 .. MaxFaults
  BY <1>3, SuffersIs DEF PInv
<1>5. DOMAIN v = DOMAIN S /\ v.path = p /\ v.out = S.out /\ v.data = S.data /\ v.list = S.list /\ v.fd = "open"
  BY <1>2 DEF SessionOK
<1> HIDE DEF v, p
<1>6. CASE fatal(S) /\ UNCHANGED <<tree, open>>
  BY <1>1, <1>2, <1>4, <1>6, CcFatal
<1>7. CASE /\ CanCreate(tree, p) /\ tree' = Created(tree, p)
           /\ open' = open \cup {FdHandle(p)} /\ Goes("write", v) /\ UNCHANGED slips
  <2>1. IsSequence(p)
    BY <1>1, <1>2, CcPath DEF p
  <2>2. SessionOK(v) /\ PlaceOK(cmd.op, "write", v)
    BY <1>2, <1>5, <2>1 DEF SessionOK, PlaceOK
  <2>3. \A h \in open' : h[1] \in TarHandles \/ HasHandle(v, h)
    BY <1>2, <1>5, <1>7 DEF HasHandle
  <2>4. IsFiniteSet(open') /\ IsFiniteSet(slips')
    BY <1>2, <1>7, FiniteSteps
  <2>5. WellFormed(tree')
    BY <1>2, <1>7, <2>1, CreatedOK
  <2>6. QED BY <1>1, <1>2, <1>4, <1>7, <2>2, <2>3, <2>4, <2>5, CcGoes
<1>8. QED BY <1>3, <1>6, <1>7

\* The machine may go down with a session.
LEMMA CcCrash ==
  ASSUME PInv, Within, cmd' = Does("off", "off"), WellFormed(tree'), IsFiniteSet(open'), IsFiniteSet(slips'),
         faults' \in 0 .. MaxFaults
  PROVE  PInv'
<1>1. DOMAIN cmd' = {"op", "at", "line", "said", "v"} /\ cmd'.op = "off" /\ cmd'.at = "off"
  BY DEF Does
<1>2. cmd'.op \notin Commands /\ cmd'.op \in Ops
  BY <1>1 DEF Commands, Ops
<1>3. TypeOK'
  BY <1>2 DEF PInv, TypeOK, Within
<1>4. CmdOK' /\ PwdOK' /\ MountOK'
  BY <1>1, <1>2 DEF PInv, CmdOK, PwdOK, MountOK, Within, At
<1>5. AtRest' /\ ~At("tar", "done")'
  BY <1>1 DEF AtRest, At
<1>6. QED BY <1>1, <1>3, <1>4, <1>5, ComesToRest

LEMMA SegmentIs ==
  ASSUME NEW s, NEW k
  PROVE  IsBlock(Segment(s, k)) /\ IsSegment(Segment(s, k)) /\ Segment(s, k).k = k /\ Segment(s, k).of = s
<1>1. DOMAIN Segment(s, k) = {"text", "of", "k"} /\ Segment(s, k).k = k /\ Segment(s, k).of = s
  BY DEF Segment
<1>2. QED BY <1>1 DEF IsBlock, IsHeader, IsSource, IsSegment

LEMMA CcWriteStep ==
  ASSUME PInv, CcWrite
  PROVE  PInv'
<1>1. cmd.op \in {"cc", "run"} /\ cmd.at = "write" /\ Within
  BY DEF CcWrite, CcAt
<1>2. /\ SessionOK(S) /\ cmd.op = "cc" /\ IsFiniteSet(open) /\ IsFiniteSet(slips) /\ WellFormed(tree)
      /\ \A h \in open : h[1] \in TarHandles \/ HasHandle(S, h)
  BY <1>1, CcHas DEF PlaceOK
<1> DEFINE k == Len(S.out) + 1
           v == [S EXCEPT !.out = Append(@, Segment(Program, k))]
           lost == [S EXCEPT !.fd = "closed"]
<1>3. PICK r \in Outcomes :
        /\ Suffers(r, "write")
        /\ \/ /\ fatal(lost)
              /\ open' = open \ {FdHandle(S.path)}
              /\ tree' \in {tree, Stored(tree, S.path, S.out)}
           \/ /\ UNCHANGED <<tree, open>>
              /\ \/ Goes("write", v) /\ UNCHANGED slips
                 \/ Goes("leave", v) /\ Slip("freed relocation")
                 \/ cmd' = Does("off", "off") /\ Slip("freed relocation")
  BY DEF CcWrite
<1>4. faults' \in 0 .. MaxFaults
  BY <1>3, SuffersIs DEF PInv
<1>5. DOMAIN lost = DOMAIN S /\ lost.path = S.path /\ lost.out = S.out /\ lost.data = S.data /\ lost.list = S.list
      /\ lost.fd = "closed"
  BY <1>2 DEF SessionOK
<1>6. DOMAIN v = DOMAIN S /\ v.path = S.path /\ v.out = Append(S.out, Segment(Program, k)) /\ v.data = S.data
      /\ v.list = S.list /\ v.fd = S.fd
  BY <1>2 DEF SessionOK
<1>7. IsContent(Append(S.out, Segment(Program, k)))
  BY <1>2, SegmentIs, AppendContent DEF SessionOK
<1> HIDE DEF v, lost, k
<1>8. SessionOK(v) /\ SessionOK(lost) /\ PlaceOK(cmd.op, "write", v) /\ PlaceOK(cmd.op, "leave", v)
  BY <1>2, <1>5, <1>6, <1>7 DEF SessionOK, PlaceOK
<1>9. CASE fatal(lost) /\ open' = open \ {FdHandle(S.path)} /\ tree' \in {tree, Stored(tree, S.path, S.out)}
  <2>1. \A h \in open' : h[1] \in TarHandles \/ HasHandle(lost, h)
    BY <1>2, <1>5, <1>9 DEF HasHandle
  <2>2. IsFiniteSet(open')
    BY <1>2, <1>9, FiniteSteps
  <2>3. WellFormed(tree')
    BY <1>2, <1>9, StoredOK DEF SessionOK
  <2>4. QED BY <1>1, <1>4, <1>8, <1>9, <2>1, <2>2, <2>3, CcFatal
<1>10. IsFiniteSet(slips \cup {<<"freed relocation", cmd.op>>})
  BY <1>2, FiniteSteps
<1>11. CASE UNCHANGED <<tree, open>> /\ cmd' = Does("off", "off") /\ Slip("freed relocation")
  <2>1. IsFiniteSet(slips') /\ IsFiniteSet(open') /\ WellFormed(tree')
    BY <1>2, <1>10, <1>11 DEF Slip
  <2>2. QED BY <1>1, <1>4, <1>11, <2>1, CcCrash
<1>12. ASSUME UNCHANGED <<tree, open>>, NEW at \in {"write", "leave"}, Goes(at, v), UNCHANGED slips \/ Slip("freed relocation")
       PROVE  PInv'
  <2>1. IsFiniteSet(slips') /\ IsFiniteSet(open') /\ WellFormed(tree')
    BY <1>2, <1>10, <1>12 DEF Slip
  <2>2. \A h \in open' : h[1] \in TarHandles \/ HasHandle(v, h)
    BY <1>2, <1>6, <1>12 DEF HasHandle
  <2>3. QED BY <1>1, <1>4, <1>8, <1>12, <2>1, <2>2, CcGoes
<1>13. QED BY <1>3, <1>9, <1>11, <1>12

LEMMA CcSealStep ==
  ASSUME PInv, CcSeal
  PROVE  PInv'
<1>1. cmd.op \in {"cc", "run"} /\ cmd.at = "write" /\ Within
  BY DEF CcSeal, CcAt
<1>2. /\ SessionOK(S) /\ cmd.op = "cc" /\ IsFiniteSet(open) /\ IsFiniteSet(slips) /\ WellFormed(tree)
      /\ \A h \in open : h[1] \in TarHandles \/ HasHandle(S, h)
  BY <1>1, CcHas DEF PlaceOK
<1> DEFINE v == [S EXCEPT !.fd = "null", !.mem = {}]
<1>3. PICK r \in Outcomes, call \in {"close", "setattr"}, t \in {tree, Stored(tree, S.path, S.out)} :
        /\ Suffers(r, call)
        /\ open' = open \ {FdHandle(S.path)}
        /\ tree' = t \/ tree' = Marked(t, S.path)
        /\ fatal(v) \/ (Goes("leave", v) /\ UNCHANGED slips)
  BY DEF CcSeal
<1>4. faults' \in 0 .. MaxFaults
  BY <1>3, SuffersIs DEF PInv
<1>5. DOMAIN v = DOMAIN S /\ v.path = S.path /\ v.out = S.out /\ v.data = S.data /\ v.list = S.list
      /\ v.fd = "null"
  BY <1>2 DEF SessionOK
<1> HIDE DEF v
<1>6. SessionOK(v) /\ PlaceOK(cmd.op, "leave", v)
  BY <1>2, <1>5 DEF SessionOK, PlaceOK
<1>7. WellFormed(tree')
  <2>1. WellFormed(t)
    BY <1>2, StoredOK DEF SessionOK
  <2>2. QED BY <1>3, <2>1, MarkedOK
<1>8. \A h \in open' : h[1] \in TarHandles \/ HasHandle(v, h)
  BY <1>2, <1>3, <1>5 DEF HasHandle
<1>9. IsFiniteSet(open')
  BY <1>2, <1>3, FiniteSteps
<1>10. CASE fatal(v)
  BY <1>1, <1>4, <1>6, <1>7, <1>8, <1>9, <1>10, CcFatal
<1>11. CASE Goes("leave", v) /\ UNCHANGED slips
  BY <1>1, <1>2, <1>4, <1>6, <1>7, <1>8, <1>9, <1>11, CcGoes
<1>12. QED BY <1>3, <1>10, <1>11

LEMMA RunAsCmdStep ==
  ASSUME PInv, RunAsCmd
  PROVE  PInv'
<1>1. cmd.op = "run" /\ cmd.at = "start" /\ Within /\ UNCHANGED <<tree, open, slips>>
  BY DEF RunAsCmd, At
<1>2. PICK r \in Outcomes, call \in {"getattr", "getattr bin"} :
        /\ Suffers(r, call)
        /\ \/ Exists(tree, PathOf(1)) /\ Goes("open", [Session("run") EXCEPT !.path = PathOf(1)])
           \/ Exists(tree, InBin(Line.args[1])) /\ Goes("open", [Session("run") EXCEPT !.path = InBin(Line.args[1])])
           \/ Answers("unknown command")
  BY DEF RunAsCmd, IsExe, IsFile
<1>3. faults' \in 0 .. MaxFaults
  BY <1>2, SuffersIs DEF PInv
<1>4. IsFiniteSet(open') /\ IsFiniteSet(slips') /\ WellFormed(tree')
  BY <1>1 DEF PInv, TypeOK
<1>5. \A h \in open' : h[1] \in TarHandles
  <2>1. AtRest /\ cmd.op # "off"
    BY <1>1 DEF AtRest
  <2>2. QED BY <1>1, <2>1, OnlyTars
<1>6. IsSequence(PathOf(1)) /\ IsSequence(InBin(Line.args[1]))
  <2>1. cmd.op \in Commands
    BY <1>1 DEF Commands
  <2>2. 1 \in 1 .. Len(Line.args)
    BY <1>1, <2>1, Arguments DEF PInv
  <2>3. IsSequence(Line.args[1].names)
    BY <2>1, <2>2, ArgumentIs DEF PInv, IsArgument
  <2>4. IsSequence(<<"bin">> \o Line.args[1].names)
    BY <2>3, OneFacts, CatFacts
  <2>5. QED BY <1>1, <2>3, <2>4, CcPath DEF InBin
<1>7. ASSUME NEW p, IsSequence(p), Exists(tree, p), Goes("open", [Session("run") EXCEPT !.path = p])
      PROVE  PInv'
  <2> DEFINE v == [Session("run") EXCEPT !.path = p]
  <2>1. /\ DOMAIN v = {"op", "fd", "path", "mem", "list", "freed", "lines", "base", "source", "out", "data"}
        /\ v.path = p /\ v.out = << >> /\ v.data = << >> /\ v.list = << >> /\ v.fd = "null"
    BY DEF Session
  <2>2. Goes("open", v)
    BY <1>7
  <2> HIDE DEF v
  <2>3. SessionOK(v) /\ PlaceOK(cmd.op, "open", v)
    BY <1>1, <1>7, <2>1, NoContent DEF SessionOK, PlaceOK
  <2>4. Exists(tree', v.path)
    BY <1>1, <1>7, <2>1
  <2>5. QED BY <1>1, <1>3, <1>4, <1>5, <2>2, <2>3, <2>4, CcGoes
<1>8. CASE Answers("unknown command")
  BY <1>1, <1>3, <1>4, <1>5, <1>8, CcAnswers
<1>9. QED BY <1>2, <1>6, <1>7, <1>8

LEMMA LdOpenStep ==
  ASSUME PInv, LdOpen
  PROVE  PInv'
<1>1. cmd.op \in {"cc", "run"} /\ cmd.at = "open" /\ Within /\ UNCHANGED tree
  BY DEF LdOpen, CcAt
<1>2. /\ SessionOK(S) /\ S.fd = "null" /\ S.out = << >> /\ Exists(tree, S.path)
      /\ IsFiniteSet(open) /\ IsFiniteSet(slips) /\ WellFormed(tree) /\ WellFormed(tree')
      /\ \A h \in open : h[1] \in TarHandles \/ HasHandle(S, h)
  BY <1>1, CcHas DEF PlaceOK
<1> DEFINE v == [S EXCEPT !.mem = {"fd"}]
           lost == [v EXCEPT !.fd = "unopened"]
           opened == [v EXCEPT !.fd = "open", !.data = tree[S.path].data]
<1>3. PICK r \in Outcomes, call \in {"getattr", "open"} :
        /\ Suffers(r, call)
        /\ \/ (fatal(S) \/ fatal(lost)) /\ UNCHANGED open
           \/ Goes("load", opened) /\ open' = open \cup {FdHandle(S.path)} /\ UNCHANGED slips
  BY DEF LdOpen
<1>4. faults' \in 0 .. MaxFaults
  BY <1>3, SuffersIs DEF PInv
<1>5. DOMAIN lost = DOMAIN S /\ lost.path = S.path /\ lost.out = S.out /\ lost.data = S.data /\ lost.list = S.list
      /\ lost.fd = "unopened"
  BY <1>2 DEF SessionOK
<1>6. DOMAIN opened = DOMAIN S /\ opened.path = S.path /\ opened.out = S.out /\ opened.data = tree[S.path].data
      /\ opened.list = S.list /\ opened.fd = "open"
  BY <1>2 DEF SessionOK
<1> HIDE DEF v, lost, opened
<1>7. SessionOK(lost) /\ SessionOK(opened)
  <2>1. IsContent(tree[S.path].data)
    BY <1>2 DEF WellFormed, IsNode, Exists
  <2>2. QED BY <1>2, <1>5, <1>6, <2>1 DEF SessionOK
<1>8. PlaceOK(cmd.op, "load", opened)
  <2>1. Len(opened.data) \in Nat /\ SubSeq(opened.data, 1, 0) = << >>
    <3>1. IsSequence(opened.data)
      BY <1>7 DEF SessionOK, IsContent
    <3>2. Len(opened.data) \in Nat
      BY <3>1, SequenceFacts
    <3>3. IsSequence(SubSeq(opened.data, 1, 0)) /\ Len(SubSeq(opened.data, 1, 0)) = 0
      BY <3>1, <3>2, PrefixSeq
    <3>4. SubSeq(opened.data, 1, 0) = << >>
      BY <3>3, FrontFacts
    <3>5. QED BY <3>2, <3>4
  <2>2. opened.out = << >> /\ Len(opened.out) = 0
    BY <1>2, <1>6
  <2>3. LoadedOK(opened)
    BY <2>1, <2>2 DEF LoadedOK
  <2>4. QED BY <2>3 DEF PlaceOK
<1>9. CASE fatal(S) /\ UNCHANGED open
  BY <1>1, <1>2, <1>4, <1>9, CcFatal
<1>10. CASE fatal(lost) /\ UNCHANGED open
  <2>1. \A h \in open' : h[1] \in TarHandles \/ HasHandle(lost, h)
    BY <1>2, <1>5, <1>10 DEF HasHandle
  <2>2. QED BY <1>1, <1>2, <1>4, <1>7, <1>10, <2>1, CcFatal
<1>11. CASE Goes("load", opened) /\ open' = open \cup {FdHandle(S.path)} /\ UNCHANGED slips
  <2>1. \A h \in open' : h[1] \in TarHandles \/ HasHandle(opened, h)
    BY <1>2, <1>6, <1>11 DEF HasHandle
  <2>2. IsFiniteSet(open') /\ IsFiniteSet(slips')
    BY <1>2, <1>11, FiniteSteps
  <2>3. QED BY <1>1, <1>2, <1>4, <1>7, <1>8, <1>11, <2>1, <2>2, CcGoes
<1>12. QED BY <1>3, <1>9, <1>10, <1>11

\* One more of a sequence, after its beginning.
LEMMA PrefixGrows ==
  ASSUME NEW s, IsSequence(s), NEW n \in Nat, n + 1 <= Len(s)
  PROVE  Append(SubSeq(s, 1, n), s[n + 1]) = SubSeq(s, 1, n + 1)
<1> DEFINE a == SubSeq(s, 1, n)
           b == SubSeq(s, 1, n + 1)
           c == Append(a, s[n + 1])
<1>1. Len(s) \in Nat
  BY SequenceFacts
<1>2. IsSequence(a) /\ Len(a) = n /\ \A i \in 1 .. n : a[i] = s[i]
  <2>1. n \in 0 .. Len(s)
    BY <1>1
  <2>2. QED BY <2>1, PrefixSeq
<1>3. IsSequence(b) /\ Len(b) = n + 1 /\ \A i \in 1 .. n + 1 : b[i] = s[i]
  <2>1. n + 1 \in 0 .. Len(s)
    BY <1>1
  <2>2. QED BY <2>1, PrefixSeq
<1> HIDE DEF a, b
<1>4. IsSequence(c) /\ Len(c) = n + 1
  BY <1>2, AppendFacts
<1>5. \A i \in 1 .. n : c[i] = s[i]
  BY <1>2, AppendFacts
<1>6. c[n + 1] = s[n + 1]
  BY <1>2, AppendFacts
<1> HIDE DEF c
<1>7. \A i \in 1 .. Len(c) : c[i] = b[i]
  BY <1>3, <1>4, <1>5, <1>6
<1>8. c = b
  BY <1>3, <1>4, <1>7, SameSequence
<1>9. QED BY <1>8 DEF a, b, c

\* RemoveAt takes one element out, and moves up those behind it.
LEMMA RemoveFacts ==
  ASSUME NEW s, IsSequence(s), NEW k \in 1 .. Len(s)
  PROVE  /\ IsSequence(RemoveAt(s, k))
         /\ Len(RemoveAt(s, k)) = Len(s) - 1
         /\ \A j \in 1 .. Len(s) : j < k => RemoveAt(s, k)[j] = s[j]
         /\ \A j \in 1 .. Len(s) : j > k => RemoveAt(s, k)[j - 1] = s[j]
<1> DEFINE a == SubSeq(s, 1, k - 1)
           b == SubSeq(s, k + 1, Len(s))
           c == a \o b
<1>1. Len(s) \in Nat
  BY SequenceFacts
<1>2. IsSequence(a) /\ Len(a) = k - 1 /\ \A i \in 1 .. k - 1 : a[i] = s[i]
  <2>1. k - 1 \in 0 .. Len(s)
    BY <1>1
  <2>2. QED BY <2>1, PrefixSeq
<1>3. IsSequence(b) /\ Len(b) = Len(s) - k /\ \A i \in 1 .. Len(s) - k : b[i] = s[k + i]
  <2>1. k + 1 \in 1 .. Len(s) + 1 /\ Len(s) \in (k + 1) - 1 .. Len(s)
    BY <1>1
  <2>2. IsSequence(b)
    BY <2>1, SubFacts
  <2>3. Len(b) = Len(s) - (k + 1) + 1
    BY <2>1, SubFacts
  <2>4. \A i \in 1 .. Len(s) - (k + 1) + 1 : b[i] = s[(k + 1) + i - 1]
    BY <2>1, SubFacts
  <2> HIDE DEF b
  <2>5. Len(s) - (k + 1) + 1 = Len(s) - k
    BY <1>1
  <2>6. ASSUME NEW i \in 1 .. Len(s) - k
        PROVE  b[i] = s[k + i]
    <3>1. (k + 1) + i - 1 = k + i
      OBVIOUS
    <3>2. QED BY <2>4, <2>5, <3>1
  <2>7. QED BY <2>2, <2>3, <2>5, <2>6
<1> HIDE DEF a, b
<1>4. IsSequence(c)
  BY <1>2, <1>3, CatFacts
<1>5. Len(c) = Len(a) + Len(b)
  BY <1>2, <1>3, CatFacts
<1>6. \A i \in 1 .. Len(a) : c[i] = a[i]
  BY <1>2, <1>3, CatFacts
<1>7. \A i \in 1 .. Len(b) : c[Len(a) + i] = b[i]
  BY <1>2, <1>3, CatFacts
<1> HIDE DEF c
<1>8. Len(c) = Len(s) - 1
  BY <1>1, <1>2, <1>3, <1>5
<1>9. ASSUME NEW j \in 1 .. Len(s), j < k
      PROVE  c[j] = s[j]
  BY <1>1, <1>2, <1>6, <1>9
<1>10. ASSUME NEW j \in 1 .. Len(s), j > k
       PROVE  c[j - 1] = s[j]
  <2>1. j - k \in 1 .. Len(b) /\ Len(a) + (j - k) = j - 1 /\ k + (j - k) = j
    BY <1>1, <1>2, <1>3, <1>10
  <2>2. c[Len(a) + (j - k)] = b[j - k] /\ b[j - k] = s[k + (j - k)]
    BY <1>3, <1>7, <2>1
  <2>3. QED BY <2>1, <2>2
<1>11. RemoveAt(s, k) = c
  BY DEF RemoveAt, a, b, c
<1>12. QED BY <1>4, <1>8, <1>9, <1>10, <1>11

LEMMA LdReadStep ==
  ASSUME PInv, LdRead
  PROVE  PInv'
<1>1. cmd.op \in {"cc", "run"} /\ cmd.at = "load" /\ Within /\ UNCHANGED tree
  BY DEF LdRead, CcAt
<1>2. /\ SessionOK(S) /\ LoadedOK(S) /\ IsFiniteSet(open) /\ IsFiniteSet(slips) /\ WellFormed(tree')
      /\ \A h \in open : h[1] \in TarHandles \/ HasHandle(S, h)
  BY <1>1, CcHas DEF PlaceOK
<1> DEFINE k == Len(S.out) + 1
           lost == [S EXCEPT !.fd = IF k = 1 THEN "closed" ELSE "null"]
           v == [S EXCEPT !.out = Append(@, S.data[k])]
<1>3. PICK r \in Outcomes :
        /\ Suffers(r, "read")
        /\ \/ fatal(lost) /\ open' = open \ {FdHandle(S.path)}
           \/ fatal(S) /\ UNCHANGED open
           \/ /\ ~(k > Len(S.data)) /\ (k = 1 => IsSegment(S.data[1]) /\ S.data[1].k = 1)
              /\ Goes("load", v) /\ UNCHANGED <<open, slips>>
  BY DEF LdRead
<1>4. faults' \in 0 .. MaxFaults
  BY <1>3, SuffersIs DEF PInv
<1>5. DOMAIN lost = DOMAIN S /\ lost.path = S.path /\ lost.out = S.out /\ lost.data = S.data /\ lost.list = S.list
      /\ lost.fd # "open"
  BY <1>2 DEF SessionOK
<1>6. DOMAIN v = DOMAIN S /\ v.path = S.path /\ v.out = Append(S.out, S.data[k]) /\ v.data = S.data
      /\ v.list = S.list /\ v.fd = S.fd
  BY <1>2 DEF SessionOK
<1> HIDE DEF v, lost
<1>7. CASE fatal(lost) /\ open' = open \ {FdHandle(S.path)}
  <2>1. \A h \in open' : h[1] \in TarHandles \/ HasHandle(lost, h)
    BY <1>2, <1>5, <1>7 DEF HasHandle
  <2>2. IsFiniteSet(open')
    BY <1>2, <1>7, FiniteSteps
  <2>3. SessionOK(lost)
    BY <1>2, <1>5 DEF SessionOK
  <2>4. QED BY <1>1, <1>2, <1>4, <1>7, <2>1, <2>2, <2>3, CcFatal
<1>8. CASE fatal(S) /\ UNCHANGED open
  BY <1>1, <1>2, <1>4, <1>8, CcFatal
<1>9. CASE /\ ~(k > Len(S.data)) /\ (k = 1 => IsSegment(S.data[1]) /\ S.data[1].k = 1)
           /\ Goes("load", v) /\ UNCHANGED <<open, slips>>
  <2>1. IsSequence(S.out) /\ IsSequence(S.data) /\ Len(S.out) \in Nat /\ Len(S.data) \in Nat
    BY <1>2, SequenceFacts DEF SessionOK, IsContent
  <2>2. k <= Len(S.data) /\ k \in 1 .. Len(S.data)
    BY <1>9, <2>1
  <2>3. SessionOK(v)
    <3>1. IsBlock(S.data[k])
      BY <1>2, <2>2 DEF SessionOK, IsContent
    <3>2. IsContent(Append(S.out, S.data[k]))
      BY <1>2, <3>1, AppendContent DEF SessionOK
    <3>3. QED BY <1>2, <1>6, <3>2 DEF SessionOK
  <2>4. Len(v.out) = k
    BY <1>6, <2>1, AppendFacts
  <2>5. v.out = SubSeq(v.data, 1, Len(v.out))
    <3>1. S.out = SubSeq(S.data, 1, Len(S.out))
      BY <1>2 DEF LoadedOK
    <3>2. Append(SubSeq(S.data, 1, Len(S.out)), S.data[Len(S.out) + 1]) = SubSeq(S.data, 1, Len(S.out) + 1)
      BY <2>1, <2>2, PrefixGrows
    <3>3. QED BY <1>6, <2>4, <3>1, <3>2
  <2>6. IsSegment(v.data[1]) /\ v.data[1].k = 1
    <3>1. k = 1 \/ S.out # << >>
      BY <2>1
    <3>2. QED BY <1>2, <1>6, <1>9, <3>1 DEF LoadedOK
  <2>7. PlaceOK(cmd.op, "load", v)
    BY <1>6, <2>2, <2>4, <2>5, <2>6 DEF PlaceOK, LoadedOK
  <2>8. \A h \in open' : h[1] \in TarHandles \/ HasHandle(v, h)
    BY <1>2, <1>6, <1>9 DEF HasHandle
  <2>9. QED BY <1>1, <1>2, <1>4, <1>9, <2>3, <2>7, <2>8, CcGoes
<1>10. QED BY <1>3, <1>7, <1>8, <1>9

LEMMA LdDoneStep ==
  ASSUME PInv, LdDone
  PROVE  PInv'
<1>1. cmd.op \in {"cc", "run"} /\ cmd.at = "load" /\ Within /\ UNCHANGED <<tree, slips>> /\ open' = open \ {FdHandle(S.path)}
  BY DEF LdDone, CcAt
<1>2. /\ SessionOK(S) /\ LoadedOK(S) /\ IsFiniteSet(open) /\ IsFiniteSet(slips) /\ WellFormed(tree')
      /\ \A h \in open : h[1] \in TarHandles \/ HasHandle(S, h)
  BY <1>1, CcHas DEF PlaceOK
<1> DEFINE v == [S EXCEPT !.fd = "null", !.mem = {}]
<1>3. Goes("user", v) /\ S.out # << >> /\ Len(S.out) = 3 + S.data[1].of.relocs
  BY DEF LdDone, ToRead
<1>4. faults' \in 0 .. MaxFaults
  BY DEF LdDone, Quietly, PInv, TypeOK
<1>5. DOMAIN v = DOMAIN S /\ v.path = S.path /\ v.out = S.out /\ v.data = S.data /\ v.list = S.list /\ v.fd = "null"
  BY <1>2 DEF SessionOK
<1> HIDE DEF v
<1>6. SessionOK(v) /\ PlaceOK(cmd.op, "user", v)
  BY <1>2, <1>3, <1>5 DEF SessionOK, PlaceOK, LoadedOK
<1>7. \A h \in open' : h[1] \in TarHandles \/ HasHandle(v, h)
  BY <1>1, <1>2, <1>5 DEF HasHandle
<1>8. IsFiniteSet(open') /\ IsFiniteSet(slips')
  BY <1>1, <1>2, FiniteSteps
<1>9. QED BY <1>1, <1>2, <1>3, <1>4, <1>6, <1>7, <1>8, CcGoes

\* What the user's program has of the session at each of its steps.
LEMMA UserHas ==
  ASSUME PInv, CcAt("user"), Within
  PROVE  /\ cmd.op \in {"cc", "run"} /\ cmd.at = "user" /\ S.fd = "null" /\ SessionOK(S) /\ PlaceOK(cmd.op, "user", S)
         /\ IsSequence(S.list) /\ Len(S.list) \in Nat /\ DOMAIN S.list = 1 .. Len(S.list)
         /\ IsFiniteSet(open) /\ IsFiniteSet(slips) /\ WellFormed(tree)
         /\ \A h \in open : h[1] \in TarHandles \/ \E k \in 1 .. Len(S.list) : h = UserHandle(S.list[k])
<1>1. cmd.op \in {"cc", "run"} /\ cmd.at = "user"
  BY DEF CcAt
<1>2. /\ SessionOK(S) /\ PlaceOK(cmd.op, "user", S) /\ IsFiniteSet(open) /\ IsFiniteSet(slips) /\ WellFormed(tree)
      /\ \A h \in open : h[1] \in TarHandles \/ HasHandle(S, h)
  BY <1>1, CcHas
<1>3. S.fd = "null" /\ IsSequence(S.list)
  BY <1>2 DEF PlaceOK, SessionOK
<1>4. Len(S.list) \in Nat /\ DOMAIN S.list = 1 .. Len(S.list)
  BY <1>3, SequenceFacts
<1>5. QED BY <1>1, <1>2, <1>3, <1>4 DEF HasHandle

\* The program's handles change, and nothing else that matters to the session.
LEMMA UserGoes ==
  ASSUME PInv, CcAt("user"), Within, UNCHANGED tree, NEW at \in {"user", "leave"}, NEW v, Goes(at, v),
         DOMAIN v = DOMAIN S, v.path = S.path, v.out = S.out, v.data = S.data, v.fd = S.fd, IsSequence(v.list),
         IsFiniteSet(open'), IsFiniteSet(slips'), faults' \in 0 .. MaxFaults,
         \A h \in open' : h[1] \in TarHandles \/ \E k \in 1 .. Len(v.list) : h = UserHandle(v.list[k])
  PROVE  PInv'
<1>1. SessionOK(v) /\ PlaceOK(cmd.op, at, v)
  BY UserHas DEF SessionOK, PlaceOK, LoadedOK
<1>2. \A h \in open' : h[1] \in TarHandles \/ HasHandle(v, h)
  BY DEF HasHandle
<1>3. QED BY <1>1, <1>2, UserHas, CcGoes

LEMMA UserOpenStep ==
  ASSUME PInv, UserOpen
  PROVE  PInv'
<1>1. CcAt("user") /\ Within /\ UNCHANGED <<tree, slips>>
  BY DEF UserOpen
<1>2. PICK h \in Handles, r \in Outcomes :
        /\ Suffers(r, "user open")
        /\ \/ UNCHANGED <<cmd, open>>
           \/ /\ Goes("user", [S EXCEPT !.list = <<h>> \o @, !.mem = @ \cup {h}])
              /\ open' = open \cup {UserHandle(h)}
  BY DEF UserOpen
<1>3. faults' \in 0 .. MaxFaults
  BY <1>2, SuffersIs DEF PInv
<1>4. CASE UNCHANGED <<cmd, open>>
  <2>1. S' = S /\ HasOut' = HasOut
    BY <1>4 DEF S, HasOut, Line
  <2>2. CcOK'
    BY <1>1, <1>4, <2>1 DEF PInv, CcOK, InSession, SessionOK, PlaceOK, LoadedOK
  <2>3. \A g \in open' : g[1] \in TarHandles \/ Owned(g)'
    <3>1. InSession'
      BY <1>1, <1>4, UserHas DEF InSession
    <3>2. \A g \in open' : g[1] \in TarHandles \/ \E k \in 1 .. Len(S'.list) : g = UserHandle(S'.list[k])
      BY <1>1, <1>4, <2>1, UserHas
    <3>3. QED BY <3>1, <3>2 DEF Owned, HasHandle, UserHandle
  <2>4. QED BY <1>1, <1>3, <1>4, <2>2, <2>3, UserHas, CcCommand
<1>5. CASE /\ Goes("user", [S EXCEPT !.list = <<h>> \o @, !.mem = @ \cup {h}])
           /\ open' = open \cup {UserHandle(h)}
  <2> DEFINE list == <<h>> \o S.list
             v == [S EXCEPT !.list = list, !.mem = @ \cup {h}]
  <2>1. /\ DOMAIN v = DOMAIN S /\ v.path = S.path /\ v.out = S.out /\ v.data = S.data /\ v.fd = S.fd /\ v.list = list
        /\ Goes("user", v)
    BY <1>1, <1>5, UserHas DEF SessionOK
  <2>2. IsSequence(S.list) /\ Len(S.list) \in Nat /\ IsSequence(<<h>>) /\ Len(<<h>>) = 1 /\ <<h>>[1] = h
    BY <1>1, UserHas, OneFacts
  <2>3. IsSequence(list)
    BY <2>2, CatFacts
  <2>4. Len(list) = 1 + Len(S.list)
    BY <2>2, CatFacts
  <2>5. \A k \in 1 .. 1 : list[k] = <<h>>[k]
    BY <2>2, CatFacts
  <2>6. \A k \in 1 .. Len(S.list) : list[1 + k] = S.list[k]
    BY <2>2, CatFacts
  <2> HIDE DEF list, v
  <2>7. \A g \in open' : g[1] \in TarHandles \/ \E k \in 1 .. Len(list) : g = UserHandle(list[k])
    <3>1. 1 \in 1 .. Len(list) /\ list[1] = h
      BY <2>2, <2>4, <2>5
    <3>2. \A k \in 1 .. Len(S.list) : 1 + k \in 1 .. Len(list)
      BY <2>2, <2>4
    <3>3. \A g \in open : g[1] \in TarHandles \/ \E k \in 1 .. Len(S.list) : g = UserHandle(S.list[k])
      BY <1>1, UserHas
    <3>4. QED BY <1>5, <2>6, <3>1, <3>2, <3>3
  <2>8. IsFiniteSet(open') /\ IsFiniteSet(slips')
    BY <1>1, <1>5, UserHas, FiniteSteps
  <2>9. QED BY <1>1, <1>3, <2>1, <2>3, <2>7, <2>8, UserGoes
<1>6. QED BY <1>2, <1>4, <1>5

LEMMA UserCloseStep ==
  ASSUME PInv, UserClose
  PROVE  PInv'
<1>1. CcAt("user") /\ Within /\ UNCHANGED tree /\ Quietly
  BY DEF UserClose
<1>2. PICK k \in DOMAIN S.list :
        /\ \E at \in {"leave", "user"} : Goes(at, [S EXCEPT !.list = RemoveAt(@, k), !.mem = @ \ {S.list[k]}])
        /\ open' = open \ {UserHandle(S.list[k])}
        /\ Slip("freed handle") \/ UNCHANGED slips
  BY DEF UserClose
<1>3. faults' \in 0 .. MaxFaults
  BY <1>1 DEF Quietly, PInv, TypeOK
<1> DEFINE list == RemoveAt(S.list, k)
           v == [S EXCEPT !.list = list, !.mem = @ \ {S.list[k]}]
<1>4. /\ DOMAIN v = DOMAIN S /\ v.path = S.path /\ v.out = S.out /\ v.data = S.data /\ v.fd = S.fd /\ v.list = list
      /\ \E at \in {"leave", "user"} : Goes(at, v)
  BY <1>1, <1>2, UserHas DEF SessionOK
<1>5. IsSequence(S.list) /\ Len(S.list) \in Nat /\ k \in 1 .. Len(S.list)
  BY <1>1, UserHas
<1>6. IsSequence(list)
  BY <1>5, RemoveFacts
<1>7. Len(list) = Len(S.list) - 1
  BY <1>5, RemoveFacts
<1>8. \A j \in 1 .. Len(S.list) : j < k => list[j] = S.list[j]
  BY <1>5, RemoveFacts
<1>9. \A j \in 1 .. Len(S.list) : j > k => list[j - 1] = S.list[j]
  BY <1>5, RemoveFacts
<1> HIDE DEF list, v
<1>10. \A g \in open' : g[1] \in TarHandles \/ \E i \in 1 .. Len(list) : g = UserHandle(list[i])
  <2>1. ASSUME NEW j \in 1 .. Len(S.list), j # k
        PROVE  \E i \in 1 .. Len(list) : list[i] = S.list[j]
    <3>1. CASE j < k
      <4>1. j \in 1 .. Len(list)
        BY <1>5, <1>7, <3>1
      <4>2. QED BY <1>8, <3>1, <4>1
    <3>2. CASE j > k
      <4>1. j - 1 \in 1 .. Len(list)
        BY <1>5, <1>7, <3>2
      <4>2. QED BY <1>9, <3>2, <4>1
    <3>3. QED BY <1>5, <2>1, <3>1, <3>2
  <2>2. \A g \in open : g[1] \in TarHandles \/ \E j \in 1 .. Len(S.list) : g = UserHandle(S.list[j])
    BY <1>1, UserHas
  <2>3. ASSUME NEW g \in open', g[1] \notin TarHandles
        PROVE  \E i \in 1 .. Len(list) : g = UserHandle(list[i])
    <3>1. g \in open /\ g # UserHandle(S.list[k])
      BY <1>2
    <3>2. PICK j \in 1 .. Len(S.list) : g = UserHandle(S.list[j])
      BY <2>2, <2>3, <3>1
    <3>3. PICK i \in 1 .. Len(list) : list[i] = S.list[j]
      BY <2>1, <3>1, <3>2
    <3>4. QED BY <3>2, <3>3
  <2>4. QED BY <2>3
<1>11. IsFiniteSet(open') /\ IsFiniteSet(slips')
  <2>1. IsFiniteSet(slips) /\ IsFiniteSet(slips \cup {<<"freed handle", cmd.op>>}) /\ IsFiniteSet(open')
    BY <1>1, <1>2, UserHas, FiniteSteps
  <2>2. QED BY <1>2, <2>1 DEF Slip
<1>12. QED BY <1>1, <1>3, <1>4, <1>6, <1>10, <1>11, UserGoes

LEMMA UserPlainStep ==
  ASSUME PInv, UserFree \/ UserLeaves
  PROVE  PInv'
<1>1. CcAt("user") /\ Within /\ UNCHANGED <<tree, open>> /\ Quietly
  BY DEF UserFree, UserLeaves
<1>2. faults' \in 0 .. MaxFaults
  BY <1>1 DEF Quietly, PInv, TypeOK
<1>3. IsFiniteSet(open') /\ IsSequence(S.list)
  BY <1>1, UserHas
<1>4. \A h \in open' : h[1] \in TarHandles \/ \E k \in 1 .. Len(S.list) : h = UserHandle(S.list[k])
  BY <1>1, UserHas
<1>5. CASE UserFree
  <2>1. PICK h : Goes("user", [S EXCEPT !.mem = @ \ {h}, !.freed = @ \cup {h}])
    BY <1>5 DEF UserFree
  <2> DEFINE v == [S EXCEPT !.mem = @ \ {h}, !.freed = @ \cup {h}]
  <2>2. /\ DOMAIN v = DOMAIN S /\ v.path = S.path /\ v.out = S.out /\ v.data = S.data /\ v.fd = S.fd /\ v.list = S.list
        /\ Goes("user", v)
    BY <1>1, <2>1, UserHas DEF SessionOK
  <2> HIDE DEF v
  <2>3. IsFiniteSet(slips')
    BY <1>1, <1>5, UserHas DEF UserFree
  <2>4. QED BY <1>1, <1>2, <1>3, <1>4, <2>2, <2>3, UserGoes
<1>6. CASE UserLeaves
  <2>1. \/ Goes("leave", S) /\ UNCHANGED slips
        \/ fatal(S)
    BY <1>6 DEF UserLeaves
  <2>2. Goes("leave", S) /\ IsFiniteSet(slips')
    BY <1>1, <2>1, UserHas, FatalIs
  <2>3. QED BY <1>1, <1>2, <1>3, <1>4, <2>2, UserGoes
<1>7. QED BY <1>5, <1>6

LEMMA CcLeaveStep ==
  ASSUME PInv, CcLeave
  PROVE  PInv'
<1>1. cmd.op \in {"cc", "run"} /\ cmd.at = "leave" /\ Within
  BY DEF CcLeave, CcAt
<1>2. /\ SessionOK(S) /\ IsFiniteSet(open) /\ IsFiniteSet(slips) /\ WellFormed(tree)
      /\ \A h \in open : h[1] \in TarHandles \/ HasHandle(S, h)
  BY <1>1, CcHas
<1>3. DOMAIN cmd' = DOMAIN cmd /\ cmd'.op = cmd.op /\ cmd'.line = cmd.line /\ cmd'.at = "done"
  BY DEF CcLeave, PInv, CmdOK
<1>4. PICK wrong \in SUBSET {"closed twice", "closed unopened", "freed handle"} : slips' = slips \cup {<<w, cmd.op>> : w \in wrong}
  BY DEF CcLeave
<1>5. IsFiniteSet(slips')
  <2> DEFINE all == ((slips \cup {<<"closed twice", cmd.op>>}) \cup {<<"closed unopened", cmd.op>>}) \cup {<<"freed handle", cmd.op>>}
  <2>1. IsFiniteSet(all)
    BY <1>2, FiniteSteps
  <2>2. slips' \subseteq all
    BY <1>4
  <2> HIDE DEF all
  <2>3. QED BY <2>1, <2>2, FS_Subset
<1>6. faults' \in 0 .. MaxFaults
  BY SuffersIs DEF CcLeave, PInv
<1>7. WellFormed(tree')
  <2>1. tree' = tree \/ tree' = Stored(tree, S.path, S.out)
    BY DEF CcLeave
  <2>2. IsContent(S.out) /\ WellFormed(tree)
    BY <1>2 DEF SessionOK
  <2>3. WellFormed(Stored(tree, S.path, S.out))
    BY <2>2, StoredOK
  <2>4. QED BY <2>1, <2>2, <2>3
<1>8. open' = open \ ((IF S.fd = "open" THEN {FdHandle(S.path)} ELSE {}) \cup {UserHandle(h) : h \in ToSet(S.list)})
  BY DEF CcLeave
<1>9. IsFiniteSet(open')
  BY <1>2, <1>8, FiniteSteps
<1>10. \A h \in open' : h[1] \in TarHandles
  <2>1. DOMAIN S.list = 1 .. Len(S.list)
    BY <1>2, SequenceFacts DEF SessionOK
  <2>2. \A k \in 1 .. Len(S.list) : S.list[k] \in ToSet(S.list)
    BY <2>1 DEF ToSet
  <2>3. QED BY <1>2, <1>8, <2>2 DEF HasHandle
<1>11. CcOK'
  BY <1>3 DEF CcOK, InSession
<1>12. QED BY <1>1, <1>3, <1>5, <1>6, <1>7, <1>9, <1>10, <1>11, CcCommand

LEMMA CcStepOK ==
  ASSUME PInv, CcStep \/ UserStep
  PROVE  PInv'
BY CcStartStep, CcReadStep, CcCompileStep, CcCreateStep, CcWriteStep, CcSealStep, RunAsCmdStep, LdOpenStep, LdReadStep,
   LdDoneStep, CcLeaveStep, UserOpenStep, UserCloseStep, UserPlainStep DEF CcStep, UserStep
-----------------------------------------------------------------------------
(* The invariant, and what follows from it. *)

\* A step that changes nothing.
LEMMA Stutter ==
  ASSUME PInv, UNCHANGED vars
  PROVE  PInv'
<1>1. /\ scene' = scene /\ sound' = sound /\ tree' = tree /\ mounted' = mounted /\ sh_pwd' = sh_pwd /\ cmd' = cmd
      /\ open' = open /\ slips' = slips /\ faults' = faults /\ before' = before /\ left' = left
  BY DEF vars
<1>2. (TypeOK /\ CmdOK /\ PwdOK /\ MountOK)'
  BY <1>1 DEF PInv, TypeOK, CmdOK, PwdOK, MountOK, At, Line
<1>3. CopyOK' /\ CleanOK'
  BY <1>1 DEF PInv, CopyOK, CleanOK, Copying, At, Frames
<1>4. TarOK'
  BY <1>1 DEF PInv, TarOK, Creating, Reading, At, Line, CreateOK, Cwd
<1>5. CcOK'
  <2>1. S' = S /\ HasOut' = HasOut
    BY <1>1 DEF S, HasOut, Line
  <2>2. QED BY <1>1, <2>1 DEF PInv, CcOK, InSession, SessionOK, PlaceOK, LoadedOK
<1>6. HandlesOK'
  BY <1>1 DEF PInv, HandlesOK, Owned, HasHandle, At, TarHandle, Copying, In, Out, Frames, DirHandle, InSession, S, FdHandle,
              UserHandle, Handle
<1>7. QED BY <1>2, <1>3, <1>4, <1>5, <1>6 DEF PInv

\* Every step keeps the invariant.
LEMMA NextStep ==
  PInv /\ [Next]_vars => PInv'
<1> SUFFICES ASSUME PInv, [Next]_vars PROVE PInv'
  OBVIOUS
<1>1. CASE Type
  BY <1>1, TypeStep
<1>2. CASE BootMount \/ BootAnswer \/ Reset
  BY <1>2, BootStep, ResetStep
<1>3. CASE ShellStep
  BY <1>3, ReturnStep, CdStep, MountStep, StopStep DEF ShellStep
<1>4. CASE FileStep
  BY <1>4, FileStepOK
<1>5. CASE TarStep
  BY <1>5, TarStepOK
<1>6. CASE CcStep \/ UserStep
  BY <1>6, CcStepOK
<1>7. CASE UNCHANGED vars
  BY <1>7, Stutter
<1>8. QED BY <1>1, <1>2, <1>3, <1>4, <1>5, <1>6, <1>7 DEF Next, Work

\* The invariant holds throughout.
LEMMA Invariance ==
  Spec => []PInv
<1>1. Init => PInv
  BY InitInv
<1>2. PInv /\ [Next]_vars => PInv'
  BY NextStep
<1>3. QED BY <1>1, <1>2, PTL DEF Spec

\* The variables have their types, and what the commands do to the tree, wherever one fails or is cut off,
\* leaves a tree: every path leads through directories.
THEOREM TypeCorrect ==
  Spec => []TypeOK
<1>1. PInv => TypeOK
  BY DEF PInv
<1>2. QED BY <1>1, Invariance, PTL

\* A program is started only when all that the header of its file announces was loaded as it is in the file.
THEOREM RunCorrect ==
  Spec => []RunsOnlyLoaded
<1>1. PInv => RunsOnlyLoaded
  <2> SUFFICES ASSUME PInv, At("run", "user") PROVE RunsOnlyLoaded
    BY DEF RunsOnlyLoaded
  <2> DEFINE n == 3 + S.data[1].of.relocs
             image == Image(S.data[1].of)
  <2>1. cmd.op = "run" /\ cmd.at = "user"
    BY DEF At
  <2>2. SessionOK(S) /\ LoadedOK(S) /\ S.out # << >> /\ Len(S.out) = n
    BY <2>1, CcHas DEF PlaceOK
  <2>3. IsSequence(S.out) /\ IsSequence(S.data) /\ Len(S.out) \in Nat /\ Len(S.data) \in Nat /\ Len(S.out) >= 1
    BY <2>2, SequenceFacts, FrontFacts DEF SessionOK, IsContent
  <2>4. S.data # << >> /\ IsSegment(S.data[1]) /\ S.data[1].k = 1 /\ Len(S.data) >= n /\ S.out = SubSeq(S.data, 1, n)
    BY <2>2, <2>3 DEF LoadedOK
  <2>5. IsWhole(S.data) => S.out = image
    <3>1. DOMAIN image = 1 .. n /\ image = [k \in 1 .. n |-> image[k]] /\ n \in Nat
      BY <2>2, <2>3 DEF Image
    <3>2. IsSequence(image) /\ Len(image) = n
      BY <3>1, OfFunction
    <3>3. SubSeq(image, 1, Len(image)) = image
      BY <3>2, WholePrefix
    <3>4. IsWhole(S.data) => SubSeq(image, 1, Len(image)) = SubSeq(S.data, 1, Len(image))
      BY DEF IsWhole, IsPrefix
    <3>5. QED BY <2>4, <3>2, <3>3, <3>4
  <2>6. QED BY <2>4, <2>5 DEF RunsOnlyLoaded
<1>2. QED BY <1>1, Invariance, PTL
=============================================================================
