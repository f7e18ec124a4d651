--------------------------- MODULE FLVDemuxerProofs ---------------------------
(***************************************************************************)
(* What FLVDemuxer and MP4Remuxer guarantee for any source, any settings,  *)
(* any ends of the chunks and any number of seeks and continuations.       *)
(***************************************************************************)
EXTENDS FLVDemuxer, SequenceTheorems, NaturalsInduction, WellFoundedInduction, TLAPS

\* A sample in a queue or a stash, one or a silence behind it, one that is put out,
\* what is remembered of a segment.
Samples == [tag: Nat \ {0}, dts: Int]
Frames == [tag: Nat, dts: Int]
Pieces == [tag: Nat, dts: Int, duration: Int, original: Int]
Infos == [begin: Int, originalBegin: Int, last: Pieces]

\* The remuxer, and what a step puts out.
Tracks ==
  [meta: Nat, mp3: BOOLEAN, next: Int, stash: Seq(Samples),
   infos: [segments: Seq(Infos), location: Nat]]
Remuxers == [base: Int, audio: Tracks, video: Tracks]
Events ==
  [msg: {"mediainfo", "error"}] \cup [msg: {"init"}, type: Types, tag: Nat]
    \cup [msg: {"media"}, type: Types, samples: Seq(Pieces)]

\* The demuxer.
Queues == [has: BOOLEAN, told: BOOLEAN, made: BOOLEAN, codec: BOOLEAN]
MediaInfos ==
  [has: [Types -> {"null", "yes", "no"}], codec: [Types -> BOOLEAN], mime: SUBSET Types,
   metadata: BOOLEAN]
Demuxers ==
  [tracks: [Types -> Queues], queues: [Types -> Seq(Samples)], dispatch: BOOLEAN, info: MediaInfos]

TypeInv ==
  /\ source \in Sources /\ pos \in Nat \ {0} /\ demux \in Demuxers /\ remux \in Remuxers

\* Between chunks and parts, little is kept back.
KeptInv ==
  stage # "chunk" /\ InitialDispatched(demux) /\ demux.dispatch =>
    \A t \in Types : remux[t].meta # None => Len(demux.queues[t]) <= 1

-----------------------------------------------------------------------------
(* Numbers and functions. *)

\* A nonempty set of naturals has a least element.
LEMMA LeastNat ==
  ASSUME NEW S, S \subseteq Nat, S # {}
  PROVE  \E x \in S : \A y \in S : x <= y
<1>1. PICK x \in S : \A y \in S : ~(<<y, x>> \in OpToRel(<, Nat))
  BY NatLessThanWellFounded, WFMin
<1>2. \A y \in S : ~(y < x)
  BY <1>1 DEF OpToRel
<1>3. QED
  BY <1>2

\* The value of F at a place depends only on what it is given for places of a
\* smaller measure.
Descends(S, T, F, measure) ==
  /\ F \in [[S -> T] -> [S -> T]] /\ measure \in [S -> Nat]
  /\ \A g, h \in [S -> T] : \A x \in S :
       (\A y \in S : measure[y] < measure[x] => g[y] = h[y]) => F[g][x] = F[h][x]

\* A functional whose value at a place depends only on what it is given for
\* places of a smaller measure has a fixpoint.
LEMMA Fixpoint ==
  ASSUME NEW S, NEW T, T # {}, NEW F, NEW measure, Descends(S, T, F, measure)
  PROVE  \E f \in [S -> T] : f = F[f]
<1>0. /\ F \in [[S -> T] -> [S -> T]] /\ measure \in [S -> Nat]
      /\ \A g, h \in [S -> T] : \A x \in S :
           (\A y \in S : measure[y] < measure[x] => g[y] = h[y]) => F[g][x] = F[h][x]
  BY DEF Descends
<1> USE <1>0
<1> DEFINE Upto(g, n) == \A x \in S : measure[x] <= n => g[x] = F[g][x]
           Good(n) == \E g \in [S -> T] : Upto(g, n)
<1>1. ASSUME NEW n \in Nat, NEW g \in [S -> T], NEW h \in [S -> T], Upto(g, n), Upto(h, n)
      PROVE  \A x \in S : measure[x] <= n => g[x] = h[x]
  <2> DEFINE Bad == {m \in Nat : \E x \in S : m = measure[x] /\ m <= n /\ g[x] # h[x]}
  <2>1. SUFFICES ASSUME Bad # {} PROVE FALSE
    OBVIOUS
  <2>2. PICK m \in Bad : \A k \in Bad : m <= k
    BY <2>1, LeastNat
  <2>3. PICK x \in S : m = measure[x] /\ m <= n /\ g[x] # h[x]
    BY <2>2
  <2>4. ASSUME NEW y \in S, measure[y] < measure[x] PROVE g[y] = h[y]
    <3>1. measure[y] \in Nat /\ m \in Nat
      BY <2>2
    <3>2. measure[y] \notin Bad
      BY <2>2, <2>3, <2>4, <3>1
    <3>3. QED
      BY <2>3, <2>4, <3>1, <3>2
  <2>5. F[g][x] = F[h][x]
    BY <2>4
  <2>6. QED
    BY <1>1, <2>3, <2>5
<1>2. Good(0)
  <2>1. PICK t \in T : TRUE
    OBVIOUS
  <2> DEFINE g == [x \in S |-> t]
  <2>2. g \in [S -> T] /\ F[g] \in [S -> T]
    OBVIOUS
  <2>3. ASSUME NEW x \in S, measure[x] <= 0 PROVE F[g][x] = F[F[g]][x]
    <3>1. \A y \in S : ~(measure[y] < measure[x])
      BY <2>3
    <3>2. QED
      BY <2>2, <3>1
  <2>4. QED
    BY <2>2, <2>3
<1>3. ASSUME NEW n \in Nat, Good(n) PROVE Good(n + 1)
  <2>1. PICK g \in [S -> T] : Upto(g, n)
    BY <1>3
  <2>2. F[g] \in [S -> T]
    OBVIOUS
  <2>3. ASSUME NEW x \in S, measure[x] <= n + 1 PROVE F[g][x] = F[F[g]][x]
    <3>1. ASSUME NEW y \in S, measure[y] < measure[x] PROVE g[y] = F[g][y]
      <4>1. measure[y] \in Nat /\ measure[x] \in Nat
        OBVIOUS
      <4>2. measure[y] <= n
        BY <2>3, <3>1, <4>1
      <4>3. QED
        BY <2>1, <4>2
    <3>2. QED
      BY <2>2, <3>1
  <2>4. QED
    BY <2>2, <2>3
<1>4. \A n \in Nat : Good(n)
  <2> DEFINE Bad == {n \in Nat : ~Good(n)}
  <2> HIDE DEF Good
  <2>1. SUFFICES ASSUME Bad # {} PROVE FALSE
    OBVIOUS
  <2>2. PICK n \in Bad : \A m \in Bad : n <= m
    BY <2>1, LeastNat
  <2>3. n # 0
    BY <1>2
  <2>4. n - 1 \in Nat /\ Good(n - 1)
    BY <2>2, <2>3
  <2>5. Good((n - 1) + 1)
    BY <1>3, <2>4
  <2>6. QED
    BY <2>5
<1> DEFINE upto == [n \in Nat |-> CHOOSE g \in [S -> T] : Upto(g, n)]
           f == [x \in S |-> upto[measure[x]][x]]
<1>5. \A n \in Nat : upto[n] \in [S -> T] /\ Upto(upto[n], n)
  BY <1>4
<1> HIDE DEF upto
<1>6. f \in [S -> T]
  BY <1>5
<1>7. ASSUME NEW x \in S PROVE f[x] = F[f][x]
  <2>1. f[x] = F[upto[measure[x]]][x]
    BY <1>5
  <2>2. ASSUME NEW y \in S, measure[y] < measure[x] PROVE upto[measure[x]][y] = f[y]
    <3>1. measure[y] \in Nat /\ measure[x] \in Nat /\ measure[y] <= measure[x]
      BY <2>2
    <3>2. Upto(upto[measure[x]], measure[y]) /\ Upto(upto[measure[y]], measure[y])
      <4>1. \A z \in S : measure[z] \in Nat
        OBVIOUS
      <4>2. \A z \in S : measure[z] <= measure[y] => measure[z] <= measure[x]
        BY <3>1, <4>1
      <4>3. QED
        BY <1>5, <3>1, <4>2
    <3>3. upto[measure[x]] \in [S -> T] /\ upto[measure[y]] \in [S -> T]
      BY <1>5, <3>1
    <3> HIDE DEF f
    <3>4. upto[measure[x]][y] = upto[measure[y]][y]
      <4>1. \A z \in S : measure[z] <= measure[y] => upto[measure[x]][z] = upto[measure[y]][z]
        BY <1>1, <3>1, <3>2, <3>3
      <4>2. QED
        BY <3>1, <4>1
    <3>5. QED
      BY <3>4 DEF f
  <2>3. upto[measure[x]] \in [S -> T]
    BY <1>5
  <2> HIDE DEF f
  <2>4. F[upto[measure[x]]][x] = F[f][x]
    BY <1>6, <2>2, <2>3
  <2>5. QED
    BY <2>1, <2>4
<1>8. F[f] = f
  <2>1. F[f] \in [S -> T]
    BY <1>6
  <2> HIDE DEF f
  <2>2. QED
    BY <1>6, <1>7, <2>1
<1>9. QED
  BY <1>6, <1>8

-----------------------------------------------------------------------------
(* Sequences of sequences. *)

\* One round of FlattenSeq, for a sequence p.
Joined(p, f) == [i \in 1 .. Len(p) |-> IF i = 1 THEN p[i] ELSE f[i - 1] \o p[i]]

\* FlattenSeq goes by these rounds.
LEMMA FlattenRounds ==
  ASSUME NEW S, NEW p \in Seq(Seq(S)), Len(p) # 0
  PROVE  \E f \in [1 .. Len(p) -> Seq(S)] : f = Joined(p, f) /\ FlattenSeq(p) = f[Len(p)]
<1> DEFINE D == 1 .. Len(p)
           T == Seq(S)
           F == [f \in [D -> T] |-> Joined(p, f)]
           size == [i \in D |-> i]
           flat == CHOOSE f : f = Joined(p, f)
<1>0. Len(p) \in Nat \ {0} /\ \A i \in D : p[i] \in T /\ (i # 1 => i - 1 \in D)
  OBVIOUS
<1>1. F \in [[D -> T] -> [D -> T]]
  <2>1. ASSUME NEW f \in [D -> T], NEW i \in D
        PROVE  (IF i = 1 THEN p[i] ELSE f[i - 1] \o p[i]) \in T
    <3>1. CASE i = 1
      BY <1>0, <3>1
    <3>2. CASE i # 1
      <4>1. f[i - 1] \in T /\ p[i] \in T
        BY <1>0, <3>2
      <4>2. QED
        BY <3>2, <4>1, ConcatProperties
    <3>3. QED
      BY <3>1, <3>2
  <2>2. QED
    BY <2>1 DEF Joined
<1>2. ASSUME NEW g \in [D -> T], NEW h \in [D -> T], NEW x \in D,
             \A y \in D : size[y] < size[x] => g[y] = h[y]
      PROVE  F[g][x] = F[h][x]
  <2>1. x # 1 => g[x - 1] = h[x - 1]
    BY <1>0, <1>2
  <2>2. QED
    BY <2>1 DEF Joined
<1>3. \E f \in [D -> T] : f = F[f]
  <2>1. size \in [D -> Nat] /\ T # {}
    OBVIOUS
  <2> HIDE DEF F, D, T, size
  <2>2. Descends(D, T, F, size)
    BY <1>1, <1>2, <2>1 DEF Descends
  <2>3. QED
    BY <2>1, <2>2, Fixpoint
<1>4. flat = Joined(p, flat)
  <2>1. PICK f \in [D -> T] : f = Joined(p, f)
    BY <1>3
  <2>2. QED
    BY <2>1
<1>5. FlattenSeq(p) = flat[Len(p)]
  BY <1>0 DEF FlattenSeq, Joined
<1> HIDE DEF flat
<1>6. \A i \in D : flat[i] = IF i = 1 THEN p[i] ELSE flat[i - 1] \o p[i]
  <2>1. \A i \in D : Joined(p, flat)[i] = IF i = 1 THEN p[i] ELSE flat[i - 1] \o p[i]
    BY DEF Joined
  <2>2. QED
    BY <1>4, <2>1
<1>7. \A i \in D : flat[i] \in T
  <2> DEFINE Bad == {i \in D : flat[i] \notin T}
  <2>1. SUFFICES ASSUME Bad # {} PROVE FALSE
    OBVIOUS
  <2>2. Bad \subseteq Nat
    OBVIOUS
  <2>3. PICK i \in Bad : \A j \in Bad : i <= j
    BY <2>1, <2>2, LeastNat
  <2>4. i \in D /\ i # 1 /\ i - 1 \in D /\ p[i] \in T
    BY <1>0, <1>6, <2>3
  <2>5. flat[i - 1] \in T
    BY <2>3, <2>4
  <2>6. flat[i] = flat[i - 1] \o p[i]
    BY <1>6, <2>4
  <2>7. flat[i] \in T
    BY <2>4, <2>5, <2>6, ConcatProperties
  <2>8. QED
    BY <2>3, <2>7
<1>8. flat \in [D -> T]
  <2>1. Joined(p, flat) = [i \in D |-> Joined(p, flat)[i]]
    BY DEF Joined
  <2>2. QED
    BY <1>4, <1>7, <2>1
<1>9. QED
  BY <1>4, <1>5, <1>8

\* Of nothing, and of one sequence more.
LEMMA FlattenNothing == FlattenSeq(<<>>) = <<>>
BY DEF FlattenSeq

LEMMA FlattenAppend ==
  ASSUME NEW S, NEW p \in Seq(Seq(S)), NEW s \in Seq(S)
  PROVE  FlattenSeq(Append(p, s)) = FlattenSeq(p) \o s
<1> DEFINE q == Append(p, s)
           n == Len(p)
<1>0. n \in Nat /\ q \in Seq(Seq(S)) /\ Len(q) = n + 1 /\ q[n + 1] = s /\ \A i \in 1 .. n : q[i] = p[i]
  OBVIOUS
<1> HIDE DEF q
<1>1. PICK g \in [1 .. n + 1 -> Seq(S)] : g = Joined(q, g) /\ FlattenSeq(q) = g[n + 1]
  BY <1>0, FlattenRounds
<1>2. \A i \in 1 .. n + 1 : g[i] = IF i = 1 THEN q[i] ELSE g[i - 1] \o q[i]
  <2>1. \A i \in 1 .. n + 1 : Joined(q, g)[i] = IF i = 1 THEN q[i] ELSE g[i - 1] \o q[i]
    BY <1>0 DEF Joined
  <2>2. QED
    BY <1>1, <2>1
<1>3. CASE n = 0
  <2>1. p = <<>> /\ n + 1 = 1
    BY <1>3
  <2>2. FlattenSeq(q) = s
    BY <1>0, <1>1, <1>2, <1>3
  <2>3. FlattenSeq(p) = <<>>
    BY <2>1, FlattenNothing
  <2>4. QED
    BY <2>2, <2>3 DEF q
<1>4. CASE n # 0
  <2>1. PICK f \in [1 .. n -> Seq(S)] : f = Joined(p, f) /\ FlattenSeq(p) = f[n]
    BY <1>4, FlattenRounds
  <2>2. \A i \in 1 .. n : f[i] = IF i = 1 THEN p[i] ELSE f[i - 1] \o p[i]
    <3>1. \A i \in 1 .. n : Joined(p, f)[i] = IF i = 1 THEN p[i] ELSE f[i - 1] \o p[i]
      BY DEF Joined
    <3>2. QED
      BY <2>1, <3>1
  <2>3. \A i \in 1 .. n : g[i] = f[i]
    <3> DEFINE Bad == {i \in 1 .. n : g[i] # f[i]}
    <3>1. SUFFICES ASSUME Bad # {} PROVE FALSE
      OBVIOUS
    <3>2. PICK i \in Bad : \A j \in Bad : i <= j
      <4>1. Bad \subseteq Nat
        OBVIOUS
      <4>2. QED
        BY <3>1, <4>1, LeastNat
    <3>3. i \in 1 .. n /\ i \in 1 .. n + 1 /\ q[i] = p[i]
      BY <1>0
    <3>4. i # 1
      BY <1>2, <2>2, <3>2, <3>3
    <3>5. i - 1 \in 1 .. n /\ i - 1 \notin Bad
      BY <3>2, <3>3, <3>4
    <3>6. g[i - 1] = f[i - 1]
      BY <3>5
    <3>7. g[i] = g[i - 1] \o q[i] /\ f[i] = f[i - 1] \o p[i]
      BY <1>2, <2>2, <3>3, <3>4
    <3>8. QED
      BY <3>2, <3>3, <3>6, <3>7
  <2>4. n + 1 \in 1 .. n + 1 /\ n + 1 # 1 /\ (n + 1) - 1 = n /\ n \in 1 .. n
    BY <1>0, <1>4
  <2>5. FlattenSeq(q) = g[n] \o s
    BY <1>0, <1>1, <1>2, <2>4
  <2>6. QED
    BY <2>1, <2>3, <2>4, <2>5 DEF q
<1>5. QED
  BY <1>3, <1>4

\* It is a sequence, and of a concatenation the concatenation.
LEMMA FlattenType ==
  ASSUME NEW S, NEW p \in Seq(Seq(S))
  PROVE  FlattenSeq(p) \in Seq(S)
<1>1. CASE Len(p) = 0
  <2>1. p = <<>>
    BY <1>1
  <2>2. <<>> \in Seq(S)
    OBVIOUS
  <2>3. QED
    BY <2>1, <2>2, FlattenNothing, Zenon
<1>2. CASE Len(p) # 0
  <2>1. PICK f \in [1 .. Len(p) -> Seq(S)] : FlattenSeq(p) = f[Len(p)]
    BY <1>2, FlattenRounds
  <2>2. Len(p) \in 1 .. Len(p)
    BY <1>2
  <2>3. QED
    BY <2>1, <2>2
<1>3. QED
  BY <1>1, <1>2

\* A sequence that is not empty is its front with its last appended.
LEMMA FrontLast ==
  ASSUME NEW S, NEW q \in Seq(S), q # <<>>
  PROVE  /\ Front(q) \in Seq(S) /\ Len(Front(q)) = Len(q) - 1
         /\ \A i \in 1 .. Len(q) - 1 : Front(q)[i] = q[i]
         /\ Last(q) \in S /\ q = Append(Front(q), Last(q))
<1>0. Len(q) \in Nat \ {0} /\ \A i \in 1 .. Len(q) : q[i] \in S
  OBVIOUS
<1>1. /\ Front(q) \in Seq(S) /\ Len(Front(q)) = Len(q) - 1
      /\ \A i \in 1 .. Len(q) - 1 : Front(q)[i] = q[i]
  <2>1. \A i \in 1 .. Len(q) - 1 : q[i] \in S
    BY <1>0
  <2>2. PICK n \in Nat : n = Len(q) - 1
    BY <1>0
  <2>3. \A i \in 1 .. n : q[i] \in S
    BY <2>1, <2>2
  <2>4. /\ SubSeq(q, 1, n) \in Seq(S) /\ Len(SubSeq(q, 1, n)) = IF 1 <= n THEN n - 1 + 1 ELSE 0
        /\ \A i \in 1 .. n - 1 + 1 : SubSeq(q, 1, n)[i] = q[1 + i - 1]
    BY <2>3, SubSeqProperties
  <2>5. Len(SubSeq(q, 1, n)) = n
    BY <2>4
  <2>6. \A i \in 1 .. n : SubSeq(q, 1, n)[i] = q[i]
    BY <2>4
  <2>7. QED
    BY <2>2, <2>4, <2>5, <2>6 DEF Front
<1>2. Last(q) \in S
  BY <1>0 DEF Last
<1>3. q = Append(Front(q), Last(q))
  <2>1. /\ Append(Front(q), Last(q)) \in Seq(S) /\ Len(Append(Front(q), Last(q))) = Len(q)
        /\ \A i \in 1 .. Len(q) : Append(Front(q), Last(q))[i] = q[i]
    BY <1>0, <1>1, <1>2 DEF Last
  <2>2. QED
    BY <2>1, SeqEqual
<1>4. QED
  BY <1>1, <1>2, <1>3

\* What holds of the empty sequence, and of one with an element appended if it
\* holds of it without, holds of all.
LEMMA SeqInduction ==
  ASSUME NEW S, NEW G, <<>> \in G,
         \A u \in Seq(S) : u \in G => \A x \in S : Append(u, x) \in G
  PROVE  Seq(S) \subseteq G
<1> DEFINE Bad == {n \in Nat : \E r \in Seq(S) : Len(r) = n /\ r \notin G}
<1>1. Bad = {}
  <2>1. SUFFICES ASSUME Bad # {} PROVE FALSE
    OBVIOUS
  <2>2. PICK n \in Bad : \A m \in Bad : n <= m
    BY <2>1, LeastNat
  <2>3. PICK r \in Seq(S) : Len(r) = n /\ r \notin G
    BY <2>2
  <2>4. r # <<>>
    BY <2>3
  <2>5. Front(r) \in Seq(S) /\ Len(Front(r)) = n - 1 /\ Last(r) \in S /\ r = Append(Front(r), Last(r))
    BY <2>3, <2>4, FrontLast
  <2>6. n \in Nat /\ Len(Front(r)) \in Nat /\ Len(Front(r)) < n
    BY <2>2, <2>5
  <2>7. Len(Front(r)) \notin Bad
    BY <2>2, <2>6
  <2>8. Front(r) \in G
    BY <2>5, <2>6, <2>7
  <2>9. QED
    BY <2>3, <2>5, <2>8
<1>2. \A r \in Seq(S) : Len(r) \in Nat
  OBVIOUS
<1>3. QED
  BY <1>1, <1>2

LEMMA FlattenConcat ==
  ASSUME NEW S, NEW p \in Seq(Seq(S)), NEW q \in Seq(Seq(S))
  PROVE  FlattenSeq(p \o q) = FlattenSeq(p) \o FlattenSeq(q)
<1> DEFINE G == {r \in Seq(Seq(S)) : FlattenSeq(p \o r) = FlattenSeq(p) \o FlattenSeq(r)}
<1>0. FlattenSeq(p) \in Seq(S)
  BY FlattenType
<1>1. <<>> \in G
  <2>1. p \o <<>> = p /\ FlattenSeq(p) \o <<>> = FlattenSeq(p) /\ <<>> \in Seq(Seq(S))
    BY <1>0
  <2>2. QED
    BY <2>1, FlattenNothing
<1>2. ASSUME NEW u \in Seq(Seq(S)), u \in G, NEW x \in Seq(S) PROVE Append(u, x) \in G
  <2>1. p \o Append(u, x) = Append(p \o u, x) /\ p \o u \in Seq(Seq(S)) /\ Append(u, x) \in Seq(Seq(S))
    OBVIOUS
  <2>2. FlattenSeq(p \o Append(u, x)) = FlattenSeq(p \o u) \o x
    BY <2>1, FlattenAppend
  <2>3. FlattenSeq(Append(u, x)) = FlattenSeq(u) \o x
    BY FlattenAppend
  <2>4. FlattenSeq(u) \in Seq(S)
    BY FlattenType
  <2>5. (FlattenSeq(p) \o FlattenSeq(u)) \o x = FlattenSeq(p) \o (FlattenSeq(u) \o x)
    BY <1>0, <2>4, ConcatAssociative
  <2>6. QED
    BY <1>2, <2>1, <2>2, <2>3, <2>5
<1>3. Seq(Seq(S)) \subseteq G
  <2> HIDE DEF G
  <2>1. QED
    BY <1>1, <1>2, SeqInduction
<1>4. QED
  BY <1>3

-----------------------------------------------------------------------------
(* The list of segments. *)

\* The places of a window of the search, and one round of it with f for the
\* rounds that follow.
Windows(list) == (1 .. Len(list)) \X (0 .. Len(list))
Middle(w) == w[1] + (w[2] - w[1]) \div 2
Halve(list, original, f, w) ==
  IF w[1] > w[2] THEN 1
  ELSE IF \/ Middle(w) = Len(list)
          \/ original > list[Middle(w)].last.original /\ original < list[Middle(w) + 1].originalBegin
       THEN Middle(w)
  ELSE IF list[Middle(w)].originalBegin < original THEN f[<<Middle(w) + 1, w[2]>>]
  ELSE f[<<w[1], Middle(w) - 1>>]

\* A window has at least this many places.
Width(list) == [w \in Windows(list) |-> w[2] - w[1] + Len(list)]

\* The windows a round goes on with are narrower.
LEMMA Narrower ==
  ASSUME NEW list, Len(list) \in Nat \ {0}, NEW w \in Windows(list), w[1] <= w[2]
  PROVE  /\ Middle(w) \in 1 .. Len(list)
         /\ Middle(w) # Len(list) => /\ <<Middle(w) + 1, w[2]>> \in Windows(list)
                                          /\ Width(list)[<<Middle(w) + 1, w[2]>>] < Width(list)[w]
         /\ <<w[1], Middle(w) - 1>> \in Windows(list) /\ Width(list)[<<w[1], Middle(w) - 1>>] < Width(list)[w]
<1>1. w[1] \in 1 .. Len(list) /\ w[2] \in 0 .. Len(list) /\ Len(list) \in Nat
  BY DEF Windows
<1>2. Middle(w) \in Nat /\ w[1] <= Middle(w) /\ Middle(w) <= w[2]
  <2>1. ASSUME NEW a \in Nat, NEW b \in Nat, a <= b
        PROVE  a + (b - a) \div 2 \in Nat /\ a <= a + (b - a) \div 2 /\ a + (b - a) \div 2 <= b
    BY <2>1
  <2>2. w[1] \in Nat /\ w[2] \in Nat
    BY <1>1
  <2>3. QED
    BY <2>1, <2>2, Zenon DEF Middle
<1>3. ASSUME Middle(w) # Len(list) PROVE Middle(w) + 1 \in 1 .. Len(list)
  BY <1>1, <1>2, <1>3
<1>4. Middle(w) \in 1 .. Len(list) /\ Middle(w) - 1 \in 0 .. Len(list)
  BY <1>1, <1>2
<1>5. /\ w[2] - (Middle(w) + 1) + Len(list) < w[2] - w[1] + Len(list)
      /\ (Middle(w) - 1) - w[1] + Len(list) < w[2] - w[1] + Len(list)
  BY <1>1, <1>2, SMTT(30)
<1>6. <<w[1], Middle(w) - 1>> \in Windows(list)
  BY <1>1, <1>4 DEF Windows
<1>7. ASSUME Middle(w) # Len(list) PROVE <<Middle(w) + 1, w[2]>> \in Windows(list)
  BY <1>1, <1>3, <1>7 DEF Windows
<1>8. Width(list)[w] = w[2] - w[1] + Len(list)
      /\ Width(list)[<<w[1], Middle(w) - 1>>] = (Middle(w) - 1) - w[1] + Len(list)
  BY <1>6 DEF Width
<1>9. ASSUME Middle(w) # Len(list)
      PROVE  Width(list)[<<Middle(w) + 1, w[2]>>] = w[2] - (Middle(w) + 1) + Len(list)
  BY <1>7, <1>9 DEF Width
<1>10. QED
  BY <1>4, <1>5, <1>6, <1>7, <1>8, <1>9

\* A round ends at a place of the list or goes on with a narrower window.
LEMMA HalveRange ==
  ASSUME NEW list, Len(list) \in Nat \ {0}, NEW original, NEW w \in Windows(list), NEW f
  PROVE  \/ Halve(list, original, f, w) \in 1 .. Len(list)
         \/ \E v \in Windows(list) : Width(list)[v] < Width(list)[w] /\ Halve(list, original, f, w) = f[v]
<1>1. Len(list) \in Nat \ {0} /\ w[1] \in Nat /\ w[2] \in Nat
  BY SMTT(30) DEF Windows
<1>2. CASE w[1] > w[2]
  BY <1>1, <1>2 DEF Halve
<1>3. CASE ~(w[1] > w[2])
  <2>1. w[1] <= w[2]
    BY <1>1, <1>3
  <2>2. QED
    BY <1>3, <2>1, Narrower DEF Halve
<1>4. QED
  BY <1>2, <1>3

\* It asks what follows for narrower windows only.
LEMMA HalveLocal ==
  ASSUME NEW list, Len(list) \in Nat \ {0}, NEW original, NEW w \in Windows(list), NEW f, NEW g,
         \A v \in Windows(list) : Width(list)[v] < Width(list)[w] => f[v] = g[v]
  PROVE  Halve(list, original, f, w) = Halve(list, original, g, w)
<1>1. CASE w[1] > w[2]
  BY <1>1 DEF Halve
<1>2. CASE ~(w[1] > w[2])
  <2>1. w[1] <= w[2]
    BY <1>2 DEF Windows
  <2>2. QED
    BY <1>2, <2>1, Narrower DEF Halve
<1>3. QED
  BY <1>1, <1>2

\* The search goes by these rounds, to a place of the list.
LEMMA SegmentSearchRange ==
  ASSUME NEW list, Len(list) \in Nat \ {0}, NEW original
  PROVE  SegmentSearch(list, original)[<<1, Len(list)>>] \in 1 .. Len(list)
<1> DEFINE P == 1 .. Len(list)
           G(f) == [w \in Windows(list) |-> Halve(list, original, f, w)]
           F == [f \in [Windows(list) -> P] |-> G(f)]
           s == SegmentSearch(list, original)
<1>0. Len(list) \in Nat \ {0} /\ Width(list) \in [Windows(list) -> Nat] /\ P # {}
  <2>1. Len(list) \in Nat \ {0}
    OBVIOUS
  <2>2. ASSUME NEW w \in Windows(list) PROVE w[2] - w[1] + Len(list) \in Nat
    BY <2>1 DEF Windows
  <2>3. 1 \in P
    BY <2>1
  <2>4. QED
    BY <2>1, <2>2, <2>3 DEF Width
<1>1. F \in [[Windows(list) -> P] -> [Windows(list) -> P]]
  <2>1. ASSUME NEW f \in [Windows(list) -> P], NEW w \in Windows(list) PROVE Halve(list, original, f, w) \in P
    BY HalveRange
  <2>2. QED
    BY <2>1
<1>2. ASSUME NEW g \in [Windows(list) -> P], NEW h \in [Windows(list) -> P], NEW x \in Windows(list),
             \A y \in Windows(list) : Width(list)[y] < Width(list)[x] => g[y] = h[y]
      PROVE  F[g][x] = F[h][x]
  <2>1. Halve(list, original, g, x) = Halve(list, original, h, x)
    BY <1>2, HalveLocal
  <2>2. QED
    BY <2>1
<1>3. \E f \in [Windows(list) -> P] : f = F[f]
  <2> HIDE DEF F, P
  <2>1. Descends(Windows(list), P, F, Width(list))
    BY <1>0, <1>1, <1>2 DEF Descends
  <2>2. QED
    BY <1>0, <2>1, Fixpoint
<1>4. s = G(s)
  <2>1. PICK f \in [Windows(list) -> P] : f = G(f)
    BY <1>3
  <2>2. QED
    BY <2>1 DEF SegmentSearch, Halve, Middle, Windows
<1> HIDE DEF s
<1>5. \A w \in Windows(list) : s[w] = Halve(list, original, s, w)
  BY <1>4
<1> DEFINE Bad == {n \in Nat : \E w \in Windows(list) : n = Width(list)[w] /\ s[w] \notin P}
<1>6. Bad = {}
  <2>1. SUFFICES ASSUME Bad # {} PROVE FALSE
    OBVIOUS
  <2>2. PICK n \in Bad : \A m \in Bad : n <= m
    BY <2>1, LeastNat
  <2>3. PICK w \in Windows(list) : n = Width(list)[w] /\ s[w] \notin P
    BY <2>2
  <2>4. PICK v \in Windows(list) : Width(list)[v] < Width(list)[w] /\ s[w] = s[v]
    BY <1>5, <2>3, HalveRange
  <2>5. Width(list)[v] \in Bad
    BY <1>0, <2>3, <2>4
  <2>6. Width(list)[v] \in Nat /\ n \in Nat /\ n <= Width(list)[v] /\ Width(list)[v] < n
    BY <1>0, <2>2, <2>3, <2>4, <2>5
  <2>7. QED
    BY <2>6
<1>7. <<1, Len(list)>> \in Windows(list)
  BY <1>0 DEF Windows
<1>8. s[<<1, Len(list)>>] \in P
  BY <1>0, <1>6, <1>7
<1>9. QED
  BY <1>8 DEF s

\* What a function makes of every element, and all of that in a row.
Mapped(g, u) == [i \in DOMAIN u |-> g[u[i]]]
FlatMap(g, u) == FlattenSeq(Mapped(g, u))
Lists(T) == Seq(T)
Maps(g, S, T) == g \in [S -> T]

LEMMA MappedConcat ==
  ASSUME NEW S, NEW T, NEW g, Maps(g, S, T), NEW u \in Seq(S), NEW v \in Seq(S)
  PROVE  /\ Mapped(g, u) \in Seq(T) /\ Mapped(g, v) \in Seq(T)
         /\ Mapped(g, u \o v) = Mapped(g, u) \o Mapped(g, v)
<1>1. ASSUME NEW w \in Seq(S)
      PROVE  /\ Mapped(g, w) \in Seq(T) /\ Len(Mapped(g, w)) = Len(w)
             /\ \A i \in 1 .. Len(w) : Mapped(g, w)[i] = g[w[i]]
  <2>1. DOMAIN w = 1 .. Len(w) /\ Len(w) \in Nat /\ \A i \in 1 .. Len(w) : g[w[i]] \in T
    BY <1>1 DEF Maps
  <2>2. QED
    BY <2>1 DEF Mapped
<1>2. u \o v \in Seq(S) /\ Len(u \o v) = Len(u) + Len(v) /\ Len(u) \in Nat /\ Len(v) \in Nat
  OBVIOUS
<1>3. PICK a \in Seq(T) : a = Mapped(g, u) /\ Len(a) = Len(u) /\ \A i \in 1 .. Len(u) : a[i] = g[u[i]]
  BY <1>1
<1>4. PICK b \in Seq(T) : b = Mapped(g, v) /\ Len(b) = Len(v) /\ \A i \in 1 .. Len(v) : b[i] = g[v[i]]
  BY <1>1
<1>5. PICK c \in Seq(T) :
        /\ c = Mapped(g, u \o v) /\ Len(c) = Len(u) + Len(v)
        /\ \A i \in 1 .. Len(u) + Len(v) : c[i] = g[(u \o v)[i]]
  BY <1>1, <1>2
<1>6. a \o b \in Seq(T) /\ Len(a \o b) = Len(c)
  <2>1. a \o b \in Seq(T) /\ Len(a \o b) = Len(a) + Len(b)
    OBVIOUS
  <2>2. Len(a) + Len(b) = Len(c)
    BY <1>3, <1>4, <1>5
  <2>3. QED
    BY <2>1, <2>2
<1>7. \A i \in 1 .. Len(c) : c[i] = (a \o b)[i]
  <2>1. SUFFICES ASSUME NEW i \in 1 .. Len(u) + Len(v) PROVE c[i] = (a \o b)[i]
    BY <1>5
  <2>2. CASE i <= Len(u)
    <3>1. i \in 1 .. Len(u) /\ (u \o v)[i] = u[i]
      BY <1>2, <2>2
    <3>2. (a \o b)[i] = a[i]
      BY <1>2, <1>3, <1>4, <3>1
    <3>3. QED
      BY <1>3, <1>5, <3>1, <3>2
  <2>3. CASE ~(i <= Len(u))
    <3>1. i - Len(u) \in 1 .. Len(v) /\ (u \o v)[i] = v[i - Len(u)]
      BY <1>2, <2>3
    <3>2. i - Len(a) \in 1 .. Len(b) /\ i - Len(a) = i - Len(u) /\ (a \o b)[i] = b[i - Len(a)]
      BY <1>2, <1>3, <1>4, <2>3
    <3>3. QED
      BY <1>4, <1>5, <3>1, <3>2
  <2>4. QED
    BY <2>2, <2>3
<1>8. c = a \o b
  BY <1>6, <1>7, SeqEqual
<1>9. QED
  BY <1>3, <1>4, <1>5, <1>8

LEMMA FlatMapConcat ==
  ASSUME NEW S, NEW T, NEW g, Maps(g, S, Lists(T)), NEW u \in Seq(S), NEW v \in Seq(S)
  PROVE  /\ FlatMap(g, u) \in Seq(T)
         /\ FlatMap(g, u \o v) = FlatMap(g, u) \o FlatMap(g, v)
<1>1. /\ Mapped(g, u) \in Seq(Lists(T)) /\ Mapped(g, v) \in Seq(Lists(T))
      /\ Mapped(g, u \o v) = Mapped(g, u) \o Mapped(g, v)
  BY MappedConcat
<1>2. Mapped(g, u) \in Seq(Seq(T)) /\ Mapped(g, v) \in Seq(Seq(T))
  BY <1>1 DEF Lists
<1>3. QED
  BY <1>1, <1>2, FlattenConcat, FlattenType DEF FlatMap

LEMMA FlatMapOne ==
  ASSUME NEW S, NEW T, NEW g, Maps(g, S, Lists(T)), NEW x \in S
  PROVE  FlatMap(g, <<>>) = <<>> /\ FlatMap(g, <<x>>) = g[x]
<1>1. Mapped(g, <<>>) = <<>>
  BY DEF Mapped
<1>2. Mapped(g, <<x>>) = Append(<<>>, g[x])
  <2>1. DOMAIN <<x>> = 1 .. 1 /\ <<x>>[1] = x
    OBVIOUS
  <2>2. Mapped(g, <<x>>) = <<g[x]>>
    BY <2>1 DEF Mapped
  <2>3. QED
    BY <2>2
<1>3. FlattenSeq(Append(<<>>, g[x])) = FlattenSeq(<<>>) \o g[x]
  <2>1. <<>> \in Seq(Seq(T)) /\ g[x] \in Seq(T)
    BY DEF Lists, Maps
  <2>2. QED
    BY <2>1, FlattenAppend
<1>4. <<>> \o g[x] = g[x]
  BY DEF Lists, Maps
<1>5. QED
  BY <1>1, <1>2, <1>3, <1>4, FlattenNothing DEF FlatMap

-----------------------------------------------------------------------------
(* Samples and their tags. *)

\* Anything that has a tag.
Tagged(S) == \A x \in S : x.tag \in Nat

TagOf(x) == IF x.tag = None THEN <<>> ELSE <<x.tag>>

LEMMA RealTagsMap ==
  ASSUME NEW S, Tagged(S), NEW g, g = [x \in S |-> TagOf(x)]
  PROVE  Maps(g, S, Lists(Nat)) /\ \A u \in Seq(S) : RealTags(u) = FlatMap(g, u)
<1>1. \A x \in S : TagOf(x) \in Seq(Nat)
  BY DEF TagOf, Tagged
<1>2. ASSUME NEW u \in Seq(S) PROVE RealTags(u) = FlatMap(g, u)
  <2>1. \A i \in DOMAIN u : g[u[i]] = IF u[i].tag = None THEN <<>> ELSE <<u[i].tag>>
    BY DEF TagOf
  <2>2. Mapped(g, u) = [i \in DOMAIN u |-> IF u[i].tag = None THEN <<>> ELSE <<u[i].tag>>]
    BY <2>1 DEF Mapped
  <2>3. QED
    BY <2>2 DEF RealTags, FlatMap
<1>3. QED
  BY <1>1, <1>2 DEF Lists, Maps

LEMMA RealTagsConcat ==
  ASSUME NEW S, Tagged(S), NEW u \in Seq(S), NEW v \in Seq(S)
  PROVE  /\ RealTags(u \o v) = RealTags(u) \o RealTags(v)
         /\ RealTags(u) \in Seq(Nat)
<1>1. PICK g : g = [x \in S |-> TagOf(x)]
  OBVIOUS
<1>2. Maps(g, S, Lists(Nat)) /\ \A w \in Seq(S) : RealTags(w) = FlatMap(g, w)
  BY <1>1, RealTagsMap
<1>3. FlatMap(g, u) \in Seq(Nat) /\ FlatMap(g, u \o v) = FlatMap(g, u) \o FlatMap(g, v)
  BY <1>2, FlatMapConcat
<1>4. u \o v \in Seq(S)
  OBVIOUS
<1>5. QED
  BY <1>2, <1>3, <1>4

LEMMA RealTagsOne ==
  ASSUME NEW x, x.tag \in Nat
  PROVE  RealTags(<<>>) = <<>> /\ RealTags(<<x>>) = TagOf(x)
<1> DEFINE S == {x}
<1>1. PICK g : g = [y \in S |-> TagOf(y)]
  OBVIOUS
<1>2. Tagged(S) /\ x \in S /\ <<x>> \in Seq(S) /\ <<>> \in Seq(S)
  BY DEF Tagged
<1>3. g[x] = TagOf(x)
  BY <1>1
<1> HIDE DEF S
<1>4. Maps(g, S, Lists(Nat)) /\ \A w \in Seq(S) : RealTags(w) = FlatMap(g, w)
  BY <1>1, <1>2, RealTagsMap
<1>5. FlatMap(g, <<>>) = <<>> /\ FlatMap(g, <<x>>) = g[x]
  BY <1>2, <1>4, FlatMapOne
<1>6. QED
  BY <1>2, <1>3, <1>4, <1>5

LEMMA RealTagsAppend ==
  ASSUME NEW S, Tagged(S), NEW u \in Seq(S), NEW x \in S
  PROVE  RealTags(Append(u, x)) = RealTags(u) \o TagOf(x)
<1>1. <<x>> \in Seq(S) /\ Append(u, x) = u \o <<x>>
  OBVIOUS
<1>2. RealTags(<<x>>) = TagOf(x)
  BY RealTagsOne DEF Tagged
<1>3. QED
  BY <1>1, <1>2, RealTagsConcat

LEMMA RealTagsNothing == RealTags(<<>>) = <<>>
<1>1. [tag |-> 1].tag \in Nat
  OBVIOUS
<1>2. QED
  BY <1>1, RealTagsOne

\* Silence has no tags, and frames have theirs.
LEMMA RealTagsSilence ==
  ASSUME NEW S, \A x \in S : x.tag = None, NEW u \in Seq(S)
  PROVE  RealTags(u) = <<>>
<1> DEFINE G == {r \in Seq(S) : RealTags(r) = <<>>}
<1>0. Tagged(S)
  BY DEF Tagged, None
<1>1. <<>> \in G
  BY RealTagsNothing
<1>2. ASSUME NEW r \in Seq(S), r \in G, NEW x \in S PROVE Append(r, x) \in G
  <2>1. RealTags(Append(r, x)) = <<>> \o <<>>
    BY <1>0, <1>2, RealTagsAppend DEF TagOf
  <2>2. QED
    BY <2>1
<1>3. Seq(S) \subseteq G
  <2> HIDE DEF G
  <2>1. QED
    BY <1>1, <1>2, SeqInduction
<1>4. QED
  BY <1>3

LEMMA RealTagsFrames ==
  ASSUME NEW S, \A x \in S : x.tag \in Nat \ {0}, NEW u \in Seq(S)
  PROVE  RealTags(u) = TagsOf(u)
<1> DEFINE G == {r \in Seq(S) : RealTags(r) = TagsOf(r)}
<1>0. Tagged(S)
  BY DEF Tagged
<1>1. <<>> \in G
  <2>1. TagsOf(<<>>) = <<>>
    BY DEF TagsOf
  <2>2. QED
    BY <2>1, RealTagsNothing
<1>2. ASSUME NEW r \in Seq(S), r \in G, NEW x \in S PROVE Append(r, x) \in G
  <2>1. RealTags(Append(r, x)) = TagsOf(r) \o <<x.tag>>
    BY <1>0, <1>2, RealTagsAppend DEF TagOf, None
  <2>2. TagsOf(Append(r, x)) = TagsOf(r) \o <<x.tag>>
    BY DEF TagsOf
  <2>3. QED
    BY <2>1, <2>2
<1>3. Seq(S) \subseteq G
  <2> HIDE DEF G
  <2>1. QED
    BY <1>1, <1>2, SeqInduction
<1>4. QED
  BY <1>3

\* The tags of sequences in a row.
LEMMA RealTagsFlatten ==
  ASSUME NEW S, Tagged(S), NEW p \in Seq(Seq(S))
  PROVE  RealTags(FlattenSeq(p)) = FlattenSeq([i \in 1 .. Len(p) |-> RealTags(p[i])])
<1> DEFINE L(q) == [i \in 1 .. Len(q) |-> RealTags(q[i])]
           G == {q \in Seq(Seq(S)) : L(q) \in Seq(Seq(Nat)) /\ RealTags(FlattenSeq(q)) = FlattenSeq(L(q))}
<1>1. <<>> \in G
  <2>1. L(<<>>) = <<>> /\ <<>> \in Seq(Seq(Nat)) /\ <<>> \in Seq(Seq(S))
    OBVIOUS
  <2>2. QED
    BY <2>1, FlattenNothing, RealTagsNothing
<1>2. ASSUME NEW q \in Seq(Seq(S)), q \in G, NEW s \in Seq(S) PROVE Append(q, s) \in G
  <2>1. Append(q, s) \in Seq(Seq(S)) /\ RealTags(s) \in Seq(Nat) /\ L(q) \in Seq(Seq(Nat))
    BY <1>2, RealTagsConcat
  <2>2. L(Append(q, s)) = Append(L(q), RealTags(s))
    OBVIOUS
  <2> HIDE DEF L
  <2>3. FlattenSeq(L(Append(q, s))) = FlattenSeq(L(q)) \o RealTags(s)
    BY <2>1, <2>2, FlattenAppend
  <2>4. FlattenSeq(Append(q, s)) = FlattenSeq(q) \o s /\ FlattenSeq(q) \in Seq(S)
    BY FlattenAppend, FlattenType
  <2>5. RealTags(FlattenSeq(q) \o s) = RealTags(FlattenSeq(q)) \o RealTags(s)
    BY <2>4, RealTagsConcat
  <2>6. Append(L(q), RealTags(s)) \in Seq(Seq(Nat))
    BY <2>1
  <2>7. QED
    BY <1>2, <2>1, <2>2, <2>3, <2>4, <2>5, <2>6
<1>3. Seq(Seq(S)) \subseteq G
  <2> HIDE DEF G
  <2>1. QED
    BY <1>1, <1>2, SeqInduction
<1>4. QED
  BY <1>3

-----------------------------------------------------------------------------
(* The list of segments. *)

LEMMA SearchType ==
  ASSUME NEW list \in Seq(Infos), NEW original \in Int
  PROVE  SearchNearestSegmentBefore(list, original) \in 0 .. Len(list)
<1>1. CASE list = <<>> \/ original < list[1].originalBegin
  <2>1. SearchNearestSegmentBefore(list, original) = 0
    BY <1>1 DEF SearchNearestSegmentBefore
  <2>2. QED
    BY <2>1
<1>2. CASE ~(list = <<>> \/ original < list[1].originalBegin)
  <2>1. Len(list) \in Nat \ {0}
    BY <1>2
  <2>2. SegmentSearch(list, original)[<<1, Len(list)>>] \in 1 .. Len(list)
    BY <2>1, SegmentSearchRange
  <2>3. QED
    BY <1>2, <2>1, <2>2 DEF SearchNearestSegmentBefore
<1>3. QED
  BY <1>1, <1>2

SegmentLists == [segments: Seq(Infos), location: Nat]

LEMMA AppendInfoType ==
  ASSUME NEW infos \in SegmentLists, NEW info \in Infos
  PROVE  AppendInfo(infos, info) \in SegmentLists
<1>1. infos.segments \in Seq(Infos) /\ info.originalBegin \in Int
  BY DEF SegmentLists, Infos
<1> DEFINE list == infos.segments
           before == SearchNearestSegmentBefore(list, info.originalBegin)
<1>2. before \in 0 .. Len(list) /\ Len(list) \in Nat
  BY <1>1, SearchType
<1>3. PICK at \in 1 .. Len(list) + 1 :
        AppendInfo(infos, info) = [segments |-> InsertAt(list, at, info), location |-> at]
  <2> DEFINE here == infos.location
             fits == /\ here \in DOMAIN list
                     /\ info.originalBegin >= list[here].last.original
                     /\ here < Len(list) => info.originalBegin < list[here + 1].originalBegin
             at == 1 + IF fits THEN here ELSE before
  <2>1. AppendInfo(infos, info) = [segments |-> InsertAt(list, at, info), location |-> at]
    BY DEF AppendInfo
  <2>2. DOMAIN list = 1 .. Len(list)
    BY <1>1
  <2>3. fits => here \in 1 .. Len(list)
    BY <2>2
  <2> HIDE DEF fits, before, list
  <2>4. at \in 1 .. Len(list) + 1
    BY <1>2, <2>3
  <2>5. QED
    BY <2>1, <2>4
<1>4. InsertAt(list, at, info) \in Seq(Infos)
  <2>1. PICK n \in Nat : n = at - 1 /\ n <= Len(list)
    BY <1>2
  <2>2. (\A i \in 1 .. n : list[i] \in Infos) /\ (\A i \in at .. Len(list) : list[i] \in Infos)
    BY <1>1, <1>2, <2>1
  <2>3. SubSeq(list, 1, n) \in Seq(Infos) /\ SubSeq(list, at, Len(list)) \in Seq(Infos)
    BY <1>2, <2>2, SubSeqProperties
  <2>4. <<info>> \in Seq(Infos)
    OBVIOUS
  <2>5. (SubSeq(list, 1, n) \o <<info>>) \o SubSeq(list, at, Len(list)) \in Seq(Infos)
    BY <2>3, <2>4, ConcatProperties
  <2>6. QED
    BY <2>1, <2>5 DEF InsertAt
<1>5. at \in Nat
  BY <1>2
<1>6. QED
  BY <1>3, <1>4, <1>5 DEF SegmentLists

-----------------------------------------------------------------------------
(* A batch. *)

LEMMA CorrectionType ==
  ASSUME NEW track \in Tracks, NEW original \in Int
  PROVE  DtsCorrection(track, original) \in Int
<1> DEFINE list == track.infos.segments
           before == SearchNearestSegmentBefore(list, original)
<1>1. list \in Seq(Infos) /\ track.next \in Int
  BY DEF Tracks
<1>2. before \in 0 .. Len(list)
  BY <1>1, SearchType
<1>3. CASE track.next \notin {Undefined, 0}
  <2>1. DtsCorrection(track, original) = original - track.next
    BY <1>3 DEF DtsCorrection
  <2>2. QED
    BY <1>1, <2>1
<1>4. CASE track.next \in {Undefined, 0} /\ before = 0
  <2>1. DtsCorrection(track, original) = 0
    BY <1>4 DEF DtsCorrection
  <2>2. QED
    BY <2>1
<1>5. CASE track.next \in {Undefined, 0} /\ before # 0
  <2>1. list[before] \in Infos
    BY <1>1, <1>2, <1>5
  <2>2. list[before].last \in Pieces
    BY <2>1 DEF Infos
  <2>3. /\ list[before].last.dts \in Int /\ list[before].last.duration \in Int
        /\ list[before].last.original \in Int
    BY <2>2 DEF Pieces
  <2> DEFINE last == list[before].last
             away == original - (last.original + last.duration)
  <2>4. DtsCorrection(track, original) =
          original - (last.dts + last.duration + IF away <= Tolerance THEN 0 ELSE away)
    BY <1>5 DEF DtsCorrection
  <2> HIDE DEF last
  <2>5. last.dts \in Int /\ last.duration \in Int /\ last.original \in Int
    BY <2>3 DEF last
  <2>6. QED
    BY <2>4, <2>5
<1>6. QED
  BY <1>3, <1>4, <1>5

LEMMA PiecesTagged == Tagged(Pieces) /\ Tagged(Frames) /\ Tagged(Samples)
BY DEF Tagged, Pieces, Frames, Samples

LEMMA SilenceFilled ==
  ASSUME NEW sample \in Pieces, NEW ref \in Nat \ {0}
  PROVE  /\ FillSilence(sample, ref) \in Seq(Pieces) /\ FillSilence(sample, ref) # <<>>
         /\ RealTags(FillSilence(sample, ref)) = TagOf(sample)
<1>1. sample.tag \in Nat /\ sample.dts \in Int /\ sample.duration \in Int /\ sample.original \in Int
  BY DEF Pieces
<1> DEFINE count == (10 * sample.duration - 1) \div ref
           at == [j \in 1 .. count + 1 |-> IF j > count THEN sample.dts + sample.duration
                                          ELSE (10 * sample.dts + j * ref + 5) \div 10]
           first == [sample EXCEPT !.duration = (ref + 5) \div 10]
           silence == [j \in 1 .. count |-> [tag |-> None, dts |-> at[j], duration |-> at[j + 1] - at[j],
                                             original |-> sample.original]]
           Silences == {x \in Pieces : x.tag = None}
<1>2. FillSilence(sample, ref) = <<first>> \o silence
  BY DEF FillSilence
<1>3. count \in Int
  BY <1>1
<1>4. first \in Pieces /\ first.tag = sample.tag
  <2>1. (ref + 5) \div 10 \in Int
    OBVIOUS
  <2>2. QED
    BY <2>1 DEF Pieces
<1>5. silence \in Seq(Silences)
  <2> HIDE DEF count
  <2>1. \A j \in 1 .. count + 1 : at[j] \in Int
    <3>1. ASSUME NEW j \in Int PROVE (10 * sample.dts + j * ref + 5) \div 10 \in Int
      <4>1. 10 * sample.dts + j * ref + 5 \in Int
        BY <1>1
      <4>2. QED
        BY <4>1
    <3>2. QED
      BY <1>1, <1>3, <3>1
  <2> HIDE DEF at
  <2>2. ASSUME NEW j \in 1 .. count
        PROVE  [tag |-> None, dts |-> at[j], duration |-> at[j + 1] - at[j],
                original |-> sample.original] \in Silences
    <3>1. j \in 1 .. count + 1 /\ j + 1 \in 1 .. count + 1
      BY <1>3
    <3>2. at[j] \in Int /\ at[j + 1] - at[j] \in Int
      BY <2>1, <3>1
    <3>3. QED
      BY <1>1, <3>2 DEF Pieces, None
  <2>3. CASE count \in Nat
    BY <2>2, <2>3
  <2>4. CASE count \notin Nat
    <3>1. 1 .. count = {}
      BY <1>3, <2>4
    <3>2. silence = <<>>
      BY <3>1
    <3>3. <<>> \in Seq(Silences)
      OBVIOUS
    <3>4. QED
      BY <3>2, <3>3, Zenon
  <2>5. QED
    BY <2>3, <2>4
<1> HIDE DEF first, silence
<1>6. silence \in Seq(Pieces) /\ RealTags(silence) = <<>>
  <2>1. silence \in Seq(Pieces)
    BY <1>5, SeqMonotonic
  <2>2. QED
    BY <1>5, <2>1, RealTagsSilence
<1>7. <<first>> \in Seq(Pieces) /\ RealTags(<<first>>) = TagOf(sample)
  BY <1>1, <1>4, RealTagsOne DEF TagOf
<1>8. RealTags(<<first>> \o silence) = TagOf(sample) \o <<>>
  <2>1. Tagged(Pieces)
    BY PiecesTagged
  <2>2. RealTags(<<first>> \o silence) = RealTags(<<first>>) \o RealTags(silence)
    BY <1>6, <1>7, <2>1, RealTagsConcat
  <2>3. QED
    BY <1>6, <1>7, <2>2
<1>9. <<first>> \o silence \in Seq(Pieces) /\ <<first>> \o silence # <<>>
  BY <1>4, <1>6
<1>10. QED
  BY <1>1, <1>2, <1>8, <1>9 DEF TagOf

\* One sample of a batch, with the silence behind it.
Piece(samples, base, correction, ref, fill, i, duration) ==
  LET sample == [tag |-> samples[i].tag, dts |-> samples[i].dts - base - correction,
                 duration |-> duration, original |-> samples[i].dts - base]
  IN  IF fill /\ 20 * duration > 3 * ref THEN FillSilence(sample, ref) ELSE <<sample>>

LEMMA PieceMade ==
  ASSUME NEW samples \in Seq(Frames), NEW base \in Int, NEW correction \in Int,
         NEW ref \in Nat \ {0}, NEW fill, NEW i \in 1 .. Len(samples), NEW duration \in Int
  PROVE  LET piece == Piece(samples, base, correction, ref, fill, i, duration)
         IN  /\ piece \in Seq(Pieces) /\ piece # <<>>
             /\ RealTags(piece) = TagOf(samples[i])
<1>1. samples[i].tag \in Nat /\ samples[i].dts \in Int
  <2>1. samples[i] \in Frames
    OBVIOUS
  <2>2. QED
    BY <2>1 DEF Frames
<1>2. PICK sample \in Pieces :
        sample = [tag |-> samples[i].tag, dts |-> samples[i].dts - base - correction,
                  duration |-> duration, original |-> samples[i].dts - base]
  <2>1. samples[i].dts - base - correction \in Int /\ samples[i].dts - base \in Int
    BY <1>1
  <2>2. QED
    BY <1>1, <2>1 DEF Pieces
<1>3. sample.tag = samples[i].tag
  BY <1>2
<1>4. CASE fill /\ 20 * duration > 3 * ref
  <2>1. Piece(samples, base, correction, ref, fill, i, duration) = FillSilence(sample, ref)
    BY <1>2, <1>4 DEF Piece
  <2>2. QED
    BY <1>3, <2>1, SilenceFilled DEF TagOf
<1>5. CASE ~(fill /\ 20 * duration > 3 * ref)
  <2>1. Piece(samples, base, correction, ref, fill, i, duration) = <<sample>>
    BY <1>2, <1>5 DEF Piece
  <2>2. RealTags(<<sample>>) = TagOf(samples[i])
    BY <1>1, <1>3, RealTagsOne DEF TagOf
  <2>3. <<sample>> \in Seq(Pieces) /\ <<sample>> # <<>>
    OBVIOUS
  <2>4. QED
    BY <2>1, <2>2, <2>3
<1>6. QED
  BY <1>4, <1>5

\* A batch becomes samples that can be put out, with the tags of the batch.
LEMMA BatchMade ==
  ASSUME NEW samples \in Seq(Frames), samples # <<>>, NEW follower \in Seq(Samples),
         NEW base \in Int, NEW correction \in Int, NEW ref \in Nat \ {0}, NEW fill
  PROVE  LET made == Mp4Samples(samples, follower, base, correction, ref, fill)
         IN  /\ made \in Seq(Pieces) /\ made # <<>>
             /\ RealTags(made) = RealTags(samples)
<1> DEFINE n == Len(samples)
           dts(s) == s.dts - base - correction
           piece(i, duration) == Piece(samples, base, correction, ref, fill, i, duration)
           until(i) == dts(samples[i + 1]) - dts(samples[i])
           ending == CASE follower # <<>> -> dts(follower[1]) - dts(samples[n])
                       [] follower = <<>> /\ n > 1 -> Last(piece(n - 1, until(n - 1))).duration
                       [] OTHER -> ref \div 10
           p == [i \in 1 .. n |-> piece(i, IF i < n THEN until(i) ELSE ending)]
<1>1. Mp4Samples(samples, follower, base, correction, ref, fill) = FlattenSeq(p)
  BY DEF Mp4Samples, Piece
<1>2. n \in Nat \ {0} /\ \A i \in 1 .. n : samples[i].dts \in Int
  <2>1. n \in Nat \ {0} /\ \A i \in 1 .. n : samples[i] \in Frames
    OBVIOUS
  <2>2. QED
    BY <2>1 DEF Frames
<1>3. \A i \in 1 .. n - 1 : until(i) \in Int
  <2>1. SUFFICES ASSUME NEW i \in 1 .. n - 1 PROVE until(i) \in Int
    OBVIOUS
  <2>2. samples[i].dts \in Int /\ samples[i + 1].dts \in Int
    BY <1>2
  <2>3. QED
    BY <2>2
<1> HIDE DEF until
<1>4. ending \in Int
  <2>1. CASE follower # <<>>
    <3>1. follower[1].dts \in Int
      <4>1. follower[1] \in Samples
        BY <2>1
      <4>2. QED
        BY <4>1 DEF Samples
    <3>2. ending = dts(follower[1]) - dts(samples[n])
      BY <2>1
    <3>3. QED
      <4>1. samples[n].dts \in Int
        BY <1>2
      <4>2. dts(follower[1]) - dts(samples[n]) \in Int
        <5>1. \A a, b \in Int : (a - base - correction) - (b - base - correction) \in Int
          OBVIOUS
        <5>2. QED
          BY <3>1, <4>1, <5>1, Zenon
      <4> HIDE DEF ending
      <4>3. QED
        BY <3>2, <4>2
  <2>2. CASE follower = <<>> /\ n > 1
    <3>1. n - 1 \in 1 .. Len(samples) /\ until(n - 1) \in Int
      BY <1>2, <1>3, <2>2
    <3>2. piece(n - 1, until(n - 1)) \in Seq(Pieces) /\ piece(n - 1, until(n - 1)) # <<>>
      BY <3>1, PieceMade
    <3>3. Last(piece(n - 1, until(n - 1))) \in Pieces
      BY <3>2, FrontLast
    <3>4. ending = Last(piece(n - 1, until(n - 1))).duration
      BY <2>2
    <3>5. QED
      BY <3>3, <3>4 DEF Pieces
  <2>3. CASE follower = <<>> /\ ~(n > 1)
    <3>1. ending = ref \div 10
      BY <2>3
    <3>2. QED
      BY <3>1
  <2>4. QED
    BY <2>1, <2>2, <2>3
<1> HIDE DEF ending
<1>5. \A i \in 1 .. n : (IF i < n THEN until(i) ELSE ending) \in Int
  BY <1>2, <1>3, <1>4
<1>6. \A i \in 1 .. n : p[i] \in Seq(Pieces) /\ p[i] # <<>> /\ RealTags(p[i]) = TagOf(samples[i])
  <2>1. SUFFICES ASSUME NEW i \in 1 .. n
                 PROVE  p[i] \in Seq(Pieces) /\ p[i] # <<>> /\ RealTags(p[i]) = TagOf(samples[i])
    OBVIOUS
  <2>2. PICK duration \in Int : p[i] = Piece(samples, base, correction, ref, fill, i, duration)
    BY <1>5
  <2>3. QED
    BY <2>2, PieceMade
<1>7. p \in Seq(Seq(Pieces)) /\ Len(p) = n /\ p # <<>>
  BY <1>2, <1>6
<1> HIDE DEF p
<1>8. FlattenSeq(p) \in Seq(Pieces)
  BY <1>7, FlattenType
<1>9. FlattenSeq(p) # <<>>
  <2>1. Front(p) \in Seq(Seq(Pieces)) /\ Last(p) \in Seq(Pieces) /\ p = Append(Front(p), Last(p))
    BY <1>7, FrontLast
  <2>2. FlattenSeq(p) = FlattenSeq(Front(p)) \o Last(p)
    BY <2>1, FlattenAppend
  <2>3. FlattenSeq(Front(p)) \in Seq(Pieces)
    BY <2>1, FlattenType
  <2>4. Last(p) # <<>>
    BY <1>2, <1>6, <1>7 DEF Last
  <2>5. FlattenSeq(Front(p)) \o Last(p) # <<>>
    BY <2>1, <2>3, <2>4, ConcatEqualIffEmpty
  <2>6. QED
    BY <2>2, <2>5
<1>10. RealTags(FlattenSeq(p)) = RealTags(samples)
  <2>1. Tagged(Pieces)
    BY PiecesTagged
  <2>2. RealTags(FlattenSeq(p)) = FlattenSeq([i \in 1 .. Len(p) |-> RealTags(p[i])])
    BY <1>7, <2>1, RealTagsFlatten
  <2>3. [i \in 1 .. Len(p) |-> RealTags(p[i])] =
          [i \in DOMAIN samples |-> IF samples[i].tag = None THEN <<>> ELSE <<samples[i].tag>>]
    <3>1. DOMAIN samples = 1 .. n
      OBVIOUS
    <3>2. QED
      BY <1>6, <1>7, <3>1 DEF TagOf
  <2>4. QED
    BY <2>2, <2>3 DEF RealTags
<1>11. QED
  BY <1>1, <1>8, <1>9, <1>10

LEMMA PrefixSilent ==
  ASSUME NEW r \in Remuxers, NEW type, NEW settings, NEW original \in Int
  PROVE  PrefixSilence(r, type, settings, original) \in Seq({x \in Frames : x.tag = None})
<1> DEFINE list == r.video.infos.segments
           before == SearchNearestSegmentBefore(list, original)
           F == {x \in Frames : x.tag = None}
<1>1. list \in Seq(Infos)
  BY DEF Remuxers, Tracks
<1>2. before \in 0 .. Len(list)
  BY <1>1, SearchType
<1>3. <<>> \in Seq(F)
  OBVIOUS
<1>4. CASE PrefixSilence(r, type, settings, original) = <<>>
  BY <1>3, <1>4, Zenon
<1>5. CASE PrefixSilence(r, type, settings, original) # <<>>
  <2>1. /\ before # 0
        /\ PrefixSilence(r, type, settings, original) = <<[tag |-> None, dts |-> list[before].begin]>>
    BY <1>5 DEF PrefixSilence
  <2>2. list[before] \in Infos
    BY <1>1, <1>2, <2>1
  <2>3. [tag |-> None, dts |-> list[before].begin] \in F
    BY <2>2 DEF Infos, Frames, None
  <2> HIDE DEF F
  <2>4. <<[tag |-> None, dts |-> list[before].begin]>> \in Seq(F)
    BY <2>3
  <2>5. QED
    BY <2>1, <2>4 DEF F
<1>6. QED
  BY <1>4, <1>5

LEMMA TrackOf ==
  ASSUME NEW r \in Remuxers, NEW type \in Types
  PROVE  r[type] \in Tracks /\ r.base \in Int /\ r[type].stash \in Seq(Samples)
BY DEF Remuxers, Types, Tracks

LEMMA TagsJoined ==
  ASSUME NEW u \in Seq(Samples), NEW v \in Seq(Samples)
  PROVE  TagsOf(u \o v) = TagsOf(u) \o TagsOf(v) /\ TagsOf(u) \in Seq(Nat) /\ RealTags(u) = TagsOf(u)
<1>1. Tagged(Samples) /\ \A x \in Samples : x.tag \in Nat \ {0}
  BY PiecesTagged DEF Samples
<1>2. u \o v \in Seq(Samples)
  OBVIOUS
<1>3. RealTags(u) = TagsOf(u) /\ RealTags(v) = TagsOf(v) /\ RealTags(u \o v) = TagsOf(u \o v)
  BY <1>1, <1>2, RealTagsFrames
<1>4. RealTags(u \o v) = RealTags(u) \o RealTags(v) /\ RealTags(u) \in Seq(Nat)
  BY <1>1, RealTagsConcat
<1>5. QED
  BY <1>3, <1>4

\* The frames of a batch and the one stashed before are put out in their order,
\* but for the last, which is stashed.
LEMMA TrackRemuxed ==
  ASSUME NEW r \in Remuxers, NEW type \in Types, NEW samples \in Seq(Samples), samples # <<>>,
         NEW settings
  PROVE  LET done == RemuxTrack(r, type, samples, settings)
         IN  /\ done.samples \in Seq(Pieces)
             /\ done.remuxer \in Remuxers
             /\ done.remuxer[type].meta = r[type].meta
             /\ \A u \in Types \ {type} : done.remuxer[u] = r[u]
             /\ RealTags(done.samples) \o TagsOf(done.remuxer[type].stash)
                  = TagsOf(r[type].stash \o samples)
<1> DEFINE track == r[type]
           stashed == IF Len(samples) > 1 THEN <<Last(samples)>> ELSE <<>>
           sent == track.stash \o (IF stashed # <<>> THEN Front(samples) ELSE samples)
           original == sent[1].dts - r.base
           correction == DtsCorrection(track, original)
           ref == IF type = "audio" THEN AudioRef ELSE VideoRef
           fill == IF type = "audio" /\ settings.fill /\ ~track.mp3 THEN TRUE ELSE FALSE
           prefix == PrefixSilence(r, type, settings, original)
           samples4 == Mp4Samples(prefix \o sent, stashed, r.base, correction, ref, fill)
           info == [begin |-> samples4[1].dts, originalBegin |-> samples4[1].original,
                    last |-> Last(samples4)]
           done == RemuxTrack(r, type, samples, settings)
<1>1. track \in Tracks /\ track.stash \in Seq(Samples) /\ r.base \in Int
  BY TrackOf
<1>2. /\ stashed \in Seq(Samples) /\ sent \in Seq(Samples) /\ sent # <<>>
      /\ sent \o stashed = track.stash \o samples
  <2>1. /\ Front(samples) \in Seq(Samples) /\ Len(Front(samples)) = Len(samples) - 1
        /\ Last(samples) \in Samples /\ samples = Append(Front(samples), Last(samples))
    BY FrontLast
  <2>2. CASE Len(samples) > 1
    <3>1. stashed = <<Last(samples)>> /\ sent = track.stash \o Front(samples)
      BY <2>2
    <3>2. Front(samples) # <<>>
      BY <2>1, <2>2
    <3>3. \A u, v \in Seq(Samples) : \A x \in Samples :
            (u \o v) \o <<x>> = u \o Append(v, x) /\ (v # <<>> => u \o v # <<>>)
      <4>1. SUFFICES ASSUME NEW u \in Seq(Samples), NEW v \in Seq(Samples), NEW x \in Samples
                     PROVE  (u \o v) \o <<x>> = u \o Append(v, x) /\ (v # <<>> => u \o v # <<>>)
        OBVIOUS
      <4>2. <<x>> \in Seq(Samples) /\ v \o <<x>> = Append(v, x)
        OBVIOUS
      <4>3. (u \o v) \o <<x>> = u \o (v \o <<x>>)
        BY <4>2, ConcatAssociative
      <4>4. v # <<>> => u \o v # <<>>
        BY ConcatEqualIffEmpty
      <4>5. QED
        BY <4>2, <4>3, <4>4
    <3>4. (track.stash \o Front(samples)) \o <<Last(samples)>> = track.stash \o samples
          /\ track.stash \o Front(samples) # <<>>
      <4>1. PICK v \in Seq(Samples) : v = Front(samples)
        BY <2>1
      <4>2. PICK x \in Samples : x = Last(samples)
        BY <2>1
      <4>3. samples = Append(v, x) /\ v # <<>>
        BY <2>1, <3>2, <4>1, <4>2
      <4>4. (track.stash \o v) \o <<x>> = track.stash \o Append(v, x) /\ track.stash \o v # <<>>
        BY <1>1, <3>3, <4>3
      <4>5. QED
        BY <4>1, <4>2, <4>3, <4>4
    <3>5. <<Last(samples)>> \in Seq(Samples) /\ track.stash \o Front(samples) \in Seq(Samples)
      BY <1>1, <2>1
    <3> HIDE DEF stashed, sent
    <3>6. QED
      BY <3>1, <3>4, <3>5
  <2>3. CASE ~(Len(samples) > 1)
    <3>1. stashed = <<>> /\ sent = track.stash \o samples
      BY <2>3
    <3>2. /\ track.stash \o samples \in Seq(Samples) /\ track.stash \o samples # <<>>
          /\ (track.stash \o samples) \o <<>> = track.stash \o samples
          /\ <<>> \in Seq(Samples)
      BY <1>1
    <3> HIDE DEF stashed, sent
    <3>3. QED
      BY <3>1, <3>2
  <2>4. QED
    BY <2>2, <2>3
<1> HIDE DEF stashed, sent
<1>3. original \in Int
  <2>1. sent[1] \in Samples
    BY <1>2
  <2>2. QED
    BY <1>1, <2>1 DEF Samples
<1> HIDE DEF original
<1>4. correction \in Int
  BY <1>1, <1>3, CorrectionType
<1>5. ref \in Nat \ {0}
  BY RemuxerAssumption
<1> HIDE DEF correction, ref, fill
<1>6. prefix \in Seq({x \in Frames : x.tag = None})
  BY <1>3, PrefixSilent
<1> HIDE DEF prefix
<1>7. prefix \in Seq(Frames) /\ RealTags(prefix) = <<>>
  <2> DEFINE F == {x \in Frames : x.tag = None}
  <2>1. F \subseteq Frames /\ \A x \in F : x.tag = None
    OBVIOUS
  <2>2. prefix \in Seq(F)
    BY <1>6
  <2> HIDE DEF F
  <2>3. QED
    BY <2>1, <2>2, SeqMonotonic, RealTagsSilence
<1>8. /\ sent \in Seq(Frames) /\ prefix \o sent \in Seq(Frames) /\ prefix \o sent # <<>>
  <2>1. Samples \subseteq Frames
    BY DEF Samples, Frames
  <2>2. sent \in Seq(Frames)
    BY <1>2, <2>1, SeqMonotonic
  <2>3. prefix \o sent # <<>>
    BY <1>2, <1>7, <2>2, ConcatEqualIffEmpty
  <2>4. QED
    BY <1>7, <2>2, <2>3
<1>9. RealTags(prefix \o sent) = TagsOf(sent)
  <2>1. Tagged(Frames)
    BY PiecesTagged
  <2>2. RealTags(prefix \o sent) = RealTags(prefix) \o RealTags(sent)
    BY <1>7, <1>8, <2>1, RealTagsConcat
  <2>3. RealTags(sent) = TagsOf(sent) /\ TagsOf(sent) \in Seq(Nat)
    BY <1>2, TagsJoined
  <2>4. <<>> \o TagsOf(sent) = TagsOf(sent)
    BY <2>3
  <2>5. QED
    BY <1>7, <2>2, <2>3, <2>4
<1>10. samples4 \in Seq(Pieces) /\ samples4 # <<>> /\ RealTags(samples4) = TagsOf(sent)
  <2>1. PICK batch \in Seq(Frames) : batch = prefix \o sent /\ batch # <<>>
    BY <1>8
  <2>2. LET made == Mp4Samples(batch, stashed, r.base, correction, ref, fill)
        IN  made \in Seq(Pieces) /\ made # <<>> /\ RealTags(made) = RealTags(batch)
    <3>1. \A base, c \in Int : \A x \in Nat \ {0} : \A f :
            LET made == Mp4Samples(batch, stashed, base, c, x, f)
            IN  made \in Seq(Pieces) /\ made # <<>> /\ RealTags(made) = RealTags(batch)
      BY <1>2, <2>1, BatchMade
    <3>2. QED
      BY <1>1, <1>4, <1>5, <3>1
  <2>3. QED
    BY <1>9, <2>1, <2>2
<1>11. /\ done.samples = samples4
       /\ done.remuxer = [r EXCEPT ![type].stash = stashed,
                                   ![type].next = info.last.dts + info.last.duration,
                                   ![type].infos = IF settings.live THEN @ ELSE AppendInfo(@, info)]
  BY DEF RemuxTrack, stashed, sent, original, correction, ref, fill, prefix
<1> HIDE DEF samples4, done
<1>12. info \in Infos /\ info.last.dts + info.last.duration \in Int
  <2>1. samples4[1] \in Pieces /\ Last(samples4) \in Pieces
    <3>1. Last(samples4) \in Pieces
      BY <1>10, FrontLast
    <3>2. QED
      BY <1>10, <3>1
  <2>2. /\ samples4[1].dts \in Int /\ samples4[1].original \in Int
        /\ Last(samples4).dts \in Int /\ Last(samples4).duration \in Int
    BY <2>1 DEF Pieces
  <2>3. QED
    BY <2>1, <2>2 DEF Infos
<1> HIDE DEF info
<1>13. track.infos \in SegmentLists
  BY <1>1 DEF Tracks, SegmentLists
<1>14. PICK infos \in SegmentLists : infos = IF settings.live THEN track.infos ELSE AppendInfo(track.infos, info)
  BY <1>12, <1>13, AppendInfoType
<1>15. PICK next \in Int : next = info.last.dts + info.last.duration
  BY <1>12
<1>16. done.remuxer = [r EXCEPT ![type].stash = stashed, ![type].next = next, ![type].infos = infos]
  BY <1>11, <1>14, <1>15
<1>17. /\ done.remuxer \in Remuxers /\ done.remuxer[type].meta = r[type].meta
       /\ done.remuxer[type].stash = stashed
       /\ \A u \in Types \ {type} : done.remuxer[u] = r[u]
  <2> DEFINE track2 == [track EXCEPT !.stash = stashed, !.next = next, !.infos = infos]
  <2>1. track2 \in Tracks /\ track2.meta = track.meta /\ track2.stash = stashed
    BY <1>1, <1>2 DEF Tracks, SegmentLists
  <2>2. done.remuxer = [r EXCEPT ![type] = track2]
    BY <1>16
  <2> HIDE DEF track2
  <2>3. [r EXCEPT ![type] = track2] \in Remuxers
        /\ [r EXCEPT ![type] = track2][type] = track2
        /\ \A u \in Types \ {type} : [r EXCEPT ![type] = track2][u] = r[u]
    BY <2>1 DEF Remuxers, Types
  <2>4. QED
    BY <2>1, <2>2, <2>3
<1>18. TagsOf(sent) \o TagsOf(stashed) = TagsOf(track.stash \o samples)
  BY <1>2, TagsJoined
<1>19. QED
  BY <1>10, <1>11, <1>17, <1>18 DEF done

-----------------------------------------------------------------------------
(* A step of the remuxer. *)

\* Of the events of a step, those of a track.
PartOf(type, e) == IF e.msg = "media" /\ e.type = type THEN e.samples ELSE <<>>

LEMMA EmittedMap ==
  ASSUME NEW type, NEW g, g = [e \in Events |-> PartOf(type, e)]
  PROVE  Maps(g, Events, Lists(Pieces)) /\ \A o \in Seq(Events) : Emitted(type, o) = FlatMap(g, o)
<1>1. \A e \in Events : PartOf(type, e) \in Seq(Pieces)
  BY DEF PartOf, Events
<1>2. ASSUME NEW o \in Seq(Events) PROVE Emitted(type, o) = FlatMap(g, o)
  <2>1. \A i \in DOMAIN o : g[o[i]] = IF o[i].msg = "media" /\ o[i].type = type THEN o[i].samples ELSE <<>>
    BY DEF PartOf
  <2>2. Mapped(g, o) = [i \in DOMAIN o |-> IF o[i].msg = "media" /\ o[i].type = type THEN o[i].samples ELSE <<>>]
    BY <2>1 DEF Mapped
  <2>3. QED
    BY <2>2 DEF Emitted, FlatMap
<1>3. QED
  BY <1>1, <1>2 DEF Lists, Maps

LEMMA EmittedConcat ==
  ASSUME NEW type, NEW u \in Seq(Events), NEW v \in Seq(Events)
  PROVE  Emitted(type, u) \in Seq(Pieces) /\ Emitted(type, u \o v) = Emitted(type, u) \o Emitted(type, v)
<1>1. PICK g : g = [e \in Events |-> PartOf(type, e)]
  OBVIOUS
<1>2. Maps(g, Events, Lists(Pieces)) /\ \A o \in Seq(Events) : Emitted(type, o) = FlatMap(g, o)
  BY <1>1, EmittedMap
<1>3. FlatMap(g, u) \in Seq(Pieces) /\ FlatMap(g, u \o v) = FlatMap(g, u) \o FlatMap(g, v)
  BY <1>2, FlatMapConcat
<1>4. u \o v \in Seq(Events)
  OBVIOUS
<1>5. QED
  BY <1>2, <1>3, <1>4

LEMMA EmittedOne ==
  ASSUME NEW type, NEW e \in Events
  PROVE  Emitted(type, <<>>) = <<>> /\ Emitted(type, <<e>>) = PartOf(type, e)
<1>1. PICK g : g = [x \in Events |-> PartOf(type, x)]
  OBVIOUS
<1>2. Maps(g, Events, Lists(Pieces)) /\ \A o \in Seq(Events) : Emitted(type, o) = FlatMap(g, o)
  BY <1>1, EmittedMap
<1>3. FlatMap(g, <<>>) = <<>> /\ FlatMap(g, <<e>>) = g[e]
  BY <1>2, FlatMapOne
<1>4. <<>> \in Seq(Events) /\ <<e>> \in Seq(Events) /\ g[e] = PartOf(type, e)
  BY <1>1
<1>5. QED
  BY <1>2, <1>3, <1>4

LEMMA EmittedAppend ==
  ASSUME NEW type, NEW u \in Seq(Events), NEW e \in Events
  PROVE  Emitted(type, Append(u, e)) = Emitted(type, u) \o PartOf(type, e)
<1>1. <<e>> \in Seq(Events) /\ Append(u, e) = u \o <<e>>
  OBVIOUS
<1>2. QED
  BY <1>1, EmittedOne, EmittedConcat

\* What of a track has been put out, is stashed and is left.
Steps == [remuxer: Remuxers, out: Seq(Events), left: [Types -> Seq(Samples)]]

Told(type, o) == RealTags(Emitted(type, o))
Held(r, queues, type) == TagsOf(r[type].stash \o queues[type])

\* None is lost or doubled when a track has its turn.
LEMMA OneRemuxed ==
  ASSUME NEW step \in Steps, NEW type \in Types, NEW force \in BOOLEAN, NEW settings
  PROVE  LET then == RemuxOne(step, type, force, settings)
         IN  /\ then \in Steps
             /\ \A t \in Types : /\ then.remuxer[t].meta = step.remuxer[t].meta
                                 /\ Told(t, then.out) \o Held(then.remuxer, then.left, t) =
                                      Told(t, step.out) \o Held(step.remuxer, step.left, t)
                                 /\ t # type => then.left[t] = step.left[t]
             /\ ~force /\ step.remuxer[type].meta # None => Len(then.left[type]) <= 1
<1> DEFINE r == step.remuxer
           samples == step.left[type]
           done == RemuxTrack(r, type, samples, settings)
           then == RemuxOne(step, type, force, settings)
<1>1. r \in Remuxers /\ samples \in Seq(Samples) /\ step.out \in Seq(Events)
      /\ step.left \in [Types -> Seq(Samples)]
  BY DEF Steps
<1>2. CASE Skips(r[type], samples, force)
  <2>1. then = step
    BY <1>2 DEF RemuxOne
  <2>2. ~force /\ r[type].meta # None => samples = <<>> \/ Len(samples) = 1
    BY <1>2 DEF Skips
  <2>3. ~force /\ r[type].meta # None => Len(samples) <= 1
    <3>1. Len(<<>>) <= 1
      OBVIOUS
    <3>2. \A n : n = 1 => n <= 1
      OBVIOUS
    <3> HIDE DEF samples
    <3>3. QED
      BY <2>2, <3>1, <3>2
  <2>4. QED
    BY <2>1, <2>3
<1>3. CASE ~Skips(r[type], samples, force)
  <2>1. samples # <<>>
    BY <1>3 DEF Skips
  <2>2. /\ done.samples \in Seq(Pieces) /\ done.remuxer \in Remuxers
        /\ done.remuxer[type].meta = r[type].meta
        /\ \A u \in Types \ {type} : done.remuxer[u] = r[u]
        /\ RealTags(done.samples) \o TagsOf(done.remuxer[type].stash) = TagsOf(r[type].stash \o samples)
    <3> HIDE DEF r, samples
    <3>1. QED
      BY <1>1, <2>1, TrackRemuxed
  <2>3. then = [[step EXCEPT !.remuxer = done.remuxer, !.out = Append(@, Media(type, done.samples))]
                  EXCEPT !.left[type] = <<>>]
    BY <1>3 DEF RemuxOne, PutOut
  <2> HIDE DEF done
  <2>4. /\ then.remuxer = done.remuxer /\ then.out = Append(step.out, Media(type, done.samples))
        /\ then.left = [step.left EXCEPT ![type] = <<>>]
        /\ then = [remuxer |-> then.remuxer, out |-> then.out, left |-> then.left]
    BY <2>3 DEF Steps
  <2> HIDE DEF then, r, samples
  <2>5. Media(type, done.samples) \in Events
    BY <2>2 DEF Media, Events
  <2>6. then \in Steps
    <3>1. then.out \in Seq(Events)
      BY <1>1, <2>4, <2>5
    <3>2. <<>> \in Seq(Samples)
      OBVIOUS
    <3>3. then.left \in [Types -> Seq(Samples)]
      BY <1>1, <2>4, <3>2
    <3>4. QED
      BY <2>2, <2>4, <3>1, <3>3 DEF Steps
  <2>7. \A t \in Types : then.remuxer[t].meta = r[t].meta
    BY <2>2, <2>4
  <2>8. \A t \in Types \ {type} : then.left[t] = step.left[t] /\ then.remuxer[t] = r[t]
    BY <1>1, <2>2, <2>4
  <2>9. then.left[type] = <<>>
    BY <1>1, <2>4
  <2>10. ASSUME NEW t \in Types
         PROVE  Emitted(t, then.out) = Emitted(t, step.out) \o (IF t = type THEN done.samples ELSE <<>>)
    <3>1. Emitted(t, then.out) = Emitted(t, step.out) \o PartOf(t, Media(type, done.samples))
      BY <1>1, <2>4, <2>5, EmittedAppend
    <3>2. PartOf(t, Media(type, done.samples)) = IF t = type THEN done.samples ELSE <<>>
      BY DEF PartOf, Media
    <3>3. QED
      BY <3>1, <3>2
  <2>11. ASSUME NEW t \in Types, t # type
         PROVE  Told(t, then.out) \o Held(then.remuxer, then.left, t) =
                  Told(t, step.out) \o Held(r, step.left, t)
    <3>1. Emitted(t, step.out) \o <<>> = Emitted(t, step.out)
      BY <1>1, EmittedConcat, ConcatEmptySeq
    <3>2. Emitted(t, then.out) = Emitted(t, step.out)
      BY <2>10, <2>11, <3>1
    <3>3. QED
      BY <2>8, <2>11, <3>2 DEF Told, Held
  <2>12. Told(type, then.out) \o Held(then.remuxer, then.left, type) =
           Told(type, step.out) \o Held(r, step.left, type)
    <3>1. Emitted(type, then.out) = Emitted(type, step.out) \o done.samples
      BY <2>10
    <3>2. Emitted(type, step.out) \in Seq(Pieces)
      BY <1>1, EmittedConcat
    <3>3. Tagged(Pieces)
      BY PiecesTagged
    <3>4. Told(type, then.out) = Told(type, step.out) \o RealTags(done.samples)
          /\ Told(type, step.out) \in Seq(Nat) /\ RealTags(done.samples) \in Seq(Nat)
      BY <2>2, <3>1, <3>2, <3>3, RealTagsConcat DEF Told
    <3>5. then.remuxer[type].stash \in Seq(Samples)
      BY <2>2, <2>4, TrackOf
    <3>6. Held(then.remuxer, then.left, type) = TagsOf(then.remuxer[type].stash)
      BY <2>9, <3>5, ConcatEmptySeq DEF Held
    <3>7. TagsOf(then.remuxer[type].stash) \in Seq(Nat)
      BY <3>5, TagsJoined
    <3>8. (Told(type, step.out) \o RealTags(done.samples)) \o TagsOf(then.remuxer[type].stash) =
            Told(type, step.out) \o (RealTags(done.samples) \o TagsOf(then.remuxer[type].stash))
      BY <3>4, <3>7, ConcatAssociative
    <3>9. RealTags(done.samples) \o TagsOf(then.remuxer[type].stash) = Held(r, step.left, type)
      BY <2>2, <2>4 DEF Held, samples
    <3>10. QED
      BY <3>4, <3>6, <3>8, <3>9
  <2>13. Len(then.left[type]) <= 1
    <3>1. Len(<<>>) <= 1
      OBVIOUS
    <3>2. QED
      BY <2>9, <3>1
  <2>14. QED
    BY <2>6, <2>7, <2>8, <2>11, <2>12, <2>13 DEF then, r
<1>4. QED
  BY <1>2, <1>3

\* The base is a time, and the tracks are as they were.
LEMMA BaseTaken ==
  ASSUME NEW r \in Remuxers, NEW audio \in Seq(Samples), NEW video \in Seq(Samples),
         audio # <<>> \/ video # <<>>
  PROVE  LET based == CalculateDtsBase(r, audio, video)
         IN  based \in Remuxers /\ \A t \in Types : based[t] = r[t]
<1> DEFINE firsts == {s[1].dts : s \in {audio, video} \ {<<>>}}
<1>1. firsts # {} /\ firsts \subseteq Int
  <2>1. ASSUME NEW s \in {audio, video} \ {<<>>} PROVE s[1].dts \in Int
    <3>1. s[1] \in Samples
      OBVIOUS
    <3>2. QED
      BY <3>1 DEF Samples
  <2>2. QED
    BY <2>1
<1>2. \E m \in firsts : \A x \in firsts : m <= x
  <2>1. CASE audio = <<>>
    <3>1. firsts = {video[1].dts}
      BY <2>1
    <3> HIDE DEF firsts
    <3>2. QED
      BY <1>1, <3>1
  <2>2. CASE video = <<>>
    <3>1. firsts = {audio[1].dts}
      BY <2>2
    <3> HIDE DEF firsts
    <3>2. QED
      BY <1>1, <3>1
  <2>3. CASE audio # <<>> /\ video # <<>>
    <3>1. firsts = {audio[1].dts, video[1].dts}
      BY <2>3
    <3>2. audio[1].dts \in Int /\ video[1].dts \in Int
      BY <1>1, <3>1
    <3> HIDE DEF firsts
    <3>3. CASE audio[1].dts <= video[1].dts
      BY <3>1, <3>2, <3>3
    <3>4. CASE video[1].dts <= audio[1].dts
      BY <3>1, <3>2, <3>4
    <3>5. QED
      BY <3>2, <3>3, <3>4
  <2>4. QED
    BY <2>1, <2>2, <2>3
<1>3. Min(firsts) \in Int
  BY <1>1, <1>2 DEF Min
<1>4. CalculateDtsBase(r, audio, video) = IF r.base # Undefined THEN r ELSE [r EXCEPT !.base = Min(firsts)]
  BY DEF CalculateDtsBase
<1> HIDE DEF firsts
<1>5. QED
  BY <1>3, <1>4 DEF Remuxers, Types

LEMMA AllRemuxed ==
  ASSUME NEW r \in Remuxers, NEW queues \in [Types -> Seq(Samples)],
         \E t \in Types : queues[t] # <<>>, NEW settings
  PROVE  LET step == Remux(r, queues, settings)
         IN  /\ step \in Steps
             /\ \A t \in Types : /\ Told(t, step.out) \o Held(step.remuxer, step.left, t) = Held(r, queues, t)
                                 /\ step.remuxer[t].meta = r[t].meta
                                 /\ step.remuxer[t].meta # None => Len(step.left[t]) <= 1
<1> DEFINE based == CalculateDtsBase(r, queues.audio, queues.video)
           step0 == [remuxer |-> based, out |-> <<>>, left |-> queues]
           step1 == RemuxOne(step0, "video", FALSE, settings)
           step2 == RemuxOne(step1, "audio", FALSE, settings)
<1>1. queues["audio"] \in Seq(Samples) /\ queues["video"] \in Seq(Samples) /\ Types = {"audio", "video"}
  BY DEF Types
<1>2. based \in Remuxers /\ \A t \in Types : based[t] = r[t]
  BY <1>1, BaseTaken
<1>3. Remux(r, queues, settings) = step2
  BY DEF Remux
<1> HIDE DEF based
<1>4. /\ step0 \in Steps /\ step0.remuxer = based /\ step0.out = <<>> /\ step0.left = queues
      /\ \A t \in Types : Told(t, step0.out) \o Held(step0.remuxer, step0.left, t) = Held(r, queues, t)
  <2>1. <<>> \in Seq(Events)
    OBVIOUS
  <2>2. step0 \in Steps
    BY <1>2, <2>1 DEF Steps
  <2>3. ASSUME NEW t \in Types PROVE Told(t, <<>>) \o Held(based, queues, t) = Held(r, queues, t)
    <3>1. Emitted(t, <<>>) = <<>>
      BY FlattenNothing DEF Emitted
    <3>2. Told(t, <<>>) = <<>>
      BY <3>1, RealTagsNothing DEF Told
    <3>3. r[t].stash \o queues[t] \in Seq(Samples)
      BY TrackOf, ConcatProperties
    <3>4. Held(r, queues, t) \in Seq(Nat) /\ Held(based, queues, t) = Held(r, queues, t)
      BY <1>2, <3>3, TagsJoined DEF Held
    <3>5. QED
      BY <3>2, <3>4, ConcatEmptySeq
  <2>4. QED
    BY <2>2, <2>3
<1> HIDE DEF step0
<1>5. /\ step1 \in Steps
      /\ \A t \in Types : /\ step1.remuxer[t].meta = step0.remuxer[t].meta
                          /\ Told(t, step1.out) \o Held(step1.remuxer, step1.left, t) =
                               Told(t, step0.out) \o Held(step0.remuxer, step0.left, t)
                          /\ t # "video" => step1.left[t] = step0.left[t]
      /\ step0.remuxer["video"].meta # None => Len(step1.left["video"]) <= 1
  <2>1. \A force \in BOOLEAN : \A s :
          LET then == RemuxOne(step0, "video", force, s)
          IN  /\ then \in Steps
              /\ \A t \in Types : /\ then.remuxer[t].meta = step0.remuxer[t].meta
                                  /\ Told(t, then.out) \o Held(then.remuxer, then.left, t) =
                                       Told(t, step0.out) \o Held(step0.remuxer, step0.left, t)
                                  /\ t # "video" => then.left[t] = step0.left[t]
              /\ ~force /\ step0.remuxer["video"].meta # None => Len(then.left["video"]) <= 1
    BY <1>1, <1>4, OneRemuxed
  <2>2. QED
    BY <2>1
<1> HIDE DEF step1
<1>6. /\ step2 \in Steps
      /\ \A t \in Types : /\ step2.remuxer[t].meta = step1.remuxer[t].meta
                          /\ Told(t, step2.out) \o Held(step2.remuxer, step2.left, t) =
                               Told(t, step1.out) \o Held(step1.remuxer, step1.left, t)
                          /\ t # "audio" => step2.left[t] = step1.left[t]
      /\ step1.remuxer["audio"].meta # None => Len(step2.left["audio"]) <= 1
  <2>1. \A force \in BOOLEAN : \A s :
          LET then == RemuxOne(step1, "audio", force, s)
          IN  /\ then \in Steps
              /\ \A t \in Types : /\ then.remuxer[t].meta = step1.remuxer[t].meta
                                  /\ Told(t, then.out) \o Held(then.remuxer, then.left, t) =
                                       Told(t, step1.out) \o Held(step1.remuxer, step1.left, t)
                                  /\ t # "audio" => then.left[t] = step1.left[t]
              /\ ~force /\ step1.remuxer["audio"].meta # None => Len(then.left["audio"]) <= 1
    BY <1>1, <1>5, OneRemuxed
  <2>2. QED
    BY <2>1
<1> HIDE DEF step2
<1>7. \A t \in Types : step2.remuxer[t].meta = r[t].meta
  BY <1>2, <1>4, <1>5, <1>6
<1>8. step2.remuxer["video"].meta # None => Len(step2.left["video"]) <= 1
  <2>1. step2.left["video"] = step1.left["video"] /\ step2.remuxer["video"].meta = step0.remuxer["video"].meta
    BY <1>1, <1>5, <1>6
  <2>2. QED
    BY <1>5, <2>1
<1>9. step2.remuxer["audio"].meta # None => Len(step2.left["audio"]) <= 1
  BY <1>1, <1>6
<1>10. \A t \in Types : Told(t, step2.out) \o Held(step2.remuxer, step2.left, t) = Held(r, queues, t)
  BY <1>4, <1>5, <1>6
<1>11. QED
  BY <1>1, <1>3, <1>6, <1>7, <1>8, <1>9, <1>10

LEMMA AllFlushed ==
  ASSUME NEW r \in Remuxers, NEW settings
  PROVE  LET step == FlushStashedSamples(r, settings)
         IN  step \in Steps /\ \A t \in Types : step.remuxer[t].meta = r[t].meta
<1> DEFINE stashes == [t \in Types |-> r[t].stash]
           empty == [r EXCEPT !.audio.stash = <<>>, !.video.stash = <<>>]
           step0 == [remuxer |-> empty, out |-> <<>>, left |-> stashes]
           step1 == RemuxOne(step0, "video", TRUE, settings)
           step2 == RemuxOne(step1, "audio", TRUE, settings)
<1>1. "audio" \in Types /\ "video" \in Types
  BY DEF Types
<1>2. FlushStashedSamples(r, settings) = step2
  BY DEF FlushStashedSamples
<1>3. step0 \in Steps /\ \A t \in Types : step0.remuxer[t].meta = r[t].meta
  <2>1. <<>> \in Seq(Events) /\ <<>> \in Seq(Samples)
    OBVIOUS
  <2>2. stashes \in [Types -> Seq(Samples)]
    BY TrackOf
  <2>3. empty \in Remuxers /\ \A t \in Types : empty[t].meta = r[t].meta
    BY <2>1 DEF Remuxers, Tracks, Types
  <2> HIDE DEF empty, stashes
  <2>4. QED
    BY <2>1, <2>2, <2>3 DEF Steps
<1> HIDE DEF step0
<1>4. step1 \in Steps /\ \A t \in Types : step1.remuxer[t].meta = step0.remuxer[t].meta
  <2>1. \A force \in BOOLEAN : \A s :
          LET then == RemuxOne(step0, "video", force, s)
          IN  then \in Steps /\ \A t \in Types : then.remuxer[t].meta = step0.remuxer[t].meta
    BY <1>1, <1>3, OneRemuxed
  <2>2. QED
    BY <2>1
<1> HIDE DEF step1
<1>5. step2 \in Steps /\ \A t \in Types : step2.remuxer[t].meta = step1.remuxer[t].meta
  <2>1. \A force \in BOOLEAN : \A s :
          LET then == RemuxOne(step1, "audio", force, s)
          IN  then \in Steps /\ \A t \in Types : then.remuxer[t].meta = step1.remuxer[t].meta
    BY <1>1, <1>4, OneRemuxed
  <2>2. QED
    BY <2>1
<1>6. QED
  BY <1>2, <1>3, <1>4, <1>5

-----------------------------------------------------------------------------
(* A tag. *)

LEMMA ToldJoined ==
  ASSUME NEW t, NEW u \in Seq(Events), NEW v \in Seq(Events)
  PROVE  Told(t, u) \in Seq(Nat) /\ Told(t, u \o v) = Told(t, u) \o Told(t, v)
<1>1. /\ Emitted(t, u) \in Seq(Pieces) /\ Emitted(t, v) \in Seq(Pieces)
      /\ Emitted(t, u \o v) = Emitted(t, u) \o Emitted(t, v)
  BY EmittedConcat
<1>2. Tagged(Pieces)
  BY PiecesTagged
<1>3. /\ RealTags(Emitted(t, u) \o Emitted(t, v)) = RealTags(Emitted(t, u)) \o RealTags(Emitted(t, v))
      /\ RealTags(Emitted(t, u)) \in Seq(Nat)
  BY <1>1, <1>2, RealTagsConcat
<1>4. QED
  BY <1>1, <1>3 DEF Told

\* Other events than media tell nothing.
LEMMA ToldNothing ==
  ASSUME NEW t, NEW e \in Events, e.msg # "media"
  PROVE  Told(t, <<>>) = <<>> /\ Told(t, <<e>>) = <<>>
<1>1. Emitted(t, <<>>) = <<>> /\ Emitted(t, <<e>>) = <<>>
  BY EmittedOne DEF PartOf
<1>2. QED
  BY <1>1, RealTagsNothing DEF Told

LEMMA ToldSame ==
  ASSUME NEW t, NEW u \in Seq(Events), NEW e \in Events, e.msg # "media"
  PROVE  /\ Append(u, e) \in Seq(Events) /\ Told(t, Append(u, e)) = Told(t, u)
         /\ <<e>> \o u \in Seq(Events) /\ Told(t, <<e>> \o u) = Told(t, u)
<1>1. <<e>> \in Seq(Events) /\ Append(u, e) = u \o <<e>> /\ Append(u, e) \in Seq(Events)
      /\ <<e>> \o u \in Seq(Events)
  OBVIOUS
<1>2. Told(t, u \o <<e>>) = Told(t, u) \o <<>> /\ Told(t, <<e>> \o u) = <<>> \o Told(t, u)
  <2>1. Told(t, <<e>>) = <<>>
    BY ToldNothing
  <2>2. Told(t, u \o <<e>>) = Told(t, u) \o Told(t, <<e>>) /\ Told(t, <<e>> \o u) = Told(t, <<e>>) \o Told(t, u)
    BY <1>1, ToldJoined
  <2>3. QED
    BY <2>1, <2>2
<1>3. Told(t, u) \in Seq(Nat)
  BY ToldJoined
<1>4. QED
  BY <1>1, <1>2, <1>3, ConcatEmptySeq

LEMMA InfoEventsSilent ==
  ASSUME NEW t, NEW info, NEW u \in Seq(Events)
  PROVE  /\ InfoEvents(info) \in Seq(Events) /\ Told(t, InfoEvents(info)) = <<>>
         /\ u \o InfoEvents(info) \in Seq(Events) /\ Told(t, u \o InfoEvents(info)) = Told(t, u)
         /\ InfoEvents(info) \o u \in Seq(Events) /\ Told(t, InfoEvents(info) \o u) = Told(t, u)
<1>1. /\ InfoEvents(info) \in Seq(Events) /\ Told(t, InfoEvents(info)) = <<>>
  <2> DEFINE e == Event("mediainfo")
  <2>1. e \in Events /\ e.msg # "media"
    BY DEF Event, Events
  <2>2. Told(t, <<>>) = <<>> /\ Told(t, <<e>>) = <<>>
    BY <2>1, ToldNothing
  <2>3. InfoEvents(info) = <<>> \/ InfoEvents(info) = <<e>>
    BY DEF InfoEvents
  <2>4. <<>> \in Seq(Events) /\ <<e>> \in Seq(Events)
    BY <2>1
  <2> HIDE DEF e
  <2>5. CASE InfoEvents(info) = <<>>
    BY <2>2, <2>4, <2>5, Zenon
  <2>6. CASE InfoEvents(info) = <<e>>
    BY <2>2, <2>4, <2>6, Zenon
  <2>7. QED
    BY <2>3, <2>5, <2>6
<1>2. /\ Told(t, u \o InfoEvents(info)) = Told(t, u) \o <<>>
      /\ Told(t, InfoEvents(info) \o u) = <<>> \o Told(t, u)
  BY <1>1, ToldJoined
<1>3. Told(t, u) \in Seq(Nat)
  BY ToldJoined
<1>4. u \o InfoEvents(info) \in Seq(Events) /\ InfoEvents(info) \o u \in Seq(Events)
  BY <1>1
<1>5. QED
  BY <1>1, <1>2, <1>3, <1>4, ConcatEmptySeq

\* What reading a tag with a demuxer d gives: nothing more of the frames than
\* what was held, or one more of a track.
Results == [demuxer: Demuxers, remuxer: Remuxers, out: Seq(Events)]
Moves(res, d) ==
  \A t \in Types : Told(t, res.out) \o Held(res.remuxer, res.demuxer.queues, t) = Held(remux, d.queues, t)
Adds(res, d, type) ==
  \A t \in Types : Told(t, res.out) \o Held(res.remuxer, res.demuxer.queues, t) =
                     Held(remux, d.queues, t) \o (IF t = type THEN <<pos>> ELSE <<>>)

\* What is known of the media does not change.
SameMedia(d, e) ==
  d.info = e.info /\ \A t \in Types : d.tracks[t].has = e.tracks[t].has /\ d.tracks[t].made = e.tracks[t].made

LEMMA HeldType ==
  ASSUME NEW r \in Remuxers, NEW queues \in [Types -> Seq(Samples)], NEW t \in Types
  PROVE  Held(r, queues, t) \in Seq(Nat)
<1>1. r[t].stash \o queues[t] \in Seq(Samples)
  BY TrackOf, ConcatProperties
<1>2. QED
  BY <1>1, TagsJoined DEF Held

LEMMA Unmoved ==
  ASSUME remux \in Remuxers, NEW d \in Demuxers
  PROVE  Result(d, remux, <<>>) \in Results /\ Moves(Result(d, remux, <<>>), d)
<1>1. <<>> \in Seq(Events)
  OBVIOUS
<1>2. Result(d, remux, <<>>) \in Results
  BY <1>1 DEF Result, Results
<1>3. ASSUME NEW t \in Types PROVE Told(t, <<>>) \o Held(remux, d.queues, t) = Held(remux, d.queues, t)
  <2>1. Told(t, <<>>) = <<>>
    BY FlattenNothing, RealTagsNothing DEF Told, Emitted
  <2>2. Held(remux, d.queues, t) \in Seq(Nat)
    BY HeldType DEF Demuxers
  <2>3. QED
    BY <2>1, <2>2, ConcatEmptySeq
<1>4. QED
  BY <1>2, <1>3 DEF Moves, Result

LEMMA Dispatched ==
  ASSUME remux \in Remuxers, NEW d \in Demuxers
  PROVE  LET res == Dispatch(d)
         IN  /\ res \in Results /\ Moves(res, d) /\ SameMedia(res.demuxer, d)
             /\ res.demuxer.tracks = d.tracks /\ res.demuxer.dispatch = d.dispatch
             /\ \A t \in Types : /\ res.remuxer[t].meta = remux[t].meta
                                 /\ remux[t].meta # None => Len(res.demuxer.queues[t]) <= 1
<1>1. CASE \A t \in Types : d.queues[t] = <<>>
  <2>1. Dispatch(d) = Result(d, remux, <<>>)
    BY <1>1 DEF Dispatch
  <2>2. Len(<<>>) <= 1
    OBVIOUS
  <2>3. \A t \in Types : Len(d.queues[t]) <= 1
    BY <1>1, <2>2
  <2>4. /\ Result(d, remux, <<>>).demuxer = d /\ Result(d, remux, <<>>).remuxer = remux
    BY DEF Result
  <2>5. QED
    BY <2>1, <2>3, <2>4, Unmoved DEF SameMedia
<1>2. CASE \E t \in Types : d.queues[t] # <<>>
  <2> DEFINE step == Remux(remux, d.queues, source)
             e == [d EXCEPT !.queues = step.left]
  <2>1. Dispatch(d) = Result(e, step.remuxer, step.out)
    BY <1>2 DEF Dispatch, Remuxed
  <2>2. d.queues \in [Types -> Seq(Samples)]
    BY DEF Demuxers
  <2>3. /\ step \in Steps
        /\ \A t \in Types : /\ Told(t, step.out) \o Held(step.remuxer, step.left, t) = Held(remux, d.queues, t)
                            /\ step.remuxer[t].meta = remux[t].meta
                            /\ step.remuxer[t].meta # None => Len(step.left[t]) <= 1
    BY <1>2, <2>2, AllRemuxed
  <2> HIDE DEF step
  <2>4. step.left \in [Types -> Seq(Samples)] /\ step.remuxer \in Remuxers /\ step.out \in Seq(Events)
    BY <2>3 DEF Steps
  <2>5. /\ e \in Demuxers /\ e.queues = step.left /\ e.tracks = d.tracks /\ e.dispatch = d.dispatch
        /\ e.info = d.info
    BY <2>4 DEF Demuxers
  <2> HIDE DEF e
  <2>6. QED
    BY <2>1, <2>3, <2>4, <2>5 DEF Result, Results, Moves, SameMedia
<1>3. QED
  BY <1>1, <1>2

\* A demuxer whose dispatch mark, tracks or media info are changed.
LEMMA DemuxerFields ==
  ASSUME NEW d \in Demuxers
  PROVE  /\ d.tracks \in [Types -> Queues] /\ d.queues \in [Types -> Seq(Samples)]
         /\ d.dispatch \in BOOLEAN /\ d.info \in MediaInfos
         /\ d.info.has \in [Types -> {"null", "yes", "no"}] /\ d.info.codec \in [Types -> BOOLEAN]
         /\ \A t \in Types : d.tracks[t].has \in BOOLEAN /\ d.tracks[t].made \in BOOLEAN
BY DEF Demuxers, MediaInfos, Queues

LEMMA MarkedTold ==
  ASSUME NEW d \in Demuxers, NEW type \in Types, NEW f,
         f = [d EXCEPT !.tracks[type].told = TRUE] \/ f = [d EXCEPT !.tracks[type].codec = TRUE]
               \/ f = [d EXCEPT !.dispatch = FALSE] \/ f = [d EXCEPT !.dispatch = TRUE]
  PROVE  f \in Demuxers /\ f.queues = d.queues /\ SameMedia(f, d)
<1>1. CASE f = [d EXCEPT !.tracks[type].told = TRUE]
  <2>1. d.tracks \in [Types -> Queues]
    BY DEF Demuxers
  <2> DEFINE q == [d.tracks[type] EXCEPT !.told = TRUE]
  <2>2. q \in Queues /\ q.has = d.tracks[type].has /\ q.made = d.tracks[type].made
    BY <2>1 DEF Queues
  <2>3. f = [d EXCEPT !.tracks = [d.tracks EXCEPT ![type] = q]]
    BY <1>1 DEF Demuxers
  <2> HIDE DEF q
  <2>4. [d.tracks EXCEPT ![type] = q] \in [Types -> Queues]
    BY <2>1, <2>2
  <2>5. /\ f \in Demuxers /\ f.queues = d.queues /\ f.info = d.info
        /\ f.tracks = [d.tracks EXCEPT ![type] = q]
    BY <2>3, <2>4 DEF Demuxers
  <2>6. QED
    BY <2>1, <2>2, <2>5 DEF SameMedia
<1>2. CASE f = [d EXCEPT !.tracks[type].codec = TRUE]
  <2>1. d.tracks \in [Types -> Queues]
    BY DEF Demuxers
  <2> DEFINE q == [d.tracks[type] EXCEPT !.codec = TRUE]
  <2>2. q \in Queues /\ q.has = d.tracks[type].has /\ q.made = d.tracks[type].made
    BY <2>1 DEF Queues
  <2>3. f = [d EXCEPT !.tracks = [d.tracks EXCEPT ![type] = q]]
    BY <1>2 DEF Demuxers
  <2> HIDE DEF q
  <2>4. [d.tracks EXCEPT ![type] = q] \in [Types -> Queues]
    BY <2>1, <2>2
  <2>5. /\ f \in Demuxers /\ f.queues = d.queues /\ f.info = d.info
        /\ f.tracks = [d.tracks EXCEPT ![type] = q]
    BY <2>3, <2>4 DEF Demuxers
  <2>6. QED
    BY <2>1, <2>2, <2>5 DEF SameMedia
<1>3. CASE f = [d EXCEPT !.dispatch = FALSE]
  BY <1>3 DEF Demuxers, SameMedia
<1>4. CASE f = [d EXCEPT !.dispatch = TRUE]
  BY <1>4 DEF Demuxers, SameMedia
<1>5. QED
  BY <1>1, <1>2, <1>3, <1>4

LEMMA Reconfigured ==
  ASSUME NEW r \in Remuxers, NEW type \in Types, pos \in Nat \ {0}, NEW mp3 \in BOOLEAN
  PROVE  /\ TrackMetadataReceived(r, type, pos, mp3) \in Remuxers
         /\ \A t \in Types : TrackMetadataReceived(r, type, pos, mp3)[t].stash = r[t].stash
<1> DEFINE track == [r[type] EXCEPT !.meta = pos, !.mp3 = mp3]
<1>1. track \in Tracks /\ track.stash = r[type].stash
  BY TrackOf DEF Tracks
<1>2. TrackMetadataReceived(r, type, pos, mp3) = [r EXCEPT ![type] = track]
  BY DEF TrackMetadataReceived
<1> HIDE DEF track
<1>3. QED
  BY <1>1, <1>2 DEF Remuxers, Types

LEMMA InitSilent ==
  ASSUME NEW type \in Types, pos \in Nat \ {0}
  PROVE  Init4(type, pos) \in Events /\ Init4(type, pos).msg # "media"
BY DEF Init4, Events

LEMMA Configured ==
  ASSUME remux \in Remuxers, NEW d \in Demuxers, NEW type \in Types, pos \in Nat \ {0}, NEW mp3 \in BOOLEAN
  PROVE  LET res == NewConfiguration(d, type, mp3)
         IN  /\ res \in Results /\ Moves(res, d) /\ SameMedia(res.demuxer, d)
<1> DEFINE told == [d EXCEPT !.tracks[type].told = TRUE]
           step == IF InitialDispatched(d) THEN Dispatch(d) ELSE Result(told, remux, <<>>)
           e == [step.demuxer EXCEPT !.dispatch = FALSE]
           r == TrackMetadataReceived(step.remuxer, type, pos, mp3)
           o == Append(step.out, Init4(type, pos))
<1>1. step \in Results /\ Moves(step, d) /\ SameMedia(step.demuxer, d)
  <2>1. CASE InitialDispatched(d)
    BY <2>1, Dispatched
  <2>2. CASE ~InitialDispatched(d)
    <3>1. told \in Demuxers /\ told.queues = d.queues /\ SameMedia(told, d)
      BY MarkedTold
    <3> HIDE DEF told
    <3>2. Result(told, remux, <<>>) \in Results /\ Moves(Result(told, remux, <<>>), told)
      BY <3>1, Unmoved
    <3>3. Moves(Result(told, remux, <<>>), d)
      BY <3>1, <3>2 DEF Moves
    <3>4. Result(told, remux, <<>>).demuxer = told
      BY DEF Result
    <3>5. step = Result(told, remux, <<>>)
      BY <2>2
    <3> HIDE DEF step
    <3>6. QED
      BY <3>1, <3>2, <3>3, <3>4, <3>5
  <2>3. QED
    BY <2>1, <2>2
<1>2. NewConfiguration(d, type, mp3) = [step EXCEPT !.demuxer.dispatch = FALSE,
                                          !.remuxer = TrackMetadataReceived(@, type, pos, mp3),
                                          !.out = Append(@, Init4(type, pos))]
  BY DEF NewConfiguration
<1> HIDE DEF step
<1>3. NewConfiguration(d, type, mp3) = [demuxer |-> e, remuxer |-> r, out |-> o]
  BY <1>1, <1>2 DEF Results
<1>4. step.demuxer \in Demuxers /\ step.remuxer \in Remuxers /\ step.out \in Seq(Events)
  BY <1>1 DEF Results
<1>5. e \in Demuxers /\ e.queues = step.demuxer.queues /\ SameMedia(e, step.demuxer)
  BY <1>4, MarkedTold
<1>6. r \in Remuxers /\ \A t \in Types : r[t].stash = step.remuxer[t].stash
  BY <1>4, Reconfigured
<1>7. o \in Seq(Events) /\ \A t \in Types : Told(t, o) = Told(t, step.out)
  BY <1>4, InitSilent, ToldSame
<1> HIDE DEF e, r, o
<1>8. \A t \in Types : Held(r, e.queues, t) = Held(step.remuxer, step.demuxer.queues, t)
  BY <1>5, <1>6 DEF Held
<1>9. SameMedia(e, d)
  BY <1>1, <1>5 DEF SameMedia
<1>10. NewConfiguration(d, type, mp3) \in Results
  BY <1>3, <1>5, <1>6, <1>7 DEF Results
<1>11. \A t \in Types : Told(t, o) \o Held(r, e.queues, t) = Held(remux, d.queues, t)
  BY <1>1, <1>7, <1>8 DEF Moves
<1>12. QED
  BY <1>3, <1>9, <1>10, <1>11 DEF Moves

-----------------------------------------------------------------------------
(* The media info. *)

\* The settings of a source.
SourceInv == source \in Sources /\ source.force \in [Types -> {"no", "on", "off"}]

\* A codec is of a track that has been read, and a track that is there or
\* forced to be is not said to be none.
Consistent(d) ==
  \A t \in Types : /\ d.info.codec[t] => d.tracks[t].made
                   /\ d.tracks[t].has => d.info.has[t] # "no"
                   /\ source.force[t] = "on" => d.info.has[t] # "no"

\* Nothing is open once the metadata has been read, a track that has been read
\* is not said to be none, and when the codecs of the tracks are known, so is
\* the type of the whole.
There(info) == {t \in Types : info.has[t] = "yes"}
TypeKnown(info) ==
  (\A t \in Types : info.has[t] # "null") /\ There(info) # {} /\ (\A t \in There(info) : info.codec[t])
    => info.mime = There(info)
Sound(d) ==
  /\ d.info.metadata => \A t \in Types : d.info.has[t] # "null"
  /\ \A t \in Types : d.tracks[t].made => d.info.has[t] # "no"
  /\ TypeKnown(d.info)

Preserves(e, d) == (Consistent(d) => Consistent(e)) /\ (Consistent(d) /\ Sound(d) => Sound(e))

LEMMA SamePreserves ==
  ASSUME NEW d, NEW e, SameMedia(e, d)
  PROVE  Preserves(e, d)
BY DEF SameMedia, Preserves, Consistent, Sound

LEMMA PreservesTransitive ==
  ASSUME NEW d, NEW e, NEW f, Preserves(e, d), Preserves(f, e)
  PROVE  Preserves(f, d)
BY DEF Preserves

LEMMA HasSet ==
  ASSUME NEW d \in Demuxers, NEW type \in Types, NEW b \in BOOLEAN
  PROVE  LET e == SetHas(d, type, b)
         IN  /\ e \in Demuxers /\ e.queues = d.queues /\ e.dispatch = d.dispatch
             /\ e.info.codec = d.info.codec /\ e.info.mime = d.info.mime
             /\ e.info.metadata = d.info.metadata
             /\ \A t \in Types :
                  /\ e.tracks[t].has = IF t = type THEN b ELSE d.tracks[t].has
                  /\ e.tracks[t].made = d.tracks[t].made
                  /\ e.info.has[t] = IF t = type THEN YesNo(b) ELSE d.info.has[t]
<1> DEFINE q == [d.tracks[type] EXCEPT !.has = b]
           tracks == [d.tracks EXCEPT ![type] = q]
           has == [d.info.has EXCEPT ![type] = YesNo(b)]
           info == [d.info EXCEPT !.has = has]
<1>1. d.tracks \in [Types -> Queues] /\ d.info \in MediaInfos
      /\ d.info.has \in [Types -> {"null", "yes", "no"}]
  BY DemuxerFields
<1>2. q \in Queues /\ q.has = b /\ q.made = d.tracks[type].made
  BY <1>1 DEF Queues
<1>3. YesNo(b) \in {"null", "yes", "no"}
  BY DEF YesNo
<1>4. SetHas(d, type, b) = [d EXCEPT !.tracks = tracks, !.info = info]
  BY DEF SetHas, Demuxers, MediaInfos
<1> HIDE DEF q
<1>5. tracks \in [Types -> Queues]
      /\ \A t \in Types : /\ tracks[t].has = IF t = type THEN b ELSE d.tracks[t].has
                          /\ tracks[t].made = d.tracks[t].made
  BY <1>1, <1>2
<1>6. has \in [Types -> {"null", "yes", "no"}]
      /\ \A t \in Types : has[t] = IF t = type THEN YesNo(b) ELSE d.info.has[t]
  BY <1>1, <1>3
<1> HIDE DEF tracks, has
<1>7. /\ info \in MediaInfos /\ info.has = has /\ info.codec = d.info.codec /\ info.mime = d.info.mime
      /\ info.metadata = d.info.metadata
  BY <1>1, <1>6 DEF MediaInfos
<1> HIDE DEF info
<1>8. /\ [d EXCEPT !.tracks = tracks, !.info = info] \in Demuxers
      /\ [d EXCEPT !.tracks = tracks, !.info = info].tracks = tracks
      /\ [d EXCEPT !.tracks = tracks, !.info = info].info = info
      /\ [d EXCEPT !.tracks = tracks, !.info = info].queues = d.queues
      /\ [d EXCEPT !.tracks = tracks, !.info = info].dispatch = d.dispatch
  BY <1>5, <1>7 DEF Demuxers
<1>9. QED
  BY <1>4, <1>5, <1>6, <1>7, <1>8

LEMMA FirstSeen ==
  ASSUME SourceInv, NEW d \in Demuxers, NEW type \in Types, ~SwitchedOff(type)
  PROVE  LET e == FirstOf(d, type)
         IN  /\ e \in Demuxers /\ e.queues = d.queues /\ Preserves(e, d)
             /\ e.tracks[type].made
<1> DEFINE e == FirstOf(d, type)
           set == ~d.tracks[type].has /\ source.force[type] = "no"
           d1 == IF set THEN SetHas(d, type, TRUE) ELSE d
           q == [d1.tracks[type] EXCEPT !.made = TRUE]
           tracks == [d1.tracks EXCEPT ![type] = q]
<1>1. CASE d.tracks[type].made
  <2>1. e = d
    BY <1>1 DEF FirstOf
  <2>2. QED
    BY <1>1, <2>1 DEF Preserves
<1>2. CASE ~d.tracks[type].made
  <2>1. e = [d1 EXCEPT !.tracks[type].made = TRUE]
    BY <1>2 DEF FirstOf
  <2>2. /\ d1 \in Demuxers /\ d1.queues = d.queues /\ d1.info.codec = d.info.codec
        /\ d1.info.mime = d.info.mime /\ d1.info.metadata = d.info.metadata
        /\ \A t \in Types :
             /\ d1.tracks[t].has = IF t = type /\ set THEN TRUE ELSE d.tracks[t].has
             /\ d1.tracks[t].made = d.tracks[t].made
             /\ d1.info.has[t] = IF t = type /\ set THEN "yes" ELSE d.info.has[t]
    <3>1. CASE set
      <4>1. PICK b \in BOOLEAN : b = TRUE
        OBVIOUS
      <4>2. d1 = SetHas(d, type, b) /\ YesNo(b) = "yes"
        BY <3>1, <4>1 DEF YesNo
      <4> HIDE DEF d1
      <4>3. /\ d1 \in Demuxers /\ d1.queues = d.queues
            /\ d1.info.codec = d.info.codec /\ d1.info.mime = d.info.mime
            /\ d1.info.metadata = d.info.metadata
            /\ \A t \in Types :
                 /\ d1.tracks[t].has = IF t = type THEN b ELSE d.tracks[t].has
                 /\ d1.tracks[t].made = d.tracks[t].made
                 /\ d1.info.has[t] = IF t = type THEN YesNo(b) ELSE d.info.has[t]
        BY <4>2, HasSet
      <4>4. \A t \in Types : (t = type /\ set) <=> t = type
        BY <3>1
      <4> HIDE DEF set
      <4>5. QED
        BY <4>1, <4>2, <4>3, <4>4
    <3>2. CASE ~set
      <4>1. d1 = d
        BY <3>2
      <4> HIDE DEF d1, set
      <4>2. QED
        BY <3>2, <4>1
    <3>3. QED
      BY <3>1, <3>2
  <2> HIDE DEF d1
  <2>3. d1.tracks \in [Types -> Queues]
    BY <2>2, DemuxerFields
  <2>4. q \in Queues /\ q.has = d1.tracks[type].has /\ q.made = TRUE
    BY <2>3 DEF Queues
  <2>5. e = [d1 EXCEPT !.tracks = tracks]
    BY <2>1, <2>2 DEF Demuxers
  <2> HIDE DEF q, e
  <2>6. tracks \in [Types -> Queues]
        /\ \A t \in Types : /\ tracks[t].has = d1.tracks[t].has
                            /\ tracks[t].made = IF t = type THEN TRUE ELSE d1.tracks[t].made
    BY <2>3, <2>4
  <2> HIDE DEF tracks
  <2>7. e \in Demuxers /\ e.queues = d1.queues /\ e.info = d1.info /\ e.tracks = tracks
    BY <2>2, <2>5, <2>6 DEF Demuxers
  <2>8. \A t \in Types :
          /\ e.tracks[t].has = IF t = type /\ set THEN TRUE ELSE d.tracks[t].has
          /\ e.tracks[t].made = IF t = type THEN TRUE ELSE d.tracks[t].made
          /\ e.info.has[t] = IF t = type /\ set THEN "yes" ELSE d.info.has[t]
          /\ e.info.codec[t] = d.info.codec[t]
    BY <2>2, <2>6, <2>7
  <2>9. e.info.mime = d.info.mime /\ e.info.metadata = d.info.metadata
    BY <2>2, <2>7
  <2>10. Consistent(d) => Consistent(e)
    BY <2>8 DEF Consistent
  <2>11. ASSUME Consistent(d), Sound(d) PROVE Sound(e)
    <3>1. e.info.has[type] # "no" /\ ~d.info.codec[type]
      <4>1. CASE set
        BY <1>2, <2>8, <2>11, <4>1 DEF Consistent
      <4>2. CASE ~set
        <5>1. d.tracks[type].has \/ source.force[type] = "on"
          BY <4>2 DEF SourceInv, SwitchedOff
        <5>2. QED
          BY <1>2, <2>8, <2>11, <4>2, <5>1 DEF Consistent
      <4>3. QED
        BY <4>1, <4>2
    <3>2. e.info.metadata => \A t \in Types : e.info.has[t] # "null"
      BY <2>8, <2>9, <2>11 DEF Sound
    <3>3. \A t \in Types : e.tracks[t].made => e.info.has[t] # "no"
      BY <2>8, <2>11, <3>1 DEF Sound
    <3>4. TypeKnown(e.info)
      <4>1. SUFFICES ASSUME \A t \in Types : e.info.has[t] # "null",
                            \A t \in There(e.info) : e.info.codec[t]
                     PROVE  FALSE
        BY DEF TypeKnown
      <4>2. e.info.has[type] = "yes"
        BY <2>7, <3>1, <4>1, DemuxerFields
      <4>3. QED
        BY <2>8, <3>1, <4>1, <4>2 DEF There
    <3>5. QED
      BY <3>2, <3>3, <3>4 DEF Sound
  <2>12. QED
    BY <2>2, <2>7, <2>8, <2>10, <2>11 DEF Preserves, e
<1>3. QED
  BY <1>1, <1>2

LEMMA CodecNoted ==
  ASSUME NEW d \in Demuxers, NEW type \in Types, d.tracks[type].made
  PROVE  LET e == [d EXCEPT !.info = NoteCodec(d.info, type)]
         IN  e \in Demuxers /\ Preserves(e, d)
<1> DEFINE info == NoteCodec(d.info, type)
           e == [d EXCEPT !.info = info]
           codec == [d.info.codec EXCEPT ![type] = TRUE]
           mime == CASE d.info.has[Other(type)] # "yes" -> {type}
                     [] d.info.has[Other(type)] = "yes" /\ d.info.codec[Other(type)] -> Types
                     [] OTHER -> d.info.mime
<1>1. d.info \in MediaInfos /\ d.info.codec \in [Types -> BOOLEAN] /\ d.info.mime \in SUBSET Types
  BY DEF Demuxers, MediaInfos
<1>2. info = [d.info EXCEPT !.codec = codec, !.mime = mime]
  BY <1>1 DEF NoteCodec, MediaInfos
<1>3. codec \in [Types -> BOOLEAN] /\ \A t \in Types : codec[t] = IF t = type THEN TRUE ELSE d.info.codec[t]
  BY <1>1
<1>4. mime \in SUBSET Types
  BY <1>1
<1>5. Other(type) \in Types /\ Other(type) # type /\ Types = {type, Other(type)}
  BY DEF Other, Types
<1> HIDE DEF info, codec
<1>6. /\ info \in MediaInfos /\ info.has = d.info.has /\ info.codec = codec /\ info.mime = mime
      /\ info.metadata = d.info.metadata
  <2> HIDE DEF mime
  <2>1. QED
    BY <1>1, <1>2, <1>3, <1>4 DEF MediaInfos
<1>7. e \in Demuxers /\ e.tracks = d.tracks /\ e.info = info
  BY <1>6 DEF Demuxers
<1> HIDE DEF e
<1>8. Consistent(d) => Consistent(e)
  BY <1>3, <1>6, <1>7 DEF Consistent
<1>9. ASSUME Sound(d) PROVE Sound(e)
  <2>1. TypeKnown(info)
    <3>1. SUFFICES ASSUME \A t \in Types : info.has[t] # "null", \A t \in There(info) : info.codec[t]
                   PROVE  info.mime = There(info)
      BY DEF TypeKnown
    <3>2. d.info.has[type] = "yes"
      BY <1>6, <1>9, <3>1, DemuxerFields DEF Sound
    <3>3. CASE d.info.has[Other(type)] # "yes"
      <4>1. mime = {type}
        BY <3>3
      <4>2. There(info) = {type}
        BY <1>5, <1>6, <3>2, <3>3 DEF There
      <4>3. QED
        BY <1>6, <4>1, <4>2
    <3>4. CASE d.info.has[Other(type)] = "yes"
      <4>1. Other(type) \in There(info)
        BY <1>5, <1>6, <3>4 DEF There
      <4>2. d.info.codec[Other(type)]
        BY <1>3, <1>5, <1>6, <3>1, <4>1
      <4>3. mime = Types
        BY <3>4, <4>2
      <4>4. There(info) = Types
        BY <1>5, <1>6, <3>2, <3>4 DEF There
      <4>5. QED
        BY <1>6, <4>3, <4>4
    <3>5. QED
      BY <3>3, <3>4
  <2>2. QED
    BY <1>6, <1>7, <1>9, <2>1 DEF Sound
<1>10. QED
  BY <1>7, <1>8, <1>9 DEF Preserves, e, info


-----------------------------------------------------------------------------
(* Each kind of tag. *)

LEMMA SameMoves ==
  ASSUME NEW res, NEW d, NEW e, d.queues = e.queues
  PROVE  (Moves(res, d) <=> Moves(res, e)) /\ \A type : Adds(res, d, type) <=> Adds(res, e, type)
BY DEF Moves, Adds, Held

LEMMA NoEvents ==
  <<>> \in Seq(Events) /\ \A t \in Types : Told(t, <<>>) = <<>>
<1>1. <<>> \in Seq(Events)
  OBVIOUS
<1>2. \A t \in Types : Told(t, <<>>) = <<>>
  BY FlattenNothing, RealTagsNothing DEF Told, Emitted
<1>3. QED
  BY <1>1, <1>2

LEMMA Enqueued ==
  ASSUME remux \in Remuxers, NEW d \in Demuxers, NEW type \in Types, pos \in Nat \ {0}, Tag.time \in Int,
         NEW r \in Remuxers, \A t \in Types : r[t].stash = remux[t].stash,
         NEW o \in Seq(Events), \A t \in Types : Told(t, o) = <<>>
  PROVE  LET res == Result(Enqueue(d, type), r, o)
         IN  res \in Results /\ Adds(res, d, type) /\ SameMedia(res.demuxer, d)
<1> DEFINE sample == [tag |-> pos, dts |-> Tag.time]
           queues == [d.queues EXCEPT ![type] = Append(@, sample)]
           e == Enqueue(d, type)
<1>1. sample \in Samples /\ sample.tag = pos
  BY DEF Samples
<1>2. d.queues \in [Types -> Seq(Samples)]
  BY DemuxerFields
<1>3. e = [d EXCEPT !.queues = queues]
  BY DEF Enqueue, Demuxers
<1> HIDE DEF sample
<1>4. /\ queues \in [Types -> Seq(Samples)]
      /\ \A t \in Types : queues[t] = IF t = type THEN Append(d.queues[t], sample) ELSE d.queues[t]
  BY <1>1, <1>2
<1> HIDE DEF queues, e
<1>5. e \in Demuxers /\ e.queues = queues /\ SameMedia(e, d)
  BY <1>3, <1>4 DEF Demuxers, SameMedia
<1>6. ASSUME NEW t \in Types
      PROVE  Told(t, o) \o Held(r, queues, t) = Held(remux, d.queues, t) \o (IF t = type THEN <<pos>> ELSE <<>>)
  <2> DEFINE stash == remux[t].stash
             queue == d.queues[t]
  <2>1. stash \in Seq(Samples) /\ queue \in Seq(Samples)
    BY <1>2, TrackOf
  <2>2. Held(remux, d.queues, t) = TagsOf(stash \o queue) /\ Held(remux, d.queues, t) \in Seq(Nat)
    BY <1>2, HeldType DEF Held
  <2>3. Held(r, queues, t) = TagsOf(stash \o queues[t]) /\ Held(r, queues, t) \in Seq(Nat)
    BY <1>4, HeldType DEF Held
  <2>4. Told(t, o) \o Held(r, queues, t) = Held(r, queues, t)
    BY <2>3, ConcatEmptySeq
  <2> HIDE DEF stash, queue
  <2>5. CASE t = type
    <3>1. stash \o queue \in Seq(Samples) /\ <<sample>> \in Seq(Samples)
      BY <1>1, <2>1
    <3>2. stash \o Append(queue, sample) = (stash \o queue) \o <<sample>>
      BY <1>1, <2>1
    <3>3. TagsOf((stash \o queue) \o <<sample>>) = TagsOf(stash \o queue) \o TagsOf(<<sample>>)
      BY <3>1, TagsJoined
    <3>4. TagsOf(<<sample>>) = <<pos>>
      BY <1>1 DEF TagsOf
    <3>5. QED
      BY <1>4, <2>2, <2>3, <2>4, <2>5, <3>2, <3>3, <3>4 DEF queue
  <2>6. CASE t # type
    BY <1>4, <2>2, <2>3, <2>4, <2>6, ConcatEmptySeq DEF queue
  <2>7. QED
    BY <2>5, <2>6
<1>7. QED
  BY <1>5, <1>6 DEF Result, Results, Adds, e

\* What metadata says of a track.
Say(e, type) ==
  IF Tag[type] = "" \/ source.force[type] # "no" THEN e ELSE SetHas(e, type, Tag[type] = "yes")

Says(e, d, t) ==
  \/ e.tracks[t].has = d.tracks[t].has /\ e.info.has[t] = d.info.has[t]
  \/ source.force[t] = "no" /\ Tag[t] = "yes" /\ e.tracks[t].has = TRUE /\ e.info.has[t] = "yes"
  \/ source.force[t] = "no" /\ Tag[t] = "no" /\ e.tracks[t].has = FALSE /\ e.info.has[t] = "no"

LEMMA Said ==
  ASSUME NEW d \in Demuxers, NEW type \in Types, Tag[type] \in {"yes", "no", ""}
  PROVE  LET e == Say(d, type)
         IN  /\ e \in Demuxers /\ e.queues = d.queues
             /\ e.info.codec = d.info.codec /\ e.info.mime = d.info.mime
             /\ Says(e, d, type)
             /\ \A t \in Types :
                  /\ e.tracks[t].made = d.tracks[t].made
                  /\ t # type => e.tracks[t].has = d.tracks[t].has /\ e.info.has[t] = d.info.has[t]
<1>1. CASE Tag[type] = "" \/ source.force[type] # "no"
  BY <1>1 DEF Say, Says
<1>2. CASE ~(Tag[type] = "" \/ source.force[type] # "no")
  <2> DEFINE e == Say(d, type)
  <2>1. PICK b \in BOOLEAN : b = (Tag[type] = "yes")
    OBVIOUS
  <2>2. e = SetHas(d, type, b)
    BY <1>2, <2>1 DEF Say
  <2> HIDE DEF e
  <2>3. /\ e \in Demuxers /\ e.queues = d.queues
        /\ e.info.codec = d.info.codec /\ e.info.mime = d.info.mime
        /\ \A t \in Types :
             /\ e.tracks[t].has = IF t = type THEN b ELSE d.tracks[t].has
             /\ e.tracks[t].made = d.tracks[t].made
             /\ e.info.has[t] = IF t = type THEN YesNo(b) ELSE d.info.has[t]
    <3>1. \A c \in BOOLEAN :
            LET f == SetHas(d, type, c)
            IN  /\ f \in Demuxers /\ f.queues = d.queues /\ f.dispatch = d.dispatch
                /\ f.info.codec = d.info.codec /\ f.info.mime = d.info.mime
                /\ f.info.metadata = d.info.metadata
                /\ \A t \in Types :
                     /\ f.tracks[t].has = IF t = type THEN c ELSE d.tracks[t].has
                     /\ f.tracks[t].made = d.tracks[t].made
                     /\ f.info.has[t] = IF t = type THEN YesNo(c) ELSE d.info.has[t]
      BY HasSet
    <3>2. QED
      BY <2>2, <3>1
  <2>4. Says(e, d, type)
    BY <1>2, <2>1, <2>3 DEF Says, YesNo
  <2>5. QED
    BY <2>3, <2>4 DEF e
<1>3. QED
  BY <1>1, <1>2

LEMMA ScriptRead ==
  ASSUME SourceInv, remux \in Remuxers, NEW d \in Demuxers,
         \A t \in Types : Tag[t] \in {"yes", "no", ""}
  PROVE  LET res == ParseScriptData(d)
         IN  /\ res \in Results /\ Moves(res, d)
             /\ Consistent(d) => Consistent(res.demuxer)
             /\ /\ Consistent(d) /\ Sound(d)
                /\ \A t, u \in Types : ~(Tag[t] = "no" /\ (d.tracks[t].made \/ d.info.codec[u]))
                /\ \A t \in Types : d.info.has[t] # "null"
                => Sound(res.demuxer)
<1> DEFINE e1 == Say(d, "audio")
           e2 == Say(e1, "video")
           info == [e2.info EXCEPT !.metadata = TRUE]
           read == [e2 EXCEPT !.info = info, !.dispatch = FALSE]
<1>1. "audio" \in Types /\ "video" \in Types /\ \A t \in Types : t = "audio" \/ t = "video"
  BY DEF Types
<1>2. /\ e1 \in Demuxers /\ e1.queues = d.queues
      /\ e1.info.codec = d.info.codec /\ e1.info.mime = d.info.mime
      /\ Says(e1, d, "audio")
      /\ \A t \in Types :
           /\ e1.tracks[t].made = d.tracks[t].made
           /\ t # "audio" => e1.tracks[t].has = d.tracks[t].has /\ e1.info.has[t] = d.info.has[t]
  <2>1. \A type \in Types : LET e == Say(d, type)
         IN  /\ e \in Demuxers /\ e.queues = d.queues
             /\ e.info.codec = d.info.codec /\ e.info.mime = d.info.mime
             /\ Says(e, d, type)
             /\ \A t \in Types :
                  /\ e.tracks[t].made = d.tracks[t].made
                  /\ t # type => e.tracks[t].has = d.tracks[t].has /\ e.info.has[t] = d.info.has[t]
    BY Said
  <2>2. QED
    BY <1>1, <2>1
<1> HIDE DEF e1
<1>3. /\ e2 \in Demuxers /\ e2.queues = e1.queues
      /\ e2.info.codec = e1.info.codec /\ e2.info.mime = e1.info.mime
      /\ Says(e2, e1, "video")
      /\ \A t \in Types :
           /\ e2.tracks[t].made = e1.tracks[t].made
           /\ t # "video" => e2.tracks[t].has = e1.tracks[t].has /\ e2.info.has[t] = e1.info.has[t]
  <2>1. \A type \in Types : LET e == Say(e1, type)
         IN  /\ e \in Demuxers /\ e.queues = e1.queues
             /\ e.info.codec = e1.info.codec /\ e.info.mime = e1.info.mime
             /\ Says(e, e1, type)
             /\ \A t \in Types :
                  /\ e.tracks[t].made = e1.tracks[t].made
                  /\ t # type => e.tracks[t].has = e1.tracks[t].has /\ e.info.has[t] = e1.info.has[t]
    BY <1>2, Said
  <2>2. QED
    BY <1>1, <2>1
<1> HIDE DEF e2
<1>4. \A t \in Types : Says(e2, d, t)
  <2>1. Says(e2, d, "audio")
    BY <1>1, <1>2, <1>3 DEF Says
  <2>2. Says(e2, d, "video")
    BY <1>1, <1>2, <1>3 DEF Says
  <2>3. QED
    BY <1>1, <2>1, <2>2
<1>5. e2.info \in MediaInfos
  BY <1>3, DemuxerFields
<1>6. /\ info \in MediaInfos /\ info.has = e2.info.has /\ info.codec = d.info.codec
      /\ info.mime = d.info.mime /\ info.metadata = TRUE
  BY <1>2, <1>3, <1>5 DEF MediaInfos
<1> HIDE DEF info
<1>7. read \in Demuxers /\ read.queues = d.queues /\ read.info = info /\ read.tracks = e2.tracks
  BY <1>2, <1>3, <1>6 DEF Demuxers
<1>8. ParseScriptData(d) = Result(read, remux, InfoEvents(info))
  <2>1. e2 = IF Tag["video"] = "" \/ source.force["video"] # "no" THEN e1 ELSE SetHas(e1, "video", Tag["video"] = "yes")
    BY DEF Say, e2
  <2>2. e1 = IF Tag["audio"] = "" \/ source.force["audio"] # "no" THEN d ELSE SetHas(d, "audio", Tag["audio"] = "yes")
    BY DEF Say, e1
  <2>3. ParseScriptData(d) =
          Result([e2 EXCEPT !.info.metadata = TRUE, !.dispatch = FALSE], remux,
                 InfoEvents([e2 EXCEPT !.info.metadata = TRUE, !.dispatch = FALSE].info))
    BY <2>1, <2>2 DEF ParseScriptData
  <2>4. [e2 EXCEPT !.info.metadata = TRUE, !.dispatch = FALSE] = read
    BY <1>3 DEF Demuxers, info
  <2>5. QED
    BY <1>7, <2>3, <2>4
<1> HIDE DEF read
<1>9. Result(read, remux, InfoEvents(info)) \in Results /\ Moves(Result(read, remux, InfoEvents(info)), d)
  <2>1. <<>> \in Seq(Events)
    BY NoEvents
  <2>2. InfoEvents(info) \in Seq(Events) /\ \A t \in Types : Told(t, InfoEvents(info)) = <<>>
    BY <2>1, InfoEventsSilent
  <2>3. Moves(Result(d, remux, <<>>), d)
    BY Unmoved
  <2>4. \A t \in Types : Told(t, <<>>) = <<>>
    BY NoEvents
  <2>5. QED
    BY <1>7, <2>2, <2>3, <2>4 DEF Result, Results, Moves
<1>10. \A t \in Types :
         /\ read.tracks[t].made = d.tracks[t].made /\ read.info.codec[t] = d.info.codec[t]
         /\ Says(read, d, t)
  <2>1. read.tracks = e2.tracks /\ read.info.has = e2.info.has /\ read.info.codec = d.info.codec
    BY <1>6, <1>7
  <2>2. \A t \in Types : e2.tracks[t].made = d.tracks[t].made
    BY <1>2, <1>3
  <2>3. \A t \in Types : Says(read, d, t)
    BY <1>4, <2>1 DEF Says
  <2>4. QED
    BY <2>1, <2>2, <2>3
<1>11. ASSUME Consistent(d) PROVE Consistent(read)
  BY <1>10, <1>11 DEF Consistent, Says
<1>12. ASSUME Consistent(d), Sound(d),
              \A t, u \in Types : ~(Tag[t] = "no" /\ (d.tracks[t].made \/ d.info.codec[u])),
              \A t \in Types : d.info.has[t] # "null"
       PROVE  Sound(read)
  <2>1. \A t \in Types : read.info.has[t] # "null"
    BY <1>10, <1>12 DEF Says
  <2>2. ASSUME NEW t \in Types, read.tracks[t].made PROVE read.info.has[t] # "no"
    BY <1>10, <1>12, <2>2 DEF Says, Sound
  <2>3. TypeKnown(read.info)
    <3>1. SUFFICES ASSUME There(read.info) # {}, \A t \in There(read.info) : read.info.codec[t]
                   PROVE  read.info.mime = There(read.info)
      BY DEF TypeKnown
    <3>2. PICK u \in Types : u \in There(read.info) /\ d.info.codec[u]
      BY <1>10, <3>1 DEF There
    <3>3. \A t \in Types : read.info.has[t] = d.info.has[t]
      <4>1. SUFFICES ASSUME NEW t \in Types, read.info.has[t] # d.info.has[t] PROVE FALSE
        OBVIOUS
      <4>2. Tag[t] = "yes" /\ read.info.has[t] = "yes"
        BY <1>10, <1>12, <3>2, <4>1 DEF Says
      <4>3. d.info.has[t] = "no"
        BY <1>12, <4>1, <4>2, DemuxerFields
      <4>4. d.info.codec[t]
        BY <1>10, <3>1, <4>2 DEF There
      <4>5. QED
        BY <1>12, <4>3, <4>4 DEF Consistent, Sound
    <3>4. There(read.info) = There(d.info)
      BY <3>3 DEF There
    <3>5. TypeKnown(d.info)
      BY <1>12 DEF Sound
    <3>6. d.info.mime = There(d.info)
      BY <1>10, <1>12, <3>1, <3>4, <3>5 DEF TypeKnown, There
    <3>7. QED
      BY <1>6, <1>7, <3>4, <3>6
  <2>4. QED
    BY <2>1, <2>2, <2>3 DEF Sound
<1>13. Result(read, remux, InfoEvents(info)).demuxer = read
  BY DEF Result
<1>14. QED
  BY <1>8, <1>9, <1>11, <1>12, <1>13

\* What reading any other tag with a demuxer gives.
Reads1(res, d) == res \in Results /\ Preserves(res.demuxer, d)

LEMMA FrameQueued ==
  ASSUME SourceInv, remux \in Remuxers, NEW d \in Demuxers, NEW type \in Types, pos \in Nat \ {0},
         Tag.time \in Int
  PROVE  LET res == Result(Enqueue(d, type), remux, <<>>)
         IN  Reads1(res, d) /\ Adds(res, d, type)
<1> DEFINE res == Result(Enqueue(d, type), remux, <<>>)
<1>1. res \in Results /\ Adds(res, d, type) /\ SameMedia(res.demuxer, d)
  BY NoEvents, Enqueued
<1> HIDE DEF res
<1>2. Preserves(res.demuxer, d)
  BY <1>1, SamePreserves
<1>3. QED
  BY <1>1, <1>2 DEF Reads1, res

LEMMA AACFrameRead ==
  ASSUME SourceInv, remux \in Remuxers, NEW d \in Demuxers, ~SwitchedOff("audio"), pos \in Nat \ {0},
         Tag.time \in Int
  PROVE  Reads1(ParseAACFrame(d), d) /\ Adds(ParseAACFrame(d), d, "audio")
<1> DEFINE e == FirstOf(d, "audio")
           res == Result(Enqueue(e, "audio"), remux, <<>>)
<1>1. "audio" \in Types
  BY DEF Types
<1>2. e \in Demuxers /\ e.queues = d.queues /\ Preserves(e, d)
  BY <1>1, FirstSeen
<1> HIDE DEF e
<1>3. Reads1(res, e) /\ Adds(res, e, "audio")
  BY <1>1, <1>2, FrameQueued
<1>4. ParseAACFrame(d) = res
  BY DEF ParseAACFrame, e
<1> HIDE DEF res
<1>5. Reads1(res, d)
  BY <1>2, <1>3, PreservesTransitive DEF Reads1
<1>6. Adds(res, d, "audio")
  BY <1>2, <1>3, SameMoves
<1>7. QED
  BY <1>4, <1>5, <1>6

LEMMA AVCFrameRead ==
  ASSUME SourceInv, remux \in Remuxers, NEW d \in Demuxers, pos \in Nat \ {0}, Tag.time \in Int
  PROVE  Reads1(ParseAVCFrame(d), d) /\ Adds(ParseAVCFrame(d), d, "video")
<1>1. "video" \in Types
  BY DEF Types
<1>2. QED
  BY <1>1, FrameQueued DEF ParseAVCFrame

LEMMA MP3FrameRead ==
  ASSUME SourceInv, remux \in Remuxers, NEW d \in Demuxers, ~SwitchedOff("audio"), pos \in Nat \ {0},
         Tag.time \in Int
  PROVE  Reads1(ParseMP3Frame(d), d) /\ Adds(ParseMP3Frame(d), d, "audio")
<1> DEFINE e == FirstOf(d, "audio")
           info == NoteCodec(e.info, "audio")
           e1 == [e EXCEPT !.tracks["audio"].codec = TRUE]
           e2 == [e1 EXCEPT !.tracks["audio"].told = TRUE]
           e3 == [e2 EXCEPT !.info = NoteCodec(e2.info, "audio")]
           r == TrackMetadataReceived(remux, "audio", pos, TRUE)
           o == <<Init4("audio", pos)>> \o InfoEvents(info)
           res == Result(Enqueue(e3, "audio"), r, o)
<1>1. "audio" \in Types
  BY DEF Types
<1>2. e \in Demuxers /\ e.queues = d.queues /\ Preserves(e, d) /\ e.tracks["audio"].made
  BY <1>1, FirstSeen
<1>3. ParseMP3Frame(d) =
        IF e.tracks["audio"].codec THEN Result(Enqueue(e, "audio"), remux, <<>>)
        ELSE Result(Enqueue([e EXCEPT !.tracks.audio.codec = TRUE, !.tracks.audio.told = TRUE, !.info = info],
                            "audio"), r, o)
  BY DEF ParseMP3Frame
<1> HIDE DEF e
<1>4. CASE e.tracks["audio"].codec
  <2> DEFINE res0 == Result(Enqueue(e, "audio"), remux, <<>>)
  <2>1. Reads1(res0, e) /\ Adds(res0, e, "audio")
    BY <1>1, <1>2, FrameQueued
  <2>2. ParseMP3Frame(d) = res0
    BY <1>3, <1>4
  <2> HIDE DEF res0
  <2>3. Reads1(res0, d)
    BY <1>2, <2>1, PreservesTransitive DEF Reads1
  <2>4. Adds(res0, d, "audio")
    BY <1>2, <2>1, SameMoves
  <2>5. QED
    BY <2>2, <2>3, <2>4
<1>5. CASE ~e.tracks["audio"].codec
  <2>1. e1 \in Demuxers /\ e1.queues = e.queues /\ SameMedia(e1, e)
    BY <1>1, <1>2, MarkedTold
  <2> HIDE DEF e1
  <2>2. e2 \in Demuxers /\ e2.queues = e1.queues /\ SameMedia(e2, e1)
    BY <1>1, <2>1, MarkedTold
  <2>3. [e EXCEPT !.tracks.audio.codec = TRUE, !.tracks.audio.told = TRUE, !.info = info] = [e2 EXCEPT !.info = info]
    BY <1>1, <1>2 DEF e1, Demuxers
  <2> HIDE DEF e2
  <2>4. e2.info = e.info /\ e2.tracks["audio"].made
    BY <1>1, <1>2, <2>1, <2>2 DEF SameMedia
  <2>5. e3 \in Demuxers /\ Preserves(e3, e2)
    BY <1>1, <2>2, <2>4, CodecNoted
  <2>6. e3 = [e2 EXCEPT !.info = info]
    BY <2>4
  <2>7. e3.queues = e2.queues
    BY <2>2 DEF Demuxers
  <2> HIDE DEF e3
  <2>8. r \in Remuxers /\ \A t \in Types : r[t].stash = remux[t].stash
    <3>1. \A mp3 \in BOOLEAN : LET s == TrackMetadataReceived(remux, "audio", pos, mp3)
                               IN  s \in Remuxers /\ \A t \in Types : s[t].stash = remux[t].stash
      BY <1>1, Reconfigured
    <3>2. QED
      BY <3>1
  <2>9. o \in Seq(Events) /\ \A t \in Types : Told(t, o) = <<>>
    <3>1. Init4("audio", pos) \in Events /\ Init4("audio", pos).msg # "media"
      BY <1>1, InitSilent
    <3>2. <<Init4("audio", pos)>> \in Seq(Events) /\ \A t \in Types : Told(t, <<Init4("audio", pos)>>) = <<>>
      BY <3>1, ToldNothing
    <3>3. QED
      BY <3>2, InfoEventsSilent
  <2> HIDE DEF r, o
  <2>10. res \in Results /\ Adds(res, e3, "audio") /\ SameMedia(res.demuxer, e3)
    BY <1>1, <2>5, <2>8, <2>9, Enqueued
  <2>11. ParseMP3Frame(d) = res
    BY <1>3, <1>5, <2>3, <2>6
  <2> HIDE DEF res
  <2>12. Preserves(res.demuxer, d)
    BY <1>2, <2>1, <2>2, <2>5, <2>10, SamePreserves, PreservesTransitive
  <2>13. Adds(res, d, "audio")
    BY <1>2, <2>1, <2>2, <2>7, <2>10, SameMoves
  <2>14. QED
    BY <2>10, <2>11, <2>12, <2>13 DEF Reads1
<1>6. QED
  BY <1>4, <1>5

LEMMA AACConfigRead ==
  ASSUME SourceInv, remux \in Remuxers, NEW d \in Demuxers, ~SwitchedOff("audio"), pos \in Nat \ {0}
  PROVE  Reads1(ParseAACConfig(d), d) /\ Moves(ParseAACConfig(d), d)
<1> DEFINE e == FirstOf(d, "audio")
           step == NewConfiguration(e, "audio", FALSE)
           f == [step.demuxer EXCEPT !.tracks["audio"].codec = TRUE]
           g == [f EXCEPT !.info = NoteCodec(f.info, "audio")]
           o == step.out \o InfoEvents(NoteCodec(e.info, "audio"))
           res == [demuxer |-> g, remuxer |-> step.remuxer, out |-> o]
<1>1. "audio" \in Types
  BY DEF Types
<1>2. e \in Demuxers /\ e.queues = d.queues /\ Preserves(e, d) /\ e.tracks["audio"].made
  BY <1>1, FirstSeen
<1>3. ParseAACConfig(d) = [step EXCEPT !.demuxer.tracks.audio.codec = TRUE,
                                       !.demuxer.info = NoteCodec(e.info, "audio"),
                                       !.out = @ \o InfoEvents(NoteCodec(e.info, "audio"))]
  BY DEF ParseAACConfig
<1> HIDE DEF e
<1>4. step \in Results /\ Moves(step, e) /\ SameMedia(step.demuxer, e)
  <2>1. \A mp3 \in BOOLEAN : LET s == NewConfiguration(e, "audio", mp3)
                             IN  s \in Results /\ Moves(s, e) /\ SameMedia(s.demuxer, e)
    BY <1>1, <1>2, Configured
  <2>2. QED
    BY <2>1
<1> HIDE DEF step
<1>5. step.demuxer \in Demuxers /\ step.remuxer \in Remuxers /\ step.out \in Seq(Events)
  BY <1>4 DEF Results
<1>6. f \in Demuxers /\ f.queues = step.demuxer.queues /\ SameMedia(f, step.demuxer)
  BY <1>1, <1>5, MarkedTold
<1>7. f.info = e.info /\ f.tracks["audio"].made
  BY <1>1, <1>2, <1>4, <1>6 DEF SameMedia
<1>8. ParseAACConfig(d) = res
  <2>1. step = [demuxer |-> step.demuxer, remuxer |-> step.remuxer, out |-> step.out]
    BY <1>4 DEF Results
  <2>2. ParseAACConfig(d) =
          [demuxer |-> [step.demuxer EXCEPT !.tracks.audio.codec = TRUE, !.info = NoteCodec(e.info, "audio")],
           remuxer |-> step.remuxer, out |-> o]
    BY <1>3, <2>1
  <2>3. [step.demuxer EXCEPT !.tracks.audio.codec = TRUE, !.info = NoteCodec(e.info, "audio")]
          = [f EXCEPT !.info = NoteCodec(e.info, "audio")]
    BY <1>5 DEF Demuxers
  <2>4. QED
    BY <1>7, <2>2, <2>3
<1> HIDE DEF f
<1>9. g \in Demuxers /\ Preserves(g, f)
  BY <1>1, <1>6, <1>7, CodecNoted
<1>10. g.queues = f.queues
  BY <1>6 DEF Demuxers
<1>11. o \in Seq(Events) /\ \A t \in Types : Told(t, o) = Told(t, step.out)
  BY <1>5, InfoEventsSilent
<1> HIDE DEF g, o
<1>12. res \in Results
  BY <1>5, <1>9, <1>11 DEF Results
<1>13. Moves(res, d)
  BY <1>2, <1>4, <1>6, <1>10, <1>11 DEF Moves, Held
<1>14. Preserves(g, d)
  BY <1>2, <1>4, <1>6, <1>9, SamePreserves, PreservesTransitive
<1>15. res.demuxer = g
  OBVIOUS
<1>16. QED
  BY <1>8, <1>12, <1>13, <1>14, <1>15 DEF Reads1

LEMMA ErrorSilent ==
  Event("error") \in Events /\ Event("error").msg # "media"
BY DEF Event, Events

LEMMA AVCConfigRead ==
  ASSUME SourceInv, remux \in Remuxers, NEW d \in Demuxers, ~SwitchedOff("video"), pos \in Nat \ {0}
  PROVE  Reads1(ParseAVCConfig(d), d) /\ Moves(ParseAVCConfig(d), d)
<1> DEFINE e == FirstOf(d, "video")
           info == NoteCodec(e.info, "video")
           g == [e EXCEPT !.info = info]
           step == NewConfiguration(g, "video", FALSE)
           o == InfoEvents(info) \o step.out
           p == Append(InfoEvents(info), Event("error"))
           res == [demuxer |-> step.demuxer, remuxer |-> step.remuxer, out |-> o]
           bad == Result(g, remux, p)
<1>1. "video" \in Types
  BY DEF Types
<1>2. e \in Demuxers /\ e.queues = d.queues /\ Preserves(e, d) /\ e.tracks["video"].made
  BY <1>1, FirstSeen
<1>3. ParseAVCConfig(d) = IF Tag.pps THEN [step EXCEPT !.out = InfoEvents(info) \o @] ELSE bad
  BY DEF ParseAVCConfig
<1> HIDE DEF e
<1>4. g \in Demuxers /\ Preserves(g, e)
  BY <1>1, <1>2, CodecNoted
<1>5. g.queues = e.queues
  BY <1>2 DEF Demuxers
<1>6. Preserves(g, d)
  BY <1>2, <1>4, PreservesTransitive
<1>7. <<>> \in Seq(Events) /\ \A t \in Types : Told(t, <<>>) = <<>>
  BY NoEvents
<1>8. InfoEvents(info) \in Seq(Events) /\ \A t \in Types : Told(t, InfoEvents(info)) = <<>>
  BY <1>7, InfoEventsSilent
<1> HIDE DEF g, info
<1>9. CASE Tag.pps
  <2>1. step \in Results /\ Moves(step, g) /\ SameMedia(step.demuxer, g)
    <3>1. \A mp3 \in BOOLEAN : LET s == NewConfiguration(g, "video", mp3)
                               IN  s \in Results /\ Moves(s, g) /\ SameMedia(s.demuxer, g)
      BY <1>1, <1>4, Configured
    <3>2. QED
      BY <3>1
  <2> HIDE DEF step
  <2>2. step.demuxer \in Demuxers /\ step.remuxer \in Remuxers /\ step.out \in Seq(Events)
    BY <2>1 DEF Results
  <2>3. [step EXCEPT !.out = InfoEvents(info) \o @] = res
    <3>1. step = [demuxer |-> step.demuxer, remuxer |-> step.remuxer, out |-> step.out]
      BY <2>1 DEF Results
    <3>2. [step EXCEPT !.out = InfoEvents(info) \o @] = [step EXCEPT !.out = o]
      OBVIOUS
    <3> HIDE DEF o
    <3>3. [step EXCEPT !.out = o] = res
      BY <3>1
    <3>4. QED
      BY <3>2, <3>3
  <2>4. o \in Seq(Events) /\ \A t \in Types : Told(t, o) = Told(t, step.out)
    BY <2>2, InfoEventsSilent DEF info
  <2> HIDE DEF o
  <2>5. res \in Results
    BY <2>2, <2>4 DEF Results
  <2>6. Moves(res, d)
    BY <1>2, <1>5, <2>1, <2>4 DEF Moves, Held
  <2>7. Preserves(res.demuxer, d)
    BY <1>6, <2>1, SamePreserves, PreservesTransitive
  <2>8. QED
    BY <1>3, <1>9, <2>3, <2>5, <2>6, <2>7 DEF Reads1
<1>10. CASE ~Tag.pps
  <2>1. p \in Seq(Events) /\ \A t \in Types : Told(t, p) = <<>>
    BY <1>8, ErrorSilent, ToldSame
  <2> HIDE DEF p
  <2>2. bad \in Results
    BY <1>4, <2>1 DEF Result, Results
  <2>3. Moves(Result(d, remux, <<>>), d)
    BY Unmoved
  <2>4. Moves(bad, d)
    BY <1>2, <1>5, <1>7, <2>1, <2>3 DEF Moves, Held, Result
  <2>5. bad.demuxer = g
    BY DEF Result
  <2>6. QED
    BY <1>3, <1>6, <1>10, <2>2, <2>4, <2>5 DEF Reads1
<1>11. QED
  BY <1>9, <1>10

\* A tag that is passed over.
LEMMA Skipped ==
  ASSUME SourceInv, remux \in Remuxers, demux \in Demuxers
  PROVE  /\ Turn \in Demuxers /\ Turn.queues = demux.queues /\ Preserves(Turn, demux)
         /\ SameMedia(Turn, demux)
         /\ Reads1(Skip, Turn) /\ Moves(Skip, Turn)
<1>1. Turn \in Demuxers /\ Turn.queues = demux.queues /\ SameMedia(Turn, demux)
  <2>1. "audio" \in Types
    BY DEF Types
  <2>2. QED
    BY <2>1, MarkedTold DEF Turn
<1>2. Preserves(Turn, demux)
  BY <1>1, SamePreserves
<1>3. Skip \in Results /\ Moves(Skip, Turn)
  BY <1>1, Unmoved DEF Skip
<1>4. Skip.demuxer = Turn
  BY DEF Skip, Result
<1>5. Preserves(Turn, Turn)
  BY DEF Preserves
<1>6. QED
  BY <1>1, <1>2, <1>3, <1>4, <1>5 DEF Reads1

-----------------------------------------------------------------------------
(* The steps. *)

\* What is known of the media, unless the order of the metadata denied it.
InfoInv == Consistent(demux) /\ (lapses \cap {"denied", "late"} = {} => Sound(demux))

Inv == TypeInv /\ KeptInv /\ InfoInv

LEMMA SourceTags ==
  ASSUME source \in Sources
  PROVE  /\ SourceInv
         /\ DOMAIN source.tags \subseteq Nat \ {0} /\ DOMAIN source.tags # {}
         /\ \A i \in DOMAIN source.tags :
              /\ source.tags[i].kind = "header" =>
                   source.tags[i].audio \in BOOLEAN /\ source.tags[i].video \in BOOLEAN
              /\ source.tags[i].kind = "script" =>
                   source.tags[i].audio \in {"yes", "no", ""} /\ source.tags[i].video \in {"yes", "no", ""}
              /\ source.tags[i].kind \in {"aac", "mp3", "avc"} => source.tags[i].time \in Int
<1>1. /\ Len(source.tags) \in Nat \ {0} /\ DOMAIN source.tags = 1 .. Len(source.tags)
      /\ \A i \in DOMAIN source.tags :
           /\ source.tags[i].kind = "header" => {source.tags[i].audio, source.tags[i].video} \subseteq BOOLEAN
           /\ source.tags[i].kind = "script" =>
                {source.tags[i].audio, source.tags[i].video} \subseteq {"yes", "no", ""}
           /\ source.tags[i].kind \in {"aac", "mp3", "avc"} => source.tags[i].time \in Nat
      /\ source.force \in [Types -> {"no", "on", "off"}]
  BY DemuxerAssumption
<1>2. \A n \in Nat \ {0} : 1 .. n \subseteq Nat \ {0} /\ 1 \in 1 .. n
  OBVIOUS
<1>3. DOMAIN source.tags \subseteq Nat \ {0} /\ DOMAIN source.tags # {}
  BY <1>1, <1>2, Zenon
<1>4. ASSUME NEW i \in DOMAIN source.tags
      PROVE  /\ source.tags[i].kind = "header" =>
                  source.tags[i].audio \in BOOLEAN /\ source.tags[i].video \in BOOLEAN
             /\ source.tags[i].kind = "script" =>
                  source.tags[i].audio \in {"yes", "no", ""} /\ source.tags[i].video \in {"yes", "no", ""}
             /\ source.tags[i].kind \in {"aac", "mp3", "avc"} => source.tags[i].time \in Int
  <2>1. Nat \subseteq Int
    OBVIOUS
  <2>2. QED
    BY <1>1, <2>1, Zenon
<1>5. SourceInv
  BY <1>1 DEF SourceInv
<1>6. QED
  BY <1>3, <1>4, <1>5

\* What a step conserves, of what it holds before and after.
LEMMA MovesConserves ==
  ASSUME TypeInv, NEW res \in Results, Moves(res, demux),
         demux' = res.demuxer, remux' = res.remuxer, out' = res.out, \A t \in Types : Arriving(t) = <<>>
  PROVE  Conserves
<1>1. ASSUME NEW t \in Types
      PROVE  RealTags(Emitted(t, out')) \o Pending(t)' = Pending(t) \o Arriving(t)
  <2>1. Held(remux, demux.queues, t) \in Seq(Nat)
    BY HeldType DEF TypeInv, Demuxers
  <2>2. RealTags(Emitted(t, out')) \o Pending(t)' = Held(remux, demux.queues, t)
    BY DEF Moves, Told, Held, Pending
  <2>3. Pending(t) = Held(remux, demux.queues, t)
    BY DEF Held, Pending
  <2>4. QED
    BY <2>1, <2>2, <2>3, ConcatEmptySeq
<1>2. QED
  BY <1>1 DEF Conserves

LEMMA AddsConserves ==
  ASSUME NEW res \in Results, NEW type \in Types, Adds(res, demux, type),
         demux' = res.demuxer, remux' = res.remuxer, out' = res.out,
         \A t \in Types : Arriving(t) = IF t = type THEN <<pos>> ELSE <<>>
  PROVE  Conserves
<1>1. ASSUME NEW t \in Types
      PROVE  RealTags(Emitted(t, out')) \o Pending(t)' = Pending(t) \o Arriving(t)
  <2>1. RealTags(Emitted(t, out')) \o Pending(t)' = Held(remux, demux.queues, t) \o Arriving(t)
    BY DEF Adds, Told, Held, Pending
  <2>2. Pending(t) = Held(remux, demux.queues, t)
    BY DEF Held, Pending
  <2>3. QED
    BY <2>1, <2>2
<1>2. QED
  BY <1>1 DEF Conserves

\* A tag is read: the types, and nothing is between chunks.
LEMMA ParseTyped ==
  ASSUME TypeInv, NEW res \in Results, Parse(res)
  PROVE  /\ TypeInv' /\ KeptInv'
         /\ demux' = res.demuxer /\ remux' = res.remuxer /\ out' = res.out
         /\ pos' = pos + 1 /\ source' = source
<1>1. /\ demux' = res.demuxer /\ remux' = res.remuxer /\ out' = res.out
      /\ pos' = pos + 1 /\ source' = source /\ stage' = "chunk"
  BY DEF Parse, Puts
<1>2. res.demuxer \in Demuxers /\ res.remuxer \in Remuxers
  BY DEF Results
<1>3. QED
  BY <1>1, <1>2 DEF TypeInv, KeptInv

LEMMA InfoKept ==
  ASSUME InfoInv, source' = source, Preserves(demux', demux), lapses \subseteq lapses'
  PROVE  InfoInv'
<1>1. Consistent(demux)' <=> Consistent(demux')
  BY DEF Consistent
<1>2. Sound(demux)' <=> Sound(demux')
  BY DEF Sound
<1>3. Consistent(demux')
  BY DEF InfoInv, Preserves
<1>4. lapses' \cap {"denied", "late"} = {} => lapses \cap {"denied", "late"} = {}
  OBVIOUS
<1>5. QED
  BY <1>1, <1>2, <1>3, <1>4 DEF InfoInv, Preserves

\* A step that reads a tag other than metadata.
LEMMA TagRead ==
  ASSUME Inv, NEW res, Reads1(res, Turn), Parse(res), lapses \subseteq lapses',
         \/ Moves(res, Turn) /\ \A t \in Types : Arriving(t) = <<>>
         \/ \E type \in Types : /\ Adds(res, Turn, type)
                                /\ \A t \in Types : Arriving(t) = IF t = type THEN <<pos>> ELSE <<>>
  PROVE  Inv' /\ Conserves
<1>1. source \in Sources /\ remux \in Remuxers /\ demux \in Demuxers
  BY DEF Inv, TypeInv
<1>2. SourceInv
  BY <1>1, SourceTags
<1>3. Turn \in Demuxers /\ Turn.queues = demux.queues /\ Preserves(Turn, demux)
  BY <1>1, <1>2, Skipped
<1>4. res \in Results /\ Preserves(res.demuxer, demux)
  BY <1>3, PreservesTransitive DEF Reads1
<1>5. /\ TypeInv' /\ KeptInv'
      /\ demux' = res.demuxer /\ remux' = res.remuxer /\ out' = res.out
      /\ pos' = pos + 1 /\ source' = source
  BY <1>4, ParseTyped DEF Inv
<1>6. InfoInv'
  BY <1>4, <1>5, InfoKept DEF Inv
<1>7. Conserves
  <2>1. CASE Moves(res, Turn) /\ \A t \in Types : Arriving(t) = <<>>
    <3>1. Moves(res, demux)
      BY <1>3, <2>1, SameMoves
    <3>2. QED
      BY <1>4, <1>5, <2>1, <3>1, MovesConserves DEF Inv
  <2>2. CASE \E type \in Types : /\ Adds(res, Turn, type)
                                 /\ \A t \in Types : Arriving(t) = IF t = type THEN <<pos>> ELSE <<>>
    <3>1. PICK type \in Types : /\ Adds(res, Turn, type)
                                /\ \A t \in Types : Arriving(t) = IF t = type THEN <<pos>> ELSE <<>>
      BY <2>2
    <3>2. Adds(res, demux, type)
      BY <1>3, <3>1, SameMoves
    <3>3. QED
      BY <1>4, <1>5, <3>1, <3>2, AddsConserves
  <2>3. QED
    BY <2>1, <2>2
<1>8. QED
  BY <1>5, <1>6, <1>7 DEF Inv

\* What a tag is.
LEMMA TagType ==
  ASSUME TypeInv, NEW kind, Reads(kind)
  PROVE  /\ SourceInv /\ pos \in Nat \ {0} /\ Tag.kind = kind /\ remux \in Remuxers /\ demux \in Demuxers
         /\ kind = "script" => Tag["audio"] \in {"yes", "no", ""} /\ Tag["video"] \in {"yes", "no", ""}
         /\ kind \in {"aac", "mp3", "avc"} => Tag.time \in Int
<1>1. pos \in DOMAIN source.tags /\ source.tags[pos].kind = kind
  BY DEF Reads, Tag
<1>2. QED
  BY <1>1, SourceTags DEF TypeInv, Tag

LEMMA FrameStep ==
  ASSUME Inv, AACFrame \/ MP3Frame \/ AVCFrame
  PROVE  Inv' /\ Conserves
<1> DEFINE res(type, parsed) == IF SwitchedOff(type) THEN Skip ELSE parsed
<1>1. "audio" \in Types /\ "video" \in Types /\ \A t \in Types : t = "audio" \/ t = "video"
  BY DEF Types
<1>2. TypeInv
  BY DEF Inv
<1>3. lapses \subseteq lapses'
  BY DEF AACFrame, MP3Frame, AVCFrame
<1>4. pos' = pos + 1
  BY DEF AACFrame, MP3Frame, AVCFrame, Parse
<1>5. CASE AACFrame
  <2>1. SourceInv /\ pos \in Nat \ {0} /\ remux \in Remuxers /\ demux \in Demuxers /\ Tag.time \in Int /\ Tag.kind = "aac"
    BY <1>2, <1>5, TagType DEF AACFrame
  <2>2. Turn \in Demuxers /\ Reads1(Skip, Turn) /\ Moves(Skip, Turn)
    BY <2>1, Skipped
  <2>3. Arriving("video") = <<>> /\ Arriving("audio") = IF SwitchedOff("audio") THEN <<>> ELSE <<pos>>
    BY <1>4, <2>1 DEF Arriving, FrameKinds
  <2>4. CASE SwitchedOff("audio")
    <3>1. Parse(Skip)
      BY <1>5, <2>4 DEF AACFrame
    <3>2. QED
      BY <1>1, <1>3, <2>2, <2>3, <2>4, <3>1, TagRead
  <2>5. CASE ~SwitchedOff("audio")
    <3>1. Parse(ParseAACFrame(Turn))
      BY <1>5, <2>5 DEF AACFrame
    <3>2. Reads1(ParseAACFrame(Turn), Turn) /\ Adds(ParseAACFrame(Turn), Turn, "audio")
      BY <2>1, <2>2, <2>5, AACFrameRead
    <3>3. QED
      BY <1>1, <1>3, <2>3, <2>5, <3>1, <3>2, TagRead
  <2>6. QED
    BY <2>4, <2>5
<1>6. CASE MP3Frame
  <2>1. SourceInv /\ pos \in Nat \ {0} /\ remux \in Remuxers /\ demux \in Demuxers /\ Tag.time \in Int /\ Tag.kind = "mp3"
    BY <1>2, <1>6, TagType DEF MP3Frame
  <2>2. Turn \in Demuxers /\ Reads1(Skip, Turn) /\ Moves(Skip, Turn)
    BY <2>1, Skipped
  <2>3. Arriving("video") = <<>> /\ Arriving("audio") = IF SwitchedOff("audio") THEN <<>> ELSE <<pos>>
    BY <1>4, <2>1 DEF Arriving, FrameKinds
  <2>4. CASE SwitchedOff("audio")
    <3>1. Parse(Skip)
      BY <1>6, <2>4 DEF MP3Frame
    <3>2. QED
      BY <1>1, <1>3, <2>2, <2>3, <2>4, <3>1, TagRead
  <2>5. CASE ~SwitchedOff("audio")
    <3>1. Parse(ParseMP3Frame(Turn))
      BY <1>6, <2>5 DEF MP3Frame
    <3>2. Reads1(ParseMP3Frame(Turn), Turn) /\ Adds(ParseMP3Frame(Turn), Turn, "audio")
      BY <2>1, <2>2, <2>5, MP3FrameRead
    <3>3. QED
      BY <1>1, <1>3, <2>3, <2>5, <3>1, <3>2, TagRead
  <2>6. QED
    BY <2>4, <2>5
<1>7. CASE AVCFrame
  <2>1. SourceInv /\ pos \in Nat \ {0} /\ remux \in Remuxers /\ demux \in Demuxers /\ Tag.time \in Int /\ Tag.kind = "avc"
    BY <1>2, <1>7, TagType DEF AVCFrame
  <2>2. Turn \in Demuxers /\ Reads1(Skip, Turn) /\ Moves(Skip, Turn)
    BY <2>1, Skipped
  <2>3. Arriving("audio") = <<>> /\ Arriving("video") = IF SwitchedOff("video") THEN <<>> ELSE <<pos>>
    BY <1>4, <2>1 DEF Arriving, FrameKinds
  <2>4. CASE SwitchedOff("video")
    <3>1. Parse(Skip)
      BY <1>7, <2>4 DEF AVCFrame
    <3>2. QED
      BY <1>1, <1>3, <2>2, <2>3, <2>4, <3>1, TagRead
  <2>5. CASE ~SwitchedOff("video")
    <3>1. Parse(ParseAVCFrame(Turn))
      BY <1>7, <2>5 DEF AVCFrame
    <3>2. Reads1(ParseAVCFrame(Turn), Turn) /\ Adds(ParseAVCFrame(Turn), Turn, "video")
      BY <2>1, <2>2, AVCFrameRead
    <3>3. QED
      BY <1>1, <1>3, <2>3, <2>5, <3>1, <3>2, TagRead
  <2>6. QED
    BY <2>4, <2>5
<1>8. QED
  BY <1>5, <1>6, <1>7

LEMMA ConfigurationStep ==
  ASSUME Inv, AACConfig \/ AVCConfig \/ OtherTag
  PROVE  Inv' /\ Conserves
<1>1. "audio" \in Types /\ "video" \in Types /\ \A t \in Types : t = "audio" \/ t = "video"
  BY DEF Types
<1>2. TypeInv
  BY DEF Inv
<1>3. lapses \subseteq lapses'
  BY DEF AACConfig, AVCConfig, OtherTag, Early
<1>4. \E kind \in {"aac config", "avc config", "unsupported", "ignored"} : Reads(kind)
  BY DEF AACConfig, AVCConfig, OtherTag
<1>5. /\ SourceInv /\ pos \in Nat \ {0} /\ remux \in Remuxers /\ demux \in Demuxers
      /\ Tag.kind \in {"aac config", "avc config", "unsupported", "ignored"}
  BY <1>2, <1>4, TagType
<1>6. \A t \in Types : Arriving(t) = <<>>
  BY <1>5 DEF Arriving, FrameKinds
<1>7. Turn \in Demuxers /\ Reads1(Skip, Turn) /\ Moves(Skip, Turn)
  BY <1>5, Skipped
<1>8. CASE Parse(Skip)
  BY <1>3, <1>6, <1>7, <1>8, TagRead
<1>9. CASE Parse(ParseAACConfig(Turn)) /\ ~SwitchedOff("audio")
  <2>1. Reads1(ParseAACConfig(Turn), Turn) /\ Moves(ParseAACConfig(Turn), Turn)
    BY <1>5, <1>7, <1>9, AACConfigRead
  <2>2. QED
    BY <1>3, <1>6, <1>9, <2>1, TagRead
<1>10. CASE Parse(ParseAVCConfig(Turn)) /\ ~SwitchedOff("video")
  <2>1. Reads1(ParseAVCConfig(Turn), Turn) /\ Moves(ParseAVCConfig(Turn), Turn)
    BY <1>5, <1>7, <1>10, AVCConfigRead
  <2>2. QED
    BY <1>3, <1>6, <1>10, <2>1, TagRead
<1>11. CASE OtherTag
  <2> DEFINE o == IF Tag.kind = "unsupported" THEN <<Event("error")>> ELSE <<>>
             res == Result(Turn, remux, o)
  <2>1. [Skip EXCEPT !.out = o] = res
    BY DEF Skip, Result
  <2>2. Parse(res)
    BY <1>11, <2>1 DEF OtherTag
  <2>3. o \in Seq(Events) /\ \A t \in Types : Told(t, o) = <<>>
    <3>1. <<Event("error")>> \in Seq(Events) /\ \A t \in Types : Told(t, <<Event("error")>>) = <<>>
      BY ErrorSilent, ToldNothing
    <3>2. QED
      BY <3>1, NoEvents
  <2> HIDE DEF o
  <2>4. res \in Results
    BY <1>5, <1>7, <2>3 DEF Result, Results
  <2>5. Moves(res, Turn)
    BY <1>7, <2>3, NoEvents DEF Moves, Skip, Result
  <2>6. Reads1(res, Turn)
    BY <1>7, <2>4 DEF Reads1, Skip, Result
  <2> HIDE DEF res
  <2>7. QED
    BY <1>3, <1>6, <2>2, <2>5, <2>6, TagRead
<1>12. QED
  BY <1>8, <1>9, <1>10, <1>11 DEF AACConfig, AVCConfig

LEMMA ScriptStep ==
  ASSUME Inv, ScriptData
  PROVE  Inv' /\ Conserves
<1> DEFINE res == ParseScriptData(Turn)
<1>1. TypeInv /\ InfoInv /\ Reads("script") /\ Parse(res)
  BY DEF Inv, ScriptData
<1>2. /\ SourceInv /\ pos \in Nat \ {0} /\ remux \in Remuxers /\ demux \in Demuxers /\ Tag.kind = "script"
      /\ Tag["audio"] \in {"yes", "no", ""} /\ Tag["video"] \in {"yes", "no", ""}
  BY <1>1, TagType
<1>3. \A t \in Types : Tag[t] \in {"yes", "no", ""}
  BY <1>2 DEF Types
<1>4. Turn \in Demuxers /\ Turn.queues = demux.queues /\ Preserves(Turn, demux) /\ SameMedia(Turn, demux)
  BY <1>2, Skipped
<1>5. /\ res \in Results /\ Moves(res, Turn)
      /\ Consistent(Turn) => Consistent(res.demuxer)
      /\ /\ Consistent(Turn) /\ Sound(Turn)
         /\ \A t, u \in Types : ~(Tag[t] = "no" /\ (Turn.tracks[t].made \/ Turn.info.codec[u]))
         /\ \A t \in Types : Turn.info.has[t] # "null"
         => Sound(res.demuxer)
  BY <1>2, <1>3, <1>4, ScriptRead
<1> HIDE DEF res
<1>6. /\ TypeInv' /\ KeptInv'
      /\ demux' = res.demuxer /\ remux' = res.remuxer /\ out' = res.out
      /\ pos' = pos + 1 /\ source' = source
  BY <1>1, <1>5, ParseTyped
<1>7. Moves(res, demux)
  BY <1>4, <1>5, SameMoves
<1>8. \A t \in Types : Arriving(t) = <<>>
  BY <1>2 DEF Arriving, FrameKinds
<1>9. Conserves
  BY <1>1, <1>5, <1>6, <1>7, <1>8, MovesConserves
<1>10. Consistent(demux')
  BY <1>1, <1>4, <1>5, <1>6 DEF InfoInv, Preserves
<1>11. ASSUME lapses' \cap {"denied", "late"} = {} PROVE Sound(demux')
  <2>1. lapses \cap {"denied", "late"} = {}
    BY <1>11 DEF ScriptData
  <2>2. Consistent(Turn) /\ Sound(Turn)
    BY <1>1, <1>4, <2>1 DEF InfoInv, Preserves
  <2>3. \A t, u \in Types : ~(Tag[t] = "no" /\ (demux.tracks[t].made \/ demux.info.codec[u]))
    <3>1. SUFFICES ASSUME \E t, u \in Types : Tag[t] = "no" /\ (demux.tracks[t].made \/ demux.info.codec[u])
                   PROVE  FALSE
      OBVIOUS
    <3>2. "denied" \in lapses'
      BY <3>1 DEF ScriptData
    <3>3. QED
      BY <1>11, <3>2
  <2>4. \A t \in Types : demux.info.has[t] # "null"
    <3>1. SUFFICES ASSUME \E t \in Types : demux.info.has[t] = "null"
                   PROVE  FALSE
      OBVIOUS
    <3>2. "late" \in lapses'
      BY <3>1 DEF ScriptData
    <3>3. QED
      BY <1>11, <3>2
  <2>5. QED
    BY <1>4, <1>5, <1>6, <2>2, <2>3, <2>4 DEF SameMedia
<1>12. (Consistent(demux)' <=> Consistent(demux')) /\ (Sound(demux)' <=> Sound(demux'))
  BY <1>6 DEF Consistent, Sound
<1>13. QED
  BY <1>6, <1>9, <1>10, <1>11, <1>12 DEF Inv, InfoInv

LEMMA BeginsInInv == Init => Inv
<1> SUFFICES ASSUME Init PROVE Inv
  OBVIOUS
<1>1. NewDemuxer \in Demuxers
  <2>1. NewQueue \in Queues /\ NoInfo \in MediaInfos
    BY DEF NewQueue, Queues, NoInfo, MediaInfos
  <2>2. <<>> \in Seq(Samples)
    OBVIOUS
  <2>3. QED
    BY <2>1, <2>2 DEF NewDemuxer, Demuxers
<1>2. NewRemuxer \in Remuxers
  <2>1. <<>> \in Seq(Samples) /\ <<>> \in Seq(Infos)
    OBVIOUS
  <2>2. NewTrack \in Tracks
    BY <2>1 DEF NewTrack, Tracks, NoSegments, None, Undefined
  <2>3. QED
    BY <2>2 DEF NewRemuxer, Remuxers, Undefined
<1>3. TypeInv
  BY <1>1, <1>2 DEF Init, TypeInv
<1>4. ~InitialDispatched(demux)
  BY DEF Init, InitialDispatched, NewDemuxer, NewQueue
<1>5. Consistent(demux) /\ Sound(demux)
  <2>1. \A t \in Types : /\ demux.tracks[t].has = FALSE /\ demux.tracks[t].made = FALSE
                         /\ demux.info.has[t] = "null" /\ demux.info.codec[t] = FALSE
    BY DEF Init, NewDemuxer, NewQueue, NoInfo
  <2>2. demux.info.metadata = FALSE /\ "audio" \in Types
    BY DEF Init, NewDemuxer, NoInfo, Types
  <2>3. TypeKnown(demux.info)
    BY <2>1, <2>2 DEF TypeKnown
  <2>4. QED
    BY <2>1, <2>2, <2>3 DEF Consistent, Sound
<1>6. QED
  BY <1>3, <1>4, <1>5 DEF Inv, KeptInv, InfoInv

\* e is d, with a track that is there or is not.
HasBeenSet(e, d, type, b) ==
  /\ e \in Demuxers /\ e.info.codec = d.info.codec /\ e.info.metadata = d.info.metadata
  /\ \A t \in Types : e.tracks[t].made = d.tracks[t].made
  /\ \A t \in Types \ {type} : e.tracks[t].has = d.tracks[t].has /\ e.info.has[t] = d.info.has[t]
  /\ e.tracks[type].has = b /\ e.info.has[type] = YesNo(b)

LEMMA HasSetTo ==
  \A d \in Demuxers : \A type \in Types : \A b \in BOOLEAN : HasBeenSet(SetHas(d, type, b), d, type, b)
<1> SUFFICES ASSUME NEW d \in Demuxers, NEW type \in Types, NEW b \in BOOLEAN
             PROVE  HasBeenSet(SetHas(d, type, b), d, type, b)
  OBVIOUS
<1>1. LET f == SetHas(d, type, b)
      IN  /\ f \in Demuxers /\ f.info.codec = d.info.codec /\ f.info.metadata = d.info.metadata
          /\ \A t \in Types :
               /\ f.tracks[t].has = IF t = type THEN b ELSE d.tracks[t].has
               /\ f.tracks[t].made = d.tracks[t].made
               /\ f.info.has[t] = IF t = type THEN YesNo(b) ELSE d.info.has[t]
  BY HasSet
<1>2. QED
  BY <1>1 DEF HasBeenSet

LEMMA ProbeStep ==
  ASSUME Inv, Probe
  PROVE  Inv'
<1> DEFINE has(t) == CASE source.force[t] = "no" -> Tag[t]
                       [] OTHER -> source.force[t] = "on"
           d1 == SetHas(NewDemuxer, "audio", has("audio"))
           d2 == SetHas(d1, "video", has("video"))
<1>1. source \in Sources /\ pos \in Nat \ {0} /\ pos \in DOMAIN source.tags /\ Tag.kind = "header"
      /\ remux \in Remuxers
  BY DEF Inv, TypeInv, Probe, IsHeader, Tag
<1>2. SourceInv /\ Tag["audio"] \in BOOLEAN /\ Tag["video"] \in BOOLEAN
  BY <1>1, SourceTags DEF Tag
<1>3. "audio" \in Types /\ "video" \in Types /\ \A t \in Types : t = "audio" \/ t = "video"
  BY DEF Types
<1>4. PICK a \in BOOLEAN : a = has("audio") /\ (source.force["audio"] = "on" => a)
  BY <1>2
<1>5. PICK v \in BOOLEAN : v = has("video") /\ (source.force["video"] = "on" => v)
  BY <1>2
<1>6. demux' = d2 /\ pos' = pos + 1 /\ stage' = "chunk" /\ UNCHANGED <<source, remux, lapses>>
  BY DEF Probe
<1>7. d1 = SetHas(NewDemuxer, "audio", a) /\ d2 = SetHas(d1, "video", v)
  BY <1>4, <1>5
<1> HIDE DEF d1, d2, has
<1>8. NewDemuxer \in Demuxers
  <2>1. NewQueue \in Queues /\ NoInfo \in MediaInfos
    BY DEF NewQueue, Queues, NoInfo, MediaInfos
  <2>2. <<>> \in Seq(Samples)
    OBVIOUS
  <2>3. QED
    BY <2>1, <2>2 DEF NewDemuxer, Demuxers
<1>10. /\ d1 \in Demuxers /\ d1.info.codec = NewDemuxer.info.codec
       /\ d1.info.metadata = NewDemuxer.info.metadata
       /\ \A t \in Types : d1.tracks[t].made = NewDemuxer.tracks[t].made
       /\ d1.tracks["audio"].has = a /\ d1.info.has["audio"] = YesNo(a)
  <2>1. HasBeenSet(d1, NewDemuxer, "audio", a)
    BY <1>3, <1>7, <1>8, HasSetTo, Zenon
  <2>2. QED
    BY <2>1 DEF HasBeenSet
<1>11. /\ d2 \in Demuxers /\ d2.info.codec = d1.info.codec
       /\ d2.info.metadata = d1.info.metadata
       /\ \A t \in Types : d2.tracks[t].made = d1.tracks[t].made
       /\ \A t \in Types \ {"video"} : d2.tracks[t].has = d1.tracks[t].has /\ d2.info.has[t] = d1.info.has[t]
       /\ d2.tracks["video"].has = v /\ d2.info.has["video"] = YesNo(v)
  <2>1. HasBeenSet(d2, d1, "video", v)
    BY <1>3, <1>7, <1>10, HasSetTo, Zenon
  <2>2. QED
    BY <2>1 DEF HasBeenSet
<1>12. /\ d2.info.metadata = FALSE
       /\ \A t \in Types : d2.info.codec[t] = FALSE /\ d2.tracks[t].made = FALSE
  BY <1>10, <1>11 DEF NewDemuxer, NoInfo, NewQueue
<1>13. /\ d2.tracks["audio"].has = a /\ d2.info.has["audio"] = YesNo(a)
       /\ d2.tracks["video"].has = v /\ d2.info.has["video"] = YesNo(v)
  BY <1>3, <1>10, <1>11
<1>14. Consistent(d2)
  <2>1. /\ d2.tracks["audio"].has => d2.info.has["audio"] # "no"
        /\ source.force["audio"] = "on" => d2.info.has["audio"] # "no"
        /\ d2.tracks["video"].has => d2.info.has["video"] # "no"
        /\ source.force["video"] = "on" => d2.info.has["video"] # "no"
    BY <1>4, <1>5, <1>13 DEF YesNo
  <2>2. QED
    BY <1>3, <1>12, <2>1 DEF Consistent
<1>15. TypeKnown(d2.info)
  BY <1>12 DEF TypeKnown, There
<1>16. Sound(d2)
  BY <1>12, <1>15 DEF Sound
<1>17. TypeInv' /\ KeptInv'
  BY <1>1, <1>6, <1>11 DEF TypeInv, KeptInv
<1>18. (Consistent(demux)' <=> Consistent(demux')) /\ (Sound(demux)' <=> Sound(demux'))
  BY <1>6 DEF Consistent, Sound
<1>19. QED
  BY <1>6, <1>14, <1>16, <1>17, <1>18 DEF Inv, InfoInv

LEMMA NothingArrives ==
  ASSUME pos \in Nat, pos' = pos
  PROVE  \A t \in Types : Arriving(t) = <<>>
BY DEF Arriving

LEMMA ChunkEndsStep ==
  ASSUME Inv, NEW within \in BOOLEAN, ChunkEnds(within)
  PROVE  Inv' /\ Conserves
<1> DEFINE d == IF within THEN Turn ELSE demux
           here == InitialDispatched(d) /\ d.dispatch
           res == IF here THEN Dispatch(d) ELSE Result(d, remux, <<>>)
<1>1. /\ demux' = res.demuxer /\ remux' = res.remuxer /\ out' = res.out /\ stage' = "ready"
      /\ UNCHANGED <<source, pos, lapses>>
  BY DEF ChunkEnds, Puts
<1>2. source \in Sources /\ pos \in Nat \ {0} /\ remux \in Remuxers /\ demux \in Demuxers /\ SourceInv
  BY SourceTags DEF Inv, TypeInv
<1>3. d \in Demuxers /\ d.queues = demux.queues /\ SameMedia(d, demux)
  BY <1>2, Skipped DEF SameMedia
<1> HIDE DEF d
<1>4. /\ res \in Results /\ Moves(res, d) /\ SameMedia(res.demuxer, d)
      /\ res.demuxer.tracks = d.tracks /\ res.demuxer.dispatch = d.dispatch
      /\ here => \A t \in Types : /\ res.remuxer[t].meta = remux[t].meta
                                  /\ remux[t].meta # None => Len(res.demuxer.queues[t]) <= 1
  <2>1. CASE here
    <3>1. res = Dispatch(d)
      BY <2>1
    <3> HIDE DEF res, here
    <3>2. QED
      BY <1>2, <1>3, <3>1, Dispatched
  <2>2. CASE ~here
    <3>1. res = Result(d, remux, <<>>)
      BY <2>2
    <3> HIDE DEF res, here
    <3>2. res \in Results /\ Moves(res, d)
      BY <1>2, <1>3, <3>1, Unmoved
    <3>3. res.demuxer = d
      BY <3>1 DEF Result
    <3>4. QED
      BY <2>2, <3>2, <3>3 DEF SameMedia
  <2>3. QED
    BY <2>1, <2>2
<1>5. here <=> InitialDispatched(res.demuxer) /\ res.demuxer.dispatch
  <2> HIDE DEF res
  <2>1. QED
    BY <1>4 DEF InitialDispatched
<1> HIDE DEF res, here
<1>6. TypeInv'
  <2>1. res.demuxer \in Demuxers /\ res.remuxer \in Remuxers
    BY <1>4 DEF Results
  <2>2. QED
    BY <1>1, <1>2, <2>1 DEF TypeInv
<1>7. KeptInv'
  <2>1. InitialDispatched(demux)' <=> InitialDispatched(res.demuxer)
    BY <1>1 DEF InitialDispatched
  <2>2. QED
    BY <1>1, <1>4, <1>5, <2>1 DEF KeptInv
<1>8. InfoInv'
  <2>1. SameMedia(demux', demux)
    BY <1>1, <1>3, <1>4 DEF SameMedia
  <2>2. Preserves(demux', demux)
    BY <2>1, SamePreserves
  <2>3. QED
    BY <1>1, <2>2, InfoKept DEF Inv
<1>9. Conserves
  <2>1. Moves(res, demux)
    BY <1>3, <1>4, SameMoves
  <2>2. \A t \in Types : Arriving(t) = <<>>
    BY <1>1, <1>2, NothingArrives
  <2>3. QED
    BY <1>1, <1>4, <2>1, <2>2, MovesConserves DEF Inv
<1>10. QED
  BY <1>6, <1>7, <1>8, <1>9 DEF Inv

\* The steps between chunks leave the queues alone, and the configurations.
LEMMA KeptBetween ==
  ASSUME Inv, source' = source, pos' \in Nat \ {0}, stage # "chunk",
         demux' \in Demuxers, demux'.tracks = demux.tracks, demux'.queues = demux.queues,
         demux'.dispatch = demux.dispatch,
         remux' \in Remuxers, \A t \in Types : remux'[t].meta = remux[t].meta
  PROVE  TypeInv' /\ KeptInv'
<1>1. TypeInv'
  BY DEF Inv, TypeInv
<1>2. InitialDispatched(demux)' <=> InitialDispatched(demux)
  BY DEF InitialDispatched
<1>3. KeptInv'
  BY <1>2 DEF Inv, KeptInv
<1>4. QED
  BY <1>1, <1>3

LEMMA Discontinued ==
  ASSUME NEW r \in Remuxers
  PROVE  LET s == InsertDiscontinuity(r)
         IN  s \in Remuxers /\ \A t \in Types : s[t].meta = r[t].meta /\ s[t].stash = r[t].stash
<1> DEFINE a == [r.audio EXCEPT !.next = Undefined]
           v == [r.video EXCEPT !.next = Undefined]
<1>1. Undefined \in Int
  BY DEF Undefined
<1>2. r.audio \in Tracks /\ r.video \in Tracks
  BY DEF Remuxers
<1>3. /\ a \in Tracks /\ a.meta = r.audio.meta /\ a.stash = r.audio.stash
      /\ v \in Tracks /\ v.meta = r.video.meta /\ v.stash = r.video.stash
  BY <1>1, <1>2 DEF Tracks
<1>4. InsertDiscontinuity(r) = [r EXCEPT !.audio = a, !.video = v]
  BY DEF InsertDiscontinuity, Remuxers
<1> HIDE DEF a, v
<1>5. QED
  BY <1>3, <1>4 DEF Remuxers, Types

LEMMA Sought ==
  ASSUME NEW r \in Remuxers
  PROVE  LET s == SeekRemuxer(r)
         IN  s \in Remuxers /\ \A t \in Types : s[t].meta = r[t].meta
<1> DEFINE a == [r.audio EXCEPT !.stash = <<>>, !.infos = NoSegments]
           v == [r.video EXCEPT !.stash = <<>>, !.infos = NoSegments]
<1>1. <<>> \in Seq(Samples) /\ NoSegments \in [segments: Seq(Infos), location: Nat]
  <2>1. <<>> \in Seq(Samples) /\ <<>> \in Seq(Infos)
    OBVIOUS
  <2>2. QED
    BY <2>1 DEF NoSegments
<1>2. r.audio \in Tracks /\ r.video \in Tracks
  BY DEF Remuxers
<1>3. a \in Tracks /\ a.meta = r.audio.meta /\ v \in Tracks /\ v.meta = r.video.meta
  BY <1>1, <1>2 DEF Tracks
<1>4. SeekRemuxer(r) = [r EXCEPT !.audio = a, !.video = v]
  BY DEF SeekRemuxer, Remuxers
<1> HIDE DEF a, v
<1>5. QED
  BY <1>3, <1>4 DEF Remuxers, Types

LEMMA CompleteStep ==
  ASSUME Inv, Complete
  PROVE  Inv'
<1> DEFINE step == FlushStashedSamples(remux, source)
<1>1. remux' = step.remuxer /\ stage = "ready" /\ UNCHANGED <<source, pos, demux>> /\ lapses \subseteq lapses'
  BY DEF Complete
<1>2. remux \in Remuxers /\ demux \in Demuxers /\ pos \in Nat \ {0}
  BY DEF Inv, TypeInv
<1>3. step \in Steps /\ \A t \in Types : step.remuxer[t].meta = remux[t].meta
  BY <1>2, AllFlushed
<1> HIDE DEF step
<1>4. remux' \in Remuxers /\ \A t \in Types : remux'[t].meta = remux[t].meta
  BY <1>1, <1>3 DEF Steps
<1>5. TypeInv' /\ KeptInv'
  BY <1>1, <1>2, <1>4, KeptBetween
<1>6. InfoInv'
  BY <1>1, InfoKept DEF Inv, Preserves
<1>7. QED
  BY <1>5, <1>6 DEF Inv

LEMMA ResumeStep ==
  ASSUME Inv, Resume
  PROVE  Inv' /\ Conserves
<1>1. /\ remux' = InsertDiscontinuity(remux) /\ stage = "ready" /\ out' = <<>>
      /\ UNCHANGED <<source, pos, demux>> /\ lapses \subseteq lapses'
  BY DEF Resume
<1>2. remux \in Remuxers /\ demux \in Demuxers /\ pos \in Nat \ {0}
  BY DEF Inv, TypeInv
<1>3. remux' \in Remuxers /\ \A t \in Types : remux'[t].meta = remux[t].meta /\ remux'[t].stash = remux[t].stash
  BY <1>1, <1>2, Discontinued
<1>4. TypeInv' /\ KeptInv'
  BY <1>1, <1>2, <1>3, KeptBetween
<1>5. InfoInv'
  BY <1>1, InfoKept DEF Inv, Preserves
<1>6. Conserves
  <2> DEFINE res == Result(demux, remux', <<>>)
  <2>1. res \in Results
    BY <1>2, <1>3, NoEvents DEF Result, Results
  <2>2. Moves(Result(demux, remux, <<>>), demux)
    BY <1>2, Unmoved
  <2>3. Moves(res, demux)
    BY <1>3, <2>2 DEF Moves, Held, Result
  <2>4. demux' = res.demuxer /\ remux' = res.remuxer /\ out' = res.out
    BY <1>1 DEF Result
  <2> HIDE DEF res
  <2>5. \A t \in Types : Arriving(t) = <<>>
    BY <1>1, <1>2, NothingArrives
  <2>6. QED
    BY <2>1, <2>3, <2>4, <2>5, MovesConserves DEF Inv
<1>7. QED
  BY <1>4, <1>5, <1>6 DEF Inv

LEMMA SeekStep ==
  ASSUME Inv, NEW i \in DOMAIN source.tags, SeekTo(i) \/ OpenPart(i)
  PROVE  Inv'
<1>1. SoughtFrom(i) /\ lapses \subseteq lapses' /\ (demux' = demux \/ demux' = [demux EXCEPT !.info = NoInfo])
  BY DEF SeekTo, OpenPart
<1>2. /\ stage # "chunk" /\ pos' = i /\ source' = source
      /\ remux' = InsertDiscontinuity(SeekRemuxer(remux))
  BY <1>1 DEF SoughtFrom
<1>3. source \in Sources /\ remux \in Remuxers /\ demux \in Demuxers
  BY DEF Inv, TypeInv
<1>4. i \in Nat \ {0}
  BY <1>3, SourceTags
<1>5. remux' \in Remuxers /\ \A t \in Types : remux'[t].meta = remux[t].meta
  <2>1. SeekRemuxer(remux) \in Remuxers /\ \A t \in Types : SeekRemuxer(remux)[t].meta = remux[t].meta
    BY <1>3, Sought
  <2>2. QED
    BY <1>2, <2>1, Discontinued
<1>6. CASE demux' = demux
  <2>1. TypeInv' /\ KeptInv'
    BY <1>2, <1>3, <1>4, <1>5, <1>6, KeptBetween
  <2>2. InfoInv'
    BY <1>1, <1>2, <1>6, InfoKept DEF Inv, Preserves
  <2>3. QED
    BY <2>1, <2>2 DEF Inv
<1>7. CASE demux' = [demux EXCEPT !.info = NoInfo]
  <2>1. NoInfo \in MediaInfos
    BY DEF NoInfo, MediaInfos
  <2>2. /\ demux' \in Demuxers /\ demux'.tracks = demux.tracks /\ demux'.queues = demux.queues
        /\ demux'.dispatch = demux.dispatch /\ demux'.info = NoInfo
    BY <1>3, <1>7, <2>1 DEF Demuxers
  <2>3. TypeInv' /\ KeptInv'
    BY <1>2, <1>3, <1>4, <1>5, <2>2, KeptBetween
  <2>4. /\ \A t \in Types : NoInfo.has[t] = "null" /\ NoInfo.codec[t] = FALSE
        /\ NoInfo.metadata = FALSE /\ "audio" \in Types
    BY DEF NoInfo, Types
  <2>5. Consistent(demux')
    BY <2>2, <2>4 DEF Consistent
  <2>6. TypeKnown(NoInfo)
    BY <2>4 DEF TypeKnown
  <2>7. Sound(demux')
    BY <2>2, <2>4, <2>6 DEF Sound
  <2>8. (Consistent(demux)' <=> Consistent(demux')) /\ (Sound(demux)' <=> Sound(demux'))
    BY <1>2 DEF Consistent, Sound
  <2>9. QED
    BY <2>3, <2>5, <2>7, <2>8 DEF Inv, InfoInv
<1>8. QED
  BY <1>1, <1>6, <1>7

\* One step of each kind.
LEMMA Preserved ==
  ASSUME Inv, [Next]_vars
  PROVE  /\ Inv'
         /\ [Conserves \/ Complete \/ \E i \in DOMAIN source.tags : SeekTo(i) \/ OpenPart(i) \/ Probe]_vars
<1>1. CASE AACFrame \/ MP3Frame \/ AVCFrame
  BY <1>1, FrameStep
<1>2. CASE AACConfig \/ AVCConfig \/ OtherTag
  BY <1>2, ConfigurationStep
<1>3. CASE ScriptData
  BY <1>3, ScriptStep
<1>4. CASE Probe
  <2>1. pos \in DOMAIN source.tags
    BY <1>4 DEF Probe, IsHeader
  <2>2. QED
    BY <1>4, <2>1, ProbeStep
<1>5. CASE Complete
  BY <1>5, CompleteStep
<1>6. CASE Resume
  BY <1>6, ResumeStep
<1>7. CASE \E within \in BOOLEAN : ChunkEnds(within)
  BY <1>7, ChunkEndsStep
<1>8. CASE \E i \in DOMAIN source.tags : SeekTo(i) \/ OpenPart(i)
  BY <1>8, SeekStep
<1>9. CASE UNCHANGED vars
  <2>1. TypeInv' /\ KeptInv' /\ InfoInv'
    BY <1>9 DEF vars, Inv, TypeInv, KeptInv, InfoInv, InitialDispatched, Consistent, Sound, TypeKnown, There
  <2>2. QED
    BY <1>9, <2>1 DEF Inv
<1>10. QED
  BY <1>1, <1>2, <1>3, <1>4, <1>5, <1>6, <1>7, <1>8, <1>9 DEF Next

LEMMA Invariant == Spec => []Inv
<1>1. Init => Inv
  BY BeginsInInv
<1>2. Inv /\ [Next]_vars => Inv'
  BY Preserved
<1>3. QED
  BY <1>1, <1>2, PTL DEF Spec

-----------------------------------------------------------------------------

\* The demuxer and the remuxer keep to their types through every chunk, seek,
\* continuation and part: what parseChunks, remux and the segment lists hand
\* to each other always has the form that the other expects.
THEOREM MediaTypeCorrect == Spec => []TypeInv
<1>1. Inv => TypeInv
  BY DEF Inv
<1>2. QED
  BY <1>1, Invariant, PTL

\* Between chunks the queues keep back at most one frame of a track whose
\* configuration is known: the end of parseChunks hands the rest over.
THEOREM LittleKeptBack == Spec => []KeptBack
<1>1. Inv => KeptBack
  BY DEF Inv, KeptInv, KeptBack
<1>2. QED
  BY <1>1, Invariant, PTL

\* The media info that is put together from tags in any order is complete
\* exactly when the codecs are known of all tracks there are, and names those.
THEOREM MediaInfoTrue == Spec => []InfoTrue
<1>1. Inv => InfoTrue
  <2>1. SUFFICES ASSUME Inv, lapses \cap {"denied", "late"} = {}, demux.info.metadata, There(demux.info) # {}
                 PROVE  /\ InfoComplete(demux.info) <=> \A t \in There(demux.info) : demux.info.codec[t]
                        /\ InfoComplete(demux.info) => demux.info.mime = There(demux.info)
    BY DEF InfoTrue, There
  <2>2. Sound(demux) /\ demux \in Demuxers
    BY <2>1 DEF Inv, InfoInv, TypeInv
  <2>3. \A t \in Types : demux.info.has[t] \in {"yes", "no"}
    BY <2>1, <2>2, DemuxerFields DEF Sound
  <2>4. (\A t \in There(demux.info) : demux.info.codec[t]) => demux.info.mime = There(demux.info)
    BY <2>1, <2>2, <2>3 DEF Sound, TypeKnown
  <2>5. InfoComplete(demux.info) => \A t \in There(demux.info) : demux.info.codec[t]
    BY DEF InfoComplete, There
  <2>6. (\A t \in There(demux.info) : demux.info.codec[t]) => InfoComplete(demux.info)
    BY <2>1, <2>3, <2>4 DEF InfoComplete, There
  <2>7. QED
    BY <2>4, <2>5, <2>6
<1>2. QED
  BY <1>1, Invariant, PTL

\* Whatever the chunks are, no frame is lost, doubled or moved between the
\* queues, the stash and the segments.
THEOREM FramesConserved == Spec => Conserved
<1>1. Inv /\ [Next]_vars =>
        [Conserves \/ Complete \/ \E i \in DOMAIN source.tags : SeekTo(i) \/ OpenPart(i) \/ Probe]_vars
  BY Preserved
<1>2. QED
  BY <1>1, Invariant, PTL DEF Spec, Conserved
=============================================================================
