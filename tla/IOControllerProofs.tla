-------------------------- MODULE IOControllerProofs --------------------------
(***************************************************************************)
(* What the stash of IOController promises, proved for a file of any       *)
(* length with tags anywhere, loaders that hand over chunks of any size,   *)
(* and stashes and speeds of any size.                                     *)
(***************************************************************************)
EXTENDS IOController, SequenceTheorems, NaturalsInduction, WellFoundedInduction, TLAPS

\* A position before a byte, or of the byte given out last.
Places == Nat \cup {-1}

IOs == [live: BOOLEAN, enableStash: BOOLEAN, stash: Seq(0 .. Total), stashByteStart: Nat,
        stashInitialSize: Nat \ {0}, stashSize: Nat, bufferSize: Nat, to: Places,
        totalLength: 0 .. Total, fullRequestFlag: BOOLEAN, reconnecting: BOOLEAN,
        paused: BOOLEAN, resumeFrom: Nat, speed: Nat, requests: Nat, open: BOOLEAN]

LoaderStates == [phase: {"open", "aborted", "failed", "done", "destroyed"},
                 from: Nat, got: Nat, length: BOOLEAN]

Handed == [at: Nat, bytes: Seq(0 .. Total), wanted: Nat]

Runs == [s: IOs, need: Nat, given: Seq(Handed), from: Places]

\* Where the next byte of the request that is out lies in the file.
At == loader.from + loader.got

\* The types.
TypeInv ==
  /\ io \in IOs /\ loader \in LoaderStates /\ At \in Nat /\ need \in Nat
  /\ given \in Seq(Handed) /\ verdict \in {"none", "complete", "error"}

\* What is stashed fits the buffer, which never becomes smaller; the size of the
\* stash does, or is the configured one, to which a new request returns it.
Fits(s) ==
  /\ Len(s.stash) <= s.bufferSize
  /\ s.stashSize <= s.bufferSize \/ s.stashSize = s.stashInitialSize
  /\ s.stashSize > 0

SizeInv == io.open => Fits(io)

\* A pause throws the stash away; only a pause aborts the loader; live streams
\* do not reconnect.
ModeInv ==
  /\ io.paused => io.stash = <<>> /\ io.stashByteStart = 0
  /\ loader.phase = "aborted" => io.paused
  /\ io.reconnecting => ~io.live

Row(start, n) == [i \in 1 .. n |-> start + i - 1]

\* Bytes labelled with their position, up to where the request has come.
Tight(bytes, label, at) == label + Len(bytes) = at /\ bytes = Row(label, Len(bytes))

\* A request whose bytes are taken in.
Current == Talking /\ ~io.paused

\* No chunk was lost and no start of an empty stash was left behind.
Unbroken == lapses \cap {"taken whole", "thrown"} = {}

\* As long as its start was not left behind, the stash is labelled with its
\* position, ends where the request has come to, and is found empty with start 0
\* by the first chunk; what was given out ends there too when it is empty.
TightInv ==
  Unbroken /\ Current =>
    /\ io.stash # <<>> => Tight(io.stash, io.stashByteStart, At)
    /\ io.stash = <<>> /\ io.enableStash => io.stashByteStart = 0
    /\ io.stash = <<>> => io.to = At - 1 \/ (io.to = -1 /\ loader.got = 0)

\* As long as no position was lost, the stash, or the next byte to come, or the
\* request after a pause, starts with what the demuxer needs.
ExactInv ==
  lapses = {} =>
    /\ Current => need = IF io.stash # <<>> THEN io.stashByteStart ELSE At
    /\ io.open /\ io.paused => io.resumeFrom = need

IInv ==
  /\ TypeInv /\ SizeInv /\ ModeInv
  /\ TightInv /\ ExactInv
  /\ Labelled /\ NoGap /\ CompleteIsAll

-----------------------------------------------------------------------------
(* Data. *)

\* A nonempty set of naturals has a least element.
LEMMA LeastNat ==
  ASSUME NEW S, S \subseteq Nat, S # {}
  PROVE  \E x \in S : \A y \in S : x <= y
<1>1. PICK x \in S : \A y \in S : ~(<<y, x>> \in OpToRel(<, Nat))
  BY NatLessThanWellFounded, WFMin
<1>2. \A y \in S : ~(y < x)
  BY <1>1 DEF OpToRel
<1>3. QED
  BY <1>2

\* Max of a nonempty set of naturals with a bound is its greatest element.
LEMMA MaxNat ==
  ASSUME NEW S, S \subseteq Nat, S # {}, NEW b \in Nat, \A y \in S : y <= b
  PROVE  Max(S) \in S /\ \A y \in S : y <= Max(S)
<1> DEFINE T == {n \in Nat : b - n \in S}
<1>1. T \subseteq Nat /\ T # {}
  <2>1. PICK y \in S : TRUE
    OBVIOUS
  <2>2. b - y \in T
    BY <2>1
  <2>3. QED
    BY <2>2
<1>2. PICK n \in T : \A m \in T : n <= m
  BY <1>1, LeastNat
<1>3. b - n \in S /\ n \in Nat
  BY <1>2
<1>4. ASSUME NEW y \in S PROVE b - n >= y
  <2>1. b - y \in T
    OBVIOUS
  <2>2. n <= b - y
    BY <1>2, <2>1
  <2>3. QED
    BY <1>3, <2>2
<1>5. Max(S) \in S /\ \A y \in S : Max(S) >= y
  BY <1>3, <1>4 DEF Max
<1>6. QED
  BY <1>5

\* The value of F at a place depends only on what it is given for places of a
\* smaller measure.
Descends(S, T, F, measure) ==
  /\ F \in [[S -> T] -> [S -> T]] /\ measure \in [S -> Nat]
  /\ \A g, h \in [S -> T] : \A x \in S :
       (\A y \in S : measure[y] < measure[x] => g[y] = h[y]) => F[g][x] = F[h][x]

\* A functional whose value at a place depends only on what it is given for
\* places of a smaller measure has a fixpoint.
LEMMA Fixpoint ==
  ASSUME NEW S, NEW T, T # {}, NEW F, NEW measure, Descends(S, T, F, measure)
  PROVE  \E f \in [S -> T] : f = F[f]
<1>0. /\ F \in [[S -> T] -> [S -> T]] /\ measure \in [S -> Nat]
      /\ \A g, h \in [S -> T] : \A x \in S :
           (\A y \in S : measure[y] < measure[x] => g[y] = h[y]) => F[g][x] = F[h][x]
  BY DEF Descends
<1> USE <1>0
<1> DEFINE Upto(g, n) == \A x \in S : measure[x] <= n => g[x] = F[g][x]
           Good(n) == \E g \in [S -> T] : Upto(g, n)
<1>1. ASSUME NEW n \in Nat, NEW g \in [S -> T], NEW h \in [S -> T], Upto(g, n), Upto(h, n)
      PROVE  \A x \in S : measure[x] <= n => g[x] = h[x]
  <2> DEFINE Bad == {m \in Nat : \E x \in S : m = measure[x] /\ m <= n /\ g[x] # h[x]}
  <2>1. SUFFICES ASSUME Bad # {} PROVE FALSE
    OBVIOUS
  <2>2. PICK m \in Bad : \A k \in Bad : m <= k
    BY <2>1, LeastNat
  <2>3. PICK x \in S : m = measure[x] /\ m <= n /\ g[x] # h[x]
    BY <2>2
  <2>4. ASSUME NEW y \in S, measure[y] < measure[x] PROVE g[y] = h[y]
    <3>1. measure[y] \in Nat /\ m \in Nat
      BY <2>2
    <3>2. measure[y] \notin Bad
      BY <2>2, <2>3, <2>4, <3>1
    <3>3. QED
      BY <2>3, <2>4, <3>1, <3>2
  <2>5. F[g][x] = F[h][x]
    BY <2>4
  <2>6. QED
    BY <1>1, <2>3, <2>5
<1>2. Good(0)
  <2>1. PICK t \in T : TRUE
    OBVIOUS
  <2> DEFINE g == [x \in S |-> t]
  <2>2. g \in [S -> T] /\ F[g] \in [S -> T]
    OBVIOUS
  <2>3. ASSUME NEW x \in S, measure[x] <= 0 PROVE F[g][x] = F[F[g]][x]
    <3>1. \A y \in S : ~(measure[y] < measure[x])
      BY <2>3
    <3>2. QED
      BY <2>2, <3>1
  <2>4. QED
    BY <2>2, <2>3
<1>3. ASSUME NEW n \in Nat, Good(n) PROVE Good(n + 1)
  <2>1. PICK g \in [S -> T] : Upto(g, n)
    BY <1>3
  <2>2. F[g] \in [S -> T]
    OBVIOUS
  <2>3. ASSUME NEW x \in S, measure[x] <= n + 1 PROVE F[g][x] = F[F[g]][x]
    <3>1. ASSUME NEW y \in S, measure[y] < measure[x] PROVE g[y] = F[g][y]
      <4>1. measure[y] \in Nat /\ measure[x] \in Nat
        OBVIOUS
      <4>2. measure[y] <= n
        BY <2>3, <3>1, <4>1
      <4>3. QED
        BY <2>1, <4>2
    <3>2. QED
      BY <2>2, <3>1
  <2>4. QED
    BY <2>2, <2>3
<1>4. \A n \in Nat : Good(n)
  <2> DEFINE Bad == {n \in Nat : ~Good(n)}
  <2> HIDE DEF Good
  <2>1. SUFFICES ASSUME Bad # {} PROVE FALSE
    OBVIOUS
  <2>2. PICK n \in Bad : \A m \in Bad : n <= m
    BY <2>1, LeastNat
  <2>3. n # 0
    BY <1>2
  <2>4. n - 1 \in Nat /\ Good(n - 1)
    BY <2>2, <2>3
  <2>5. Good((n - 1) + 1)
    BY <1>3, <2>4
  <2>6. QED
    BY <2>5
<1> DEFINE upto == [n \in Nat |-> CHOOSE g \in [S -> T] : Upto(g, n)]
           f == [x \in S |-> upto[measure[x]][x]]
<1>5. \A n \in Nat : upto[n] \in [S -> T] /\ Upto(upto[n], n)
  BY <1>4
<1> HIDE DEF upto
<1>6. f \in [S -> T]
  BY <1>5
<1>7. ASSUME NEW x \in S PROVE f[x] = F[f][x]
  <2>1. f[x] = F[upto[measure[x]]][x]
    BY <1>5
  <2>2. ASSUME NEW y \in S, measure[y] < measure[x] PROVE upto[measure[x]][y] = f[y]
    <3>1. measure[y] \in Nat /\ measure[x] \in Nat /\ measure[y] <= measure[x]
      BY <2>2
    <3>2. Upto(upto[measure[x]], measure[y]) /\ Upto(upto[measure[y]], measure[y])
      <4>1. \A z \in S : measure[z] \in Nat
        OBVIOUS
      <4>2. \A z \in S : measure[z] <= measure[y] => measure[z] <= measure[x]
        BY <3>1, <4>1
      <4>3. QED
        BY <1>5, <3>1, <4>2
    <3>3. upto[measure[x]] \in [S -> T] /\ upto[measure[y]] \in [S -> T]
      BY <1>5, <3>1
    <3> HIDE DEF f
    <3>4. upto[measure[x]][y] = upto[measure[y]][y]
      <4>1. \A z \in S : measure[z] <= measure[y] => upto[measure[x]][z] = upto[measure[y]][z]
        BY <1>1, <3>1, <3>2, <3>3
      <4>2. QED
        BY <3>1, <4>1
    <3>5. QED
      BY <3>4 DEF f
  <2>3. upto[measure[x]] \in [S -> T]
    BY <1>5
  <2> HIDE DEF f
  <2>4. F[upto[measure[x]]][x] = F[f][x]
    BY <1>6, <2>2, <2>3
  <2>5. QED
    BY <2>1, <2>4
<1>8. F[f] = f
  <2>1. F[f] \in [S -> T]
    BY <1>6
  <2> HIDE DEF f
  <2>2. QED
    BY <1>6, <1>7, <2>1
<1>9. QED
  BY <1>6, <1>8

-----------------------------------------------------------------------------
(* The size of the stash. *)

\* The places of a window of the search, and one round of it with f for the
\* rounds that follow.
Windows == (1 .. Len(SpeedList)) \X (0 .. Len(SpeedList))
Middle(w) == w[1] + (w[2] - w[1]) \div 2
Halve(kb, f, w) ==
  IF w[1] > w[2] THEN 1
  ELSE IF Middle(w) = Len(SpeedList)
          \/ (kb >= SpeedList[Middle(w)] /\ kb < SpeedList[Middle(w) + 1]) THEN Middle(w)
  ELSE IF SpeedList[Middle(w)] < kb THEN f[<<Middle(w) + 1, w[2]>>]
  ELSE f[<<w[1], Middle(w) - 1>>]

\* A window has at least this many places.
Width == [w \in Windows |-> w[2] - w[1] + Len(SpeedList)]

\* The windows a round goes on with are narrower.
LEMMA Narrower ==
  ASSUME NEW w \in Windows, w[1] <= w[2]
  PROVE  /\ Middle(w) \in 1 .. Len(SpeedList)
         /\ Middle(w) # Len(SpeedList) => /\ <<Middle(w) + 1, w[2]>> \in Windows
                                          /\ Width[<<Middle(w) + 1, w[2]>>] < Width[w]
         /\ <<w[1], Middle(w) - 1>> \in Windows /\ Width[<<w[1], Middle(w) - 1>>] < Width[w]
<1>1. w[1] \in 1 .. Len(SpeedList) /\ w[2] \in 0 .. Len(SpeedList) /\ Len(SpeedList) \in Nat
  BY IOAssumption DEF Windows
<1>2. Middle(w) \in Nat /\ w[1] <= Middle(w) /\ Middle(w) <= w[2]
  <2>1. ASSUME NEW a \in Nat, NEW b \in Nat, a <= b
        PROVE  a + (b - a) \div 2 \in Nat /\ a <= a + (b - a) \div 2 /\ a + (b - a) \div 2 <= b
    BY <2>1
  <2>2. w[1] \in Nat /\ w[2] \in Nat
    BY <1>1
  <2>3. QED
    BY <2>1, <2>2, Zenon DEF Middle
<1>3. ASSUME Middle(w) # Len(SpeedList) PROVE Middle(w) + 1 \in 1 .. Len(SpeedList)
  BY <1>1, <1>2, <1>3
<1>4. Middle(w) \in 1 .. Len(SpeedList) /\ Middle(w) - 1 \in 0 .. Len(SpeedList)
  BY <1>1, <1>2
<1>5. /\ w[2] - (Middle(w) + 1) + Len(SpeedList) < w[2] - w[1] + Len(SpeedList)
      /\ (Middle(w) - 1) - w[1] + Len(SpeedList) < w[2] - w[1] + Len(SpeedList)
  BY <1>1, <1>2, SMTT(30)
<1>6. <<w[1], Middle(w) - 1>> \in Windows
  BY <1>1, <1>4 DEF Windows
<1>7. ASSUME Middle(w) # Len(SpeedList) PROVE <<Middle(w) + 1, w[2]>> \in Windows
  BY <1>1, <1>3, <1>7 DEF Windows
<1>8. Width[w] = w[2] - w[1] + Len(SpeedList)
      /\ Width[<<w[1], Middle(w) - 1>>] = (Middle(w) - 1) - w[1] + Len(SpeedList)
  BY <1>6 DEF Width
<1>9. ASSUME Middle(w) # Len(SpeedList)
      PROVE  Width[<<Middle(w) + 1, w[2]>>] = w[2] - (Middle(w) + 1) + Len(SpeedList)
  BY <1>7, <1>9 DEF Width
<1>10. QED
  BY <1>4, <1>5, <1>6, <1>7, <1>8, <1>9

\* A round ends at a place of the list or goes on with a narrower window.
LEMMA HalveRange ==
  ASSUME NEW kb, NEW w \in Windows, NEW f
  PROVE  \/ Halve(kb, f, w) \in 1 .. Len(SpeedList)
         \/ \E v \in Windows : Width[v] < Width[w] /\ Halve(kb, f, w) = f[v]
<1>1. Len(SpeedList) \in Nat \ {0} /\ w[1] \in Nat /\ w[2] \in Nat
  BY IOAssumption, SMTT(30) DEF Windows
<1>2. CASE w[1] > w[2]
  BY <1>1, <1>2 DEF Halve
<1>3. CASE ~(w[1] > w[2])
  <2>1. w[1] <= w[2]
    BY <1>1, <1>3
  <2>2. QED
    BY <1>3, <2>1, Narrower DEF Halve
<1>4. QED
  BY <1>2, <1>3

\* It asks what follows for narrower windows only.
LEMMA HalveLocal ==
  ASSUME NEW kb, NEW w \in Windows, NEW f, NEW g,
         \A v \in Windows : Width[v] < Width[w] => f[v] = g[v]
  PROVE  Halve(kb, f, w) = Halve(kb, g, w)
<1>1. CASE w[1] > w[2]
  BY <1>1 DEF Halve
<1>2. CASE ~(w[1] > w[2])
  <2>1. w[1] <= w[2]
    BY <1>2 DEF Windows
  <2>2. QED
    BY <1>2, <2>1, Narrower DEF Halve
<1>3. QED
  BY <1>1, <1>2

\* The search goes by these rounds, to a place of the list.
LEMMA SearchRange ==
  ASSUME NEW kb
  PROVE  SpeedSearch(kb)[<<1, Len(SpeedList)>>] \in 1 .. Len(SpeedList)
<1> DEFINE P == 1 .. Len(SpeedList)
           G(f) == [w \in Windows |-> Halve(kb, f, w)]
           F == [f \in [Windows -> P] |-> G(f)]
           s == SpeedSearch(kb)
<1>0. Len(SpeedList) \in Nat \ {0} /\ Width \in [Windows -> Nat] /\ P # {}
  <2>1. Len(SpeedList) \in Nat \ {0}
    BY IOAssumption
  <2>2. ASSUME NEW w \in Windows PROVE w[2] - w[1] + Len(SpeedList) \in Nat
    BY <2>1 DEF Windows
  <2>3. 1 \in P
    BY <2>1
  <2>4. QED
    BY <2>1, <2>2, <2>3 DEF Width
<1>1. F \in [[Windows -> P] -> [Windows -> P]]
  <2>1. ASSUME NEW f \in [Windows -> P], NEW w \in Windows PROVE Halve(kb, f, w) \in P
    BY HalveRange
  <2>2. QED
    BY <2>1
<1>2. ASSUME NEW g \in [Windows -> P], NEW h \in [Windows -> P], NEW x \in Windows,
             \A y \in Windows : Width[y] < Width[x] => g[y] = h[y]
      PROVE  F[g][x] = F[h][x]
  <2>1. Halve(kb, g, x) = Halve(kb, h, x)
    BY <1>2, HalveLocal
  <2>2. QED
    BY <2>1
<1>3. \E f \in [Windows -> P] : f = F[f]
  <2> HIDE DEF F, P
  <2>1. Descends(Windows, P, F, Width)
    BY <1>0, <1>1, <1>2 DEF Descends
  <2>2. QED
    BY <1>0, <2>1, Fixpoint
<1>4. s = G(s)
  <2>1. PICK f \in [Windows -> P] : f = G(f)
    BY <1>3
  <2>2. QED
    BY <2>1 DEF SpeedSearch, Halve, Middle, Windows
<1> HIDE DEF s
<1>5. \A w \in Windows : s[w] = Halve(kb, s, w)
  BY <1>4
<1> DEFINE Bad == {n \in Nat : \E w \in Windows : n = Width[w] /\ s[w] \notin P}
<1>6. Bad = {}
  <2>1. SUFFICES ASSUME Bad # {} PROVE FALSE
    OBVIOUS
  <2>2. PICK n \in Bad : \A m \in Bad : n <= m
    BY <2>1, LeastNat
  <2>3. PICK w \in Windows : n = Width[w] /\ s[w] \notin P
    BY <2>2
  <2>4. PICK v \in Windows : Width[v] < Width[w] /\ s[w] = s[v]
    BY <1>5, <2>3, HalveRange
  <2>5. Width[v] \in Bad
    BY <1>0, <2>3, <2>4
  <2>6. Width[v] \in Nat /\ n \in Nat /\ n <= Width[v] /\ Width[v] < n
    BY <1>0, <2>2, <2>3, <2>4, <2>5
  <2>7. QED
    BY <2>6
<1>7. <<1, Len(SpeedList)>> \in Windows
  BY <1>0 DEF Windows
<1>8. s[<<1, Len(SpeedList)>>] \in P
  BY <1>0, <1>6, <1>7
<1>9. QED
  BY <1>8 DEF s

\* A speed is reported as one of the list.
LEMMA NormalizeSpeedRange ==
  ASSUME NEW kb \in Nat
  PROVE  NormalizeSpeed(kb) \in Nat \ {0}
<1>1. Len(SpeedList) \in Nat \ {0} /\ \A i \in 1 .. Len(SpeedList) : SpeedList[i] \in Nat \ {0}
  BY IOAssumption
<1>2. SpeedSearch(kb)[<<1, Len(SpeedList)>>] \in 1 .. Len(SpeedList)
  BY SearchRange
<1>3. QED
  BY <1>1, <1>2 DEF NormalizeSpeed

\* The doubling ends with a size that leaves room for the bytes, and no smaller
\* than it began with.
LEMMA GrownEnough ==
  ASSUME NEW expected \in Nat, NEW size \in Nat \ {0}
  PROVE  /\ Grown(expected)[size] \in Nat
         /\ size <= Grown(expected)[size]
         /\ expected <= Grown(expected)[size] + Slack
<1> DEFINE S == Nat \ {0}
           Step(f, n) == IF n + Slack < expected THEN f[n * 2] ELSE n
           G(f) == [n \in S |-> Step(f, n)]
           F == [f \in [S -> S] |-> G(f)]
           missing == [n \in S |-> IF n < expected THEN expected - n ELSE 0]
           g == Grown(expected)
<1>0. Slack \in Nat \ {0} /\ S # {} /\ \A n \in S : n * 2 \in S
  <2>1. \A n \in S : n * 2 \in S
    OBVIOUS
  <2>2. 1 \in S
    OBVIOUS
  <2>3. QED
    BY <2>1, <2>2, IOAssumption
<1>1. F \in [[S -> S] -> [S -> S]]
  <2>1. ASSUME NEW f \in [S -> S], NEW n \in S PROVE Step(f, n) \in S
    BY <1>0
  <2>2. QED
    BY <2>1
<1>2. missing \in [S -> Nat]
  OBVIOUS
<1>3. ASSUME NEW n \in S, n + Slack < expected PROVE missing[n * 2] < missing[n]
  <2>1. n \in Nat /\ n > 0 /\ n * 2 > n /\ n < expected
    BY <1>0, <1>3
  <2>2. missing[n] = expected - n
    BY <2>1
  <2>3. missing[n * 2] = IF n * 2 < expected THEN expected - n * 2 ELSE 0
    BY <1>0
  <2>4. QED
    BY <2>1, <2>2, <2>3
<1> HIDE DEF missing
<1>4. ASSUME NEW f \in [S -> S], NEW h \in [S -> S], NEW x \in S,
             \A y \in S : missing[y] < missing[x] => f[y] = h[y]
      PROVE  F[f][x] = F[h][x]
  <2>1. Step(f, x) = Step(h, x)
    BY <1>0, <1>3, <1>4
  <2>2. F[f][x] = Step(f, x) /\ F[h][x] = Step(h, x)
    OBVIOUS
  <2>3. QED
    BY <2>1, <2>2
<1>5. \E f \in [S -> S] : f = F[f]
  <2> HIDE DEF F, S
  <2>1. Descends(S, S, F, missing)
    BY <1>1, <1>2, <1>4 DEF Descends
  <2>2. QED
    BY <1>0, <2>1, Fixpoint
<1>6. g = G(g)
  <2>1. PICK f \in [S -> S] : f = G(f)
    BY <1>5
  <2>2. QED
    BY <2>1 DEF Grown
<1> HIDE DEF g
<1>7. \A n \in S : g[n] = Step(g, n)
  BY <1>6
<1> DEFINE Right(n) == g[n] \in Nat /\ n <= g[n] /\ expected <= g[n] + Slack
           Bad == {m \in Nat : \E n \in S : m = missing[n] /\ ~Right(n)}
<1>8. Bad = {}
  <2>1. SUFFICES ASSUME Bad # {} PROVE FALSE
    OBVIOUS
  <2>2. PICK m \in Bad : \A k \in Bad : m <= k
    BY <2>1, LeastNat
  <2>3. PICK n \in S : m = missing[n] /\ ~Right(n)
    BY <2>2
  <2>4. n + Slack < expected
    BY <1>0, <1>7, <2>3
  <2>5. g[n] = g[n * 2] /\ n * 2 \in S /\ n <= n * 2
    BY <1>0, <1>7, <2>4
  <2>6. ~Right(n * 2)
    BY <2>3, <2>5
  <2>7. missing[n * 2] \in Nat /\ missing[n * 2] \in Bad
    BY <1>2, <2>5, <2>6
  <2>8. m \in Nat /\ m <= missing[n * 2] /\ missing[n * 2] < m
    BY <1>3, <2>2, <2>3, <2>4, <2>7
  <2>9. QED
    BY <2>7, <2>8
<1>9. Right(size)
  <2>1. missing[size] \in Nat
    BY <1>2
  <2>2. QED
    BY <1>8, <2>1
<1>10. QED
  BY <1>9 DEF g

\* What is kept of a state when only the stash, its start, what was given out
\* and the buffer change.
Alike(s, t) ==
  /\ s.live = t.live /\ s.enableStash = t.enableStash /\ s.stashSize = t.stashSize
  /\ s.stashInitialSize = t.stashInitialSize
  /\ s.totalLength = t.totalLength /\ s.fullRequestFlag = t.fullRequestFlag
  /\ s.reconnecting = t.reconnecting /\ s.paused = t.paused /\ s.resumeFrom = t.resumeFrom
  /\ s.speed = t.speed /\ s.requests = t.requests /\ s.open = t.open

\* The buffer grows to what is asked for, and never shrinks.
LEMMA RoomSize ==
  ASSUME NEW s \in IOs, s.stashSize > 0, NEW bytes \in Nat
  PROVE  \E b \in Nat : Room(s, bytes) = [s EXCEPT !.bufferSize = b] /\ s.bufferSize <= b /\ bytes <= b
<1>1. s.stashSize \in Nat \ {0} /\ s.bufferSize \in Nat /\ Slack \in Nat
  BY IOAssumption DEF IOs
<1>2. CASE bytes <= s.bufferSize
  <2>1. s = [s EXCEPT !.bufferSize = s.bufferSize]
    BY DEF IOs
  <2>2. Room(s, bytes) = s
    BY <1>1, <1>2 DEF Room
  <2>3. QED
    BY <1>1, <1>2, <2>1, <2>2
<1>3. CASE ~(bytes <= s.bufferSize)
  <2> DEFINE b == Grown(bytes)[s.stashSize] + Slack
  <2>1. bytes > s.bufferSize
    BY <1>1, <1>3
  <2>2. Room(s, bytes) = [s EXCEPT !.bufferSize = b]
    BY <2>1 DEF Room, ExpandBuffer
  <2>3. Grown(bytes)[s.stashSize] \in Nat /\ bytes <= b
    BY <1>1, GrownEnough
  <2>4. b \in Nat /\ s.bufferSize <= b
    BY <1>1, <2>1, <2>3
  <2>5. QED
    BY <2>2, <2>3, <2>4
<1>4. QED
  BY <1>2, <1>3

\* A new size of the stash has its buffer.
LEMMA AdjustFits ==
  ASSUME NEW s \in IOs, Fits(s), NEW normalized \in Nat \ {0}
  PROVE  \E size \in Nat, b \in Nat :
           /\ AdjustStashSize(s, normalized) =
                [s EXCEPT !.bufferSize = b, !.stashSize = size, !.speed = normalized]
           /\ size > 0 /\ size <= b /\ s.bufferSize <= b
<1> DEFINE wanted == CASE s.live \/ normalized < LowSpeed -> normalized
                       [] ~s.live /\ normalized >= LowSpeed /\ normalized <= HighSpeed
                            -> (normalized * 3) \div 2
                       [] OTHER -> normalized * 2
           size == IF wanted > MaxStash THEN MaxStash ELSE wanted
<1>1. MaxStash \in Nat \ {0} /\ Slack \in Nat /\ LowSpeed \in Nat /\ HighSpeed \in Nat
  BY IOAssumption
<1>2. wanted \in Nat \ {0}
  <2>1. (normalized * 3) \div 2 \in Nat \ {0} /\ normalized * 2 \in Nat \ {0}
    OBVIOUS
  <2>2. QED
    BY <2>1
<1> HIDE DEF wanted
<1>3. size \in Nat /\ size > 0
  BY <1>1, <1>2
<1>4. AdjustStashSize(s, normalized) =
        [Room(s, size + Slack) EXCEPT !.stashSize = size, !.speed = normalized]
  BY DEF AdjustStashSize, wanted
<1> HIDE DEF size
<1>5. PICK b \in Nat : Room(s, size + Slack) = [s EXCEPT !.bufferSize = b]
                       /\ s.bufferSize <= b /\ size + Slack <= b
  <2>1. size + Slack \in Nat /\ s.stashSize > 0
    BY <1>1, <1>3 DEF Fits
  <2>2. QED
    BY <2>1, RoomSize
<1>6. QED
  <2>1. AdjustStashSize(s, normalized) =
          [s EXCEPT !.bufferSize = b, !.stashSize = size, !.speed = normalized]
    BY <1>4, <1>5 DEF IOs
  <2>2. size <= b
    BY <1>1, <1>3, <1>5
  <2>3. QED
    BY <1>3, <1>5, <2>1, <2>2

\* The measured speed changes the sizes only, and the stash still fits.
LEMMA MeasuredFits ==
  ASSUME NEW s \in IOs, Fits(s), NEW kb \in Nat
  PROVE  LET m == Measured(s, kb)
         IN  /\ m \in IOs /\ Fits(m)
             /\ m.stash = s.stash /\ m.stashByteStart = s.stashByteStart /\ m.to = s.to
             /\ m.live = s.live /\ m.enableStash = s.enableStash
             /\ m.totalLength = s.totalLength /\ m.fullRequestFlag = s.fullRequestFlag
             /\ m.reconnecting = s.reconnecting /\ m.paused = s.paused
             /\ m.resumeFrom = s.resumeFrom /\ m.requests = s.requests /\ m.open = s.open
             /\ m.stashInitialSize = s.stashInitialSize
<1>1. CASE kb # 0 /\ NormalizeSpeed(kb) # s.speed
  <2>1. NormalizeSpeed(kb) \in Nat \ {0}
    BY NormalizeSpeedRange
  <2>2. PICK size \in Nat, b \in Nat :
          /\ AdjustStashSize(s, NormalizeSpeed(kb)) =
               [s EXCEPT !.bufferSize = b, !.stashSize = size, !.speed = NormalizeSpeed(kb)]
          /\ size > 0 /\ size <= b /\ s.bufferSize <= b
    BY <2>1, AdjustFits
  <2>3. Measured(s, kb) = [s EXCEPT !.bufferSize = b, !.stashSize = size, !.speed = NormalizeSpeed(kb)]
    BY <1>1, <2>2 DEF Measured
  <2>4. Len(s.stash) \in Nat /\ s.bufferSize \in Nat
    BY DEF IOs
  <2> DEFINE m == Measured(s, kb)
             v == NormalizeSpeed(kb)
  <2>5. m \in IOs
    <3>1. [s EXCEPT !.bufferSize = b] \in IOs
      BY DEF IOs
    <3>2. [s EXCEPT !.bufferSize = b, !.stashSize = size] \in IOs
      BY DEF IOs
    <3>3. QED
      BY <2>1, <2>3, <3>2 DEF IOs
  <2>6. m.bufferSize = b /\ m.stashSize = size /\ m.stash = s.stash
    BY <2>3 DEF IOs
  <2>7. Fits(m)
    <3>1. Len(s.stash) <= s.bufferSize
      BY DEF Fits
    <3>2. QED
      BY <2>2, <2>4, <2>6, <3>1 DEF Fits
  <2>8. /\ m.stashByteStart = s.stashByteStart /\ m.to = s.to
        /\ m.live = s.live /\ m.enableStash = s.enableStash
        /\ m.totalLength = s.totalLength /\ m.fullRequestFlag = s.fullRequestFlag
        /\ m.reconnecting = s.reconnecting /\ m.paused = s.paused
        /\ m.resumeFrom = s.resumeFrom /\ m.requests = s.requests /\ m.open = s.open
        /\ m.stashInitialSize = s.stashInitialSize
    BY <2>3 DEF IOs
  <2>9. QED
    BY <2>5, <2>6, <2>7, <2>8
<1>2. CASE ~(kb # 0 /\ NormalizeSpeed(kb) # s.speed)
  <2>1. Measured(s, kb) = s
    BY <1>2 DEF Measured
  <2>2. QED
    BY <2>1
<1>3. QED
  BY <1>1, <1>2

-----------------------------------------------------------------------------
(* The bytes. *)

\* What the demuxer takes of what it is given is a part of it, and leads to a
\* position of the file when it goes on where it was or starts again; anything
\* else is used up.  The end of the file is a tag's end.
LEMMA ConsumedRange ==
  ASSUME NEW nd \in Nat, NEW bytes \in Seq(0 .. Total), bytes # <<>>
  PROVE  LET n == Consumed(nd, bytes)
         IN  /\ n \in 0 .. Len(bytes) /\ bytes[1] \in 0 .. Total
             /\ IF bytes[1] \in {nd, 0} THEN bytes[1] + n <= Total ELSE n = Len(bytes)
             /\ bytes[1] = nd /\ bytes[1] + Len(bytes) = Total => n = Len(bytes)
<1> DEFINE end == bytes[1] + Len(bytes)
           ends == {e \in TagEnds : bytes[1] < e /\ e <= end}
           all == ends \cup {bytes[1]}
           n == Consumed(nd, bytes)
<1>1. Len(bytes) \in Nat \ {0} /\ bytes[1] \in 0 .. Total /\ Total \in Nat \ {0}
  BY IOAssumption, SMTT(30)
<1>2. Total \in TagEnds /\ TagEnds \subseteq 1 .. Total
  BY IOAssumption
<1>3. ASSUME NEW e \in ends PROVE e \in Nat /\ e \in 0 .. Total
  <2>1. e \in TagEnds
    OBVIOUS
  <2>2. e \in 1 .. Total
    BY <1>2, <2>1
  <2>3. QED
    BY <1>1, <2>2
<1>4. CASE bytes[1] \in {nd, 0}
  <2>1. n = Max(all) - bytes[1]
    BY <1>4 DEF Consumed
  <2>2. all \subseteq Nat /\ all # {} /\ end \in Nat /\ \A e \in all : e <= end
    <3>1. ends \subseteq Nat
      BY <1>3
    <3>2. bytes[1] \in Nat /\ end \in Nat /\ bytes[1] <= end
      BY <1>1
    <3>3. \A e \in ends : e <= end
      OBVIOUS
    <3> HIDE DEF ends, end
    <3>4. QED
      BY <3>1, <3>2, <3>3
  <2>3. Max(all) \in all /\ \A e \in all : e <= Max(all)
    <3> HIDE DEF all, end
    <3>1. QED
      BY <2>2, MaxNat
  <2>4. Max(all) \in 0 .. Total /\ bytes[1] <= Max(all) /\ Max(all) <= end
    <3>1. all \subseteq 0 .. Total
      BY <1>1, <1>3
    <3>2. bytes[1] \in all
      OBVIOUS
    <3> HIDE DEF all, end
    <3>3. QED
      BY <2>2, <2>3, <3>1, <3>2
  <2>5. ASSUME end = Total PROVE Max(all) = end
    <3>1. Total \in ends
      BY <1>1, <1>2, <2>5, SMTT(30)
    <3>2. Total <= Max(all)
      BY <2>3, <3>1
    <3>3. QED
      BY <1>1, <2>4, <2>5, <3>2
  <2> HIDE DEF all
  <2>6. QED
    BY <1>1, <1>4, <2>1, <2>4, <2>5
<1>5. CASE bytes[1] \notin {nd, 0}
  <2>1. n = Len(bytes)
    BY <1>5 DEF Consumed
  <2>2. QED
    BY <1>1, <1>5, <2>1
<1>6. QED
  BY <1>4, <1>5

\* The rest of a sequence.
LEMMA RestOfSeq ==
  ASSUME NEW S, NEW bytes \in Seq(S), NEW n \in 0 .. Len(bytes)
  PROVE  LET rest == SubSeq(bytes, n + 1, Len(bytes))
         IN  /\ rest \in Seq(S) /\ Len(rest) = Len(bytes) - n
             /\ \A i \in 1 .. Len(rest) : rest[i] = bytes[n + i]
             /\ rest = <<>> <=> n = Len(bytes)
<1> DEFINE rest == SubSeq(bytes, n + 1, Len(bytes))
<1>1. Len(bytes) \in Nat /\ n \in Nat /\ n <= Len(bytes)
  OBVIOUS
<1>2. \A i \in n + 1 .. Len(bytes) : bytes[i] \in S
  BY <1>1
<1>3. rest \in Seq(S) /\ Len(rest) = Len(bytes) - n
  BY <1>1, <1>2, SMTT(30)
<1>4. \A i \in 1 .. Len(rest) : rest[i] = bytes[n + i]
  BY <1>1, <1>3, SMTT(30)
<1>5. rest = <<>> <=> Len(rest) = 0
  BY <1>3
<1>6. QED
  BY <1>1, <1>3, <1>4, <1>5

\* The rest of a sequence of positions.
LEMMA RestSeq ==
  ASSUME NEW bytes \in Seq(0 .. Total), NEW n \in 0 .. Len(bytes)
  PROVE  LET rest == SubSeq(bytes, n + 1, Len(bytes))
         IN  /\ rest \in Seq(0 .. Total) /\ Len(rest) = Len(bytes) - n
             /\ \A i \in 1 .. Len(rest) : rest[i] = bytes[n + i]
             /\ rest = <<>> <=> n = Len(bytes)
<1> DEFINE P == 0 .. Total
<1>1. bytes \in Seq(P)
  OBVIOUS
<1> HIDE DEF P
<1>2. LET rest == SubSeq(bytes, n + 1, Len(bytes))
      IN  /\ rest \in Seq(P) /\ Len(rest) = Len(bytes) - n
          /\ \A i \in 1 .. Len(rest) : rest[i] = bytes[n + i]
          /\ rest = <<>> <=> n = Len(bytes)
  BY <1>1, RestOfSeq
<1>3. QED
  BY <1>2 DEF P

\* What is left of bytes labelled with their position is labelled so too.
LEMMA TightRest ==
  ASSUME NEW bytes \in Seq(0 .. Total), bytes # <<>>, NEW label \in Nat, NEW at \in Nat,
         NEW n \in 0 .. Len(bytes), Tight(bytes, label, at)
  PROVE  /\ bytes[1] = label
         /\ Tight(SubSeq(bytes, n + 1, Len(bytes)), label + n, at)
<1> DEFINE rest == SubSeq(bytes, n + 1, Len(bytes))
           len == Len(bytes)
<1>1. rest \in Seq(0 .. Total) /\ Len(rest) = len - n
      /\ \A i \in 1 .. Len(rest) : rest[i] = bytes[n + i]
  BY RestSeq
<1>2. len \in Nat \ {0} /\ n \in Nat /\ n <= len
  OBVIOUS
<1>3. label + len = at /\ \A i \in 1 .. len : bytes[i] = label + i - 1
  BY DEF Tight, Row
<1> HIDE DEF rest, len
<1>4. ASSUME NEW i \in 1 .. Len(rest) PROVE rest[i] = (label + n) + i - 1
  <2>1. n + i \in 1 .. len
    BY <1>1, <1>2
  <2>2. QED
    BY <1>1, <1>2, <1>3, <2>1
<1>5. rest = Row(label + n, Len(rest))
  <2>1. rest = [i \in 1 .. Len(rest) |-> rest[i]]
    BY <1>1
  <2>2. QED
    BY <1>4, <2>1 DEF Row
<1>6. label + n + Len(rest) = at
  BY <1>1, <1>2, <1>3
<1>7. bytes[1] = label
  BY <1>2, <1>3
<1>8. QED
  BY <1>5, <1>6, <1>7 DEF Tight, rest, len

\* A chunk is labelled with its position.
LEMMA ChunkTight ==
  ASSUME NEW at \in Nat, NEW n \in Nat \ {0}, at + n <= Total
  PROVE  /\ Row(at, n) \in Seq(0 .. Total) /\ Row(at, n) # <<>> /\ Len(Row(at, n)) = n
         /\ Row(at, n)[1] = at
         /\ Tight(Row(at, n), at, at + n)
<1>1. Total \in Nat /\ at \in Nat /\ \A i \in 1 .. n : at + i - 1 \in 0 .. Total
  BY IOAssumption
<1>2. Row(at, n) \in Seq(0 .. Total) /\ Len(Row(at, n)) = n /\ \A i \in 1 .. n : Row(at, n)[i] = at + i - 1
  BY <1>1 DEF Row
<1>3. Row(at, n) # <<>> /\ Row(at, n)[1] = at
  <2>1. 1 \in 1 .. n /\ n # 0 /\ at + 1 - 1 = at
    BY <1>1
  <2>2. QED
    BY <1>2, <2>1
<1>4. QED
  BY <1>2, <1>3 DEF Tight

\* A chunk joins bytes.
LEMMA RowAdd ==
  ASSUME NEW bytes \in Seq(0 .. Total), NEW at \in Nat, NEW n \in Nat \ {0}, at + n <= Total
  PROVE  LET all == bytes \o Row(at, n)
         IN  all \in Seq(0 .. Total) /\ all # <<>> /\ Len(all) = Len(bytes) + n
<1> DEFINE chunk == Row(at, n)
           all == bytes \o chunk
<1>1. chunk \in Seq(0 .. Total) /\ Len(chunk) = n /\ Len(bytes) \in Nat
  BY ChunkTight
<1> HIDE DEF chunk
<1>2. all \in Seq(0 .. Total) /\ Len(all) = Len(bytes) + n
  BY <1>1, SMTT(30)
<1>3. Len(all) # 0
  BY <1>1, <1>2
<1>4. all # <<>>
  BY <1>3
<1>5. QED
  BY <1>2, <1>4 DEF chunk

\* The next bytes behind those labelled with their position leave them so.
LEMMA TightAdd ==
  ASSUME NEW bytes \in Seq(0 .. Total), NEW label \in Nat, NEW at \in Nat,
         NEW n \in Nat \ {0}, at + n <= Total, Tight(bytes, label, at)
  PROVE  Tight(bytes \o Row(at, n), label, at + n)
<1> DEFINE chunk == Row(at, n)
           all == bytes \o chunk
           len == Len(bytes)
<1>1. chunk \in Seq(0 .. Total) /\ Len(chunk) = n /\ at \in Nat
      /\ \A i \in 1 .. n : chunk[i] = at + i - 1
  BY ChunkTight, IOAssumption DEF Row
<1>2. len \in Nat
  OBVIOUS
<1> HIDE DEF chunk
<1>3. label + len = at /\ \A i \in 1 .. len : bytes[i] = label + i - 1
  BY DEF Tight, Row
<1>4. /\ all \in Seq(0 .. Total) /\ Len(all) = len + n
      /\ \A i \in 1 .. len : all[i] = bytes[i]
      /\ \A i \in len + 1 .. len + n : all[i] = chunk[i - len]
  BY <1>1, <1>2, SMTT(60)
<1> HIDE DEF all, len
<1>5. ASSUME NEW i \in 1 .. Len(all) PROVE all[i] = label + i - 1
  <2>1. CASE i <= len
    BY <1>2, <1>3, <1>4, <1>5, <2>1
  <2>2. CASE ~(i <= len)
    <3>1. i \in len + 1 .. len + n /\ i - len \in 1 .. n
      BY <1>2, <1>4, <1>5, <2>2
    <3>2. all[i] = at + (i - len) - 1
      BY <1>1, <1>4, <3>1
    <3>3. QED
      BY <1>2, <1>3, <3>1, <3>2
  <2>3. QED
    BY <2>1, <2>2
<1>6. all = Row(label, Len(all))
  <2>1. all = [i \in 1 .. Len(all) |-> all[i]]
    BY <1>4
  <2>2. QED
    BY <1>5, <2>1 DEF Row
<1>7. label + Len(all) = at + n
  BY <1>2, <1>3, <1>4
<1>8. QED
  BY <1>6, <1>7 DEF Tight, all, chunk

-----------------------------------------------------------------------------
(* The runs of the handlers. *)

\* Every piece was labelled with its position; every piece was the next needed.
Truthful(g) == \A i \in DOMAIN g : g[i].bytes[1] = g[i].at
Timely(g) == \A i \in DOMAIN g : g[i].bytes[1] = g[i].wanted

\* What holds of a run of a request; of one that has come to at, if no start was
\* left behind; and if no position was lost.
Sound(r) == r \in Runs /\ Fits(r.s)
InLine(r, at) == Tight(r.s.stash, r.s.stashByteStart, at) /\ Truthful(r.given)
OnTime(r) == r.s.stashByteStart = r.need /\ Timely(r.given)

\* The pieces given out, with one more.
LEMMA GivenMore ==
  ASSUME NEW g \in Seq(Handed), NEW at \in Nat, NEW bytes \in Seq(0 .. Total),
         NEW wanted \in Nat
  PROVE  LET more == Append(g, [at |-> at, bytes |-> bytes, wanted |-> wanted])
         IN  /\ more \in Seq(Handed)
             /\ Truthful(g) /\ bytes[1] = at => Truthful(more)
             /\ Timely(g) /\ bytes[1] = wanted => Timely(more)
<1> DEFINE piece == [at |-> at, bytes |-> bytes, wanted |-> wanted]
           more == Append(g, piece)
<1>1. piece \in Handed /\ piece.bytes = bytes /\ piece.at = at /\ piece.wanted = wanted
  BY DEF Handed
<1> HIDE DEF piece
<1>2. /\ more \in Seq(Handed) /\ DOMAIN more = 1 .. Len(g) + 1 /\ DOMAIN g = 1 .. Len(g)
      /\ Len(g) \in Nat /\ more[Len(g) + 1] = piece
      /\ \A i \in 1 .. Len(g) : more[i] = g[i]
  BY <1>1
<1> HIDE DEF more
<1>3. \A i \in DOMAIN more : i \in DOMAIN g \/ i = Len(g) + 1
  BY <1>2
<1>4. Truthful(g) /\ bytes[1] = at => Truthful(more)
  BY <1>1, <1>2, <1>3 DEF Truthful
<1>5. Timely(g) /\ bytes[1] = wanted => Timely(more)
  BY <1>1, <1>2, <1>3 DEF Timely
<1>6. QED
  BY <1>2, <1>4, <1>5 DEF more, piece

\* What dispatching a piece changes.
LEMMA DispatchRun ==
  ASSUME NEW r \in Runs, NEW bytes \in Seq(0 .. Total), bytes # <<>>, NEW label \in Nat
  PROVE  LET d == Dispatch(r, bytes, label)
         IN  /\ d \in Runs /\ d.from = r.from
             /\ d.s = [r.s EXCEPT !.to = label + Len(bytes) - 1]
             /\ d.need = bytes[1] + Consumed(r.need, bytes)
             /\ Truthful(r.given) /\ bytes[1] = label => Truthful(d.given)
             /\ Timely(r.given) /\ bytes[1] = r.need => Timely(d.given)
<1> DEFINE d == Dispatch(r, bytes, label)
           last == label + Len(bytes) - 1
           nd == bytes[1] + Consumed(r.need, bytes)
           more == Append(r.given, [at |-> label, bytes |-> bytes, wanted |-> r.need])
<1>1. Len(bytes) \in Nat \ {0}
  OBVIOUS
<1>2. last \in Places
  BY <1>1 DEF Places
<1>3. r.s \in IOs /\ r.need \in Nat /\ r.given \in Seq(Handed) /\ r.from \in Places
      /\ r = [s |-> r.s, need |-> r.need, given |-> r.given, from |-> r.from]
  BY DEF Runs
<1>4. /\ more \in Seq(Handed)
      /\ Truthful(r.given) /\ bytes[1] = label => Truthful(more)
      /\ Timely(r.given) /\ bytes[1] = r.need => Timely(more)
  BY <1>3, GivenMore
<1>5. nd \in Nat
  <2>1. Consumed(r.need, bytes) \in 0 .. Len(bytes) /\ bytes[1] \in 0 .. Total
    BY <1>3, ConsumedRange
  <2>2. QED
    BY <1>1, <2>1
<1> HIDE DEF last, more, nd
<1>6. d = [s |-> [r.s EXCEPT !.to = last], need |-> nd, given |-> more, from |-> r.from]
  <2>1. d = [[[r EXCEPT !.s.to = last] EXCEPT !.need = nd] EXCEPT !.given = more]
    BY <1>3 DEF Dispatch, last, more, nd, Runs
  <2>2. QED
    BY <1>3, <2>1 DEF Runs
<1>7. [r.s EXCEPT !.to = last] \in IOs
  BY <1>2, <1>3 DEF IOs
<1>8. d \in Runs
  BY <1>3, <1>4, <1>5, <1>6, <1>7 DEF Runs
<1> HIDE DEF d
<1>9. QED
  BY <1>4, <1>6, <1>8 DEF d, last, more, nd

\* What keeping bytes in the stash changes.
LEMMA KeepRun ==
  ASSUME NEW r \in Runs, NEW bytes \in Seq(0 .. Total), NEW start \in Nat
  PROVE  LET k == Keep(r, bytes, start)
         IN  /\ k \in Runs /\ k.from = r.from /\ k.need = r.need /\ k.given = r.given
             /\ k.s = [r.s EXCEPT !.stash = bytes, !.stashByteStart = start]
<1>1. r.s \in IOs /\ r = [s |-> r.s, need |-> r.need, given |-> r.given, from |-> r.from]
  BY DEF Runs
<1>2. [r.s EXCEPT !.stash = bytes] \in IOs
  BY <1>1 DEF IOs
<1>3. [r.s EXCEPT !.stash = bytes, !.stashByteStart = start] \in IOs
  BY <1>1, <1>2 DEF IOs
<1>4. Keep(r, bytes, start) =
        [s |-> [r.s EXCEPT !.stash = bytes, !.stashByteStart = start],
         need |-> r.need, given |-> r.given, from |-> r.from]
  <2> DEFINE a == [r EXCEPT !.s.stash = bytes]
  <2>1. a = [s |-> [r.s EXCEPT !.stash = bytes], need |-> r.need, given |-> r.given, from |-> r.from]
    <3> DEFINE t == [r.s EXCEPT !.stash = bytes]
    <3>1. a = [r EXCEPT !.s = t]
      OBVIOUS
    <3> HIDE DEF a, t
    <3>2. a = [s |-> t, need |-> r.need, given |-> r.given, from |-> r.from]
      BY <1>1, <3>1, Zenon
    <3>3. QED
      BY <3>2 DEF t
  <2>2. Keep(r, bytes, start) = [a EXCEPT !.s.stashByteStart = start]
    BY DEF Keep
  <2> HIDE DEF a
  <2>3. QED
    BY <2>1, <2>2
<1>5. QED
  BY <1>1, <1>3, <1>4 DEF Runs

\* Giving out the stash.
LEMMA DispatchStashRun ==
  ASSUME NEW r, NEW at \in Nat, Sound(r), r.s.stash # <<>>
  PROVE  LET d == DispatchStash(r)
         IN  /\ Sound(d) /\ Alike(d.s, r.s) /\ d.from = r.from
             /\ d.s.to + 1 = r.s.stashByteStart + Len(r.s.stash)
             /\ d.s.stash = <<>> => d.s.stashByteStart = d.s.to + 1
             /\ InLine(r, at) => InLine(d, at)
             /\ InLine(r, at) /\ OnTime(r) => OnTime(d) /\ (at = Total => d.s.stash = <<>>)
<1> DEFINE bytes == r.s.stash
           label == r.s.stashByteStart
           n == Consumed(r.need, bytes)
           rest == SubSeq(bytes, n + 1, Len(bytes))
           e == Dispatch(r, bytes, label)
           d == DispatchStash(r)
<1>1. /\ r \in Runs /\ Fits(r.s) /\ bytes # <<>> /\ r.s \in IOs /\ r.need \in Nat
  BY DEF Sound, Runs
<1>2. bytes \in Seq(0 .. Total) /\ label \in Nat /\ Total \in Nat /\ Len(bytes) \in Nat \ {0}
  <2>1. bytes \in Seq(0 .. Total) /\ label \in Nat
    BY <1>1 DEF IOs
  <2> HIDE DEF bytes, label
  <2>2. QED
    BY <1>1, <2>1, IOAssumption
<1>4. n \in 0 .. Len(bytes) /\ (bytes[1] = r.need /\ bytes[1] + Len(bytes) = Total => n = Len(bytes))
  BY <1>1, <1>2, ConsumedRange
<1>5. rest \in Seq(0 .. Total) /\ Len(rest) = Len(bytes) - n /\ (rest = <<>> <=> n = Len(bytes))
  BY <1>2, <1>4, RestSeq
<1> HIDE DEF bytes, label
<1>7. /\ e \in Runs /\ e.from = r.from /\ e.s = [r.s EXCEPT !.to = label + Len(bytes) - 1]
      /\ e.need = bytes[1] + n
      /\ Truthful(r.given) /\ bytes[1] = label => Truthful(e.given)
      /\ Timely(r.given) /\ bytes[1] = r.need => Timely(e.given)
  BY <1>1, <1>2, DispatchRun
<1>8. d = Keep(e, rest, label + n)
  BY DEF DispatchStash, bytes, label
<1>9. label + n \in Nat
  BY <1>2, <1>4
<1> HIDE DEF n, rest, e, d
<1>10. /\ d \in Runs /\ d.from = r.from /\ d.need = bytes[1] + n /\ d.given = e.given
       /\ d.s = [e.s EXCEPT !.stash = rest, !.stashByteStart = label + n]
  <2>1. e \in Runs /\ rest \in Seq(0 .. Total) /\ label + n \in Nat
    BY <1>5, <1>7, <1>9
  <2>2. LET k == Keep(e, rest, label + n)
        IN  /\ k \in Runs /\ k.from = e.from /\ k.need = e.need /\ k.given = e.given
            /\ k.s = [e.s EXCEPT !.stash = rest, !.stashByteStart = label + n]
    BY <2>1, KeepRun, ZenonT(60)
  <2>3. QED
    BY <1>7, <1>8, <2>2
<1>11. /\ Alike(d.s, r.s) /\ d.s.stash = rest /\ d.s.stashByteStart = label + n
       /\ d.s.to = label + Len(bytes) - 1 /\ d.s.bufferSize = r.s.bufferSize
  <2> DEFINE last == label + Len(bytes) - 1
             start == label + n
  <2>1. d.s = [[r.s EXCEPT !.to = last] EXCEPT !.stash = rest, !.stashByteStart = start]
    BY <1>7, <1>10
  <2> HIDE DEF last, start
  <2>2. /\ Alike(d.s, r.s) /\ d.s.stash = rest /\ d.s.stashByteStart = start
        /\ d.s.to = last /\ d.s.bufferSize = r.s.bufferSize
    BY <1>1, <2>1 DEF IOs, Alike
  <2>3. QED
    BY <2>2 DEF last, start
<1>12. Fits(d.s)
  <2>1. Len(rest) <= Len(bytes) /\ Len(rest) \in Nat /\ r.s.bufferSize \in Nat
    <3>1. r.s.bufferSize \in Nat
      BY <1>1 DEF IOs
    <3>2. QED
      BY <1>2, <1>4, <1>5, <3>1
  <2>2. Len(bytes) <= r.s.bufferSize
    BY <1>1 DEF Fits, bytes
  <2>3. Len(rest) <= r.s.bufferSize
    BY <1>2, <2>1, <2>2
  <2>4. d.s.stashSize = r.s.stashSize /\ d.s.stashInitialSize = r.s.stashInitialSize
    BY <1>11 DEF Alike
  <2>5. QED
    BY <1>1, <1>11, <2>3, <2>4 DEF Fits
<1>13. d.s.to + 1 = label + Len(bytes)
  BY <1>2, <1>11
<1>14. Sound(d)
  BY <1>10, <1>12 DEF Sound
<1>15. ASSUME InLine(r, at) PROVE InLine(d, at) /\ bytes[1] = label
  <2>1. Tight(bytes, label, at) /\ Truthful(r.given)
    BY <1>15 DEF InLine, bytes, label
  <2>2. bytes[1] = label /\ Tight(rest, label + n, at)
    BY <1>1, <1>2, <1>4, <2>1, TightRest DEF rest
  <2>3. QED
    BY <1>7, <1>10, <1>11, <2>1, <2>2 DEF InLine
<1>16. ASSUME InLine(r, at), OnTime(r) PROVE OnTime(d) /\ (at = Total => rest = <<>>)
  <2>1. bytes[1] = label /\ label = r.need /\ Timely(r.given)
    BY <1>15, <1>16 DEF OnTime, label
  <2>2. label + Len(bytes) = at
    BY <1>16 DEF InLine, Tight, bytes, label
  <2>3. OnTime(d)
    BY <1>7, <1>10, <1>11, <2>1 DEF OnTime
  <2>4. QED
    BY <1>4, <1>5, <2>1, <2>2, <2>3
<1>17. rest = <<>> => label + n = d.s.to + 1
  BY <1>5, <1>13
<1>18. QED
  BY <1>10, <1>11, <1>13, <1>14, <1>15, <1>16, <1>17 DEF bytes, label, d

\* A run whose stash has one more chunk, in a buffer of that size.
Joined(r, at, n, b) ==
  [r EXCEPT !.s = [[r.s EXCEPT !.bufferSize = b] EXCEPT !.stash = r.s.stash \o Row(at, n)]]

\* The same, in a buffer that holds both.
Joins(r, at, n, a) ==
  \E b \in Nat : r.s.bufferSize <= b /\ Len(r.s.stash) + n <= b /\ a = Joined(r, at, n, b)

\* A chunk joins the stash, in a buffer that holds both.
LEMMA JoinRun ==
  ASSUME NEW r, NEW at \in Nat, Sound(r), NEW n \in Nat \ {0}, at + n <= Total,
         NEW a, Joins(r, at, n, a)
  PROVE  /\ Sound(a) /\ Alike(a.s, r.s) /\ a.from = r.from
         /\ a.given = r.given /\ a.need = r.need
         /\ a.s.stash # <<>> /\ Len(a.s.stash) = Len(r.s.stash) + n
         /\ a.s.stashByteStart = r.s.stashByteStart /\ a.s.to = r.s.to
         /\ InLine(r, at) => InLine(a, at + n)
         /\ OnTime(r) => OnTime(a)
<1>0. PICK b \in Nat : r.s.bufferSize <= b /\ Len(r.s.stash) + n <= b /\ a = Joined(r, at, n, b)
  BY DEF Joins
<1> DEFINE bytes == r.s.stash
           label == r.s.stashByteStart
           all == bytes \o Row(at, n)
           t == [[r.s EXCEPT !.bufferSize = b] EXCEPT !.stash = all]
<1>1. /\ r \in Runs /\ Fits(r.s) /\ r.s \in IOs /\ r.need \in Nat
      /\ r = [s |-> r.s, need |-> r.need, given |-> r.given, from |-> r.from]
  BY DEF Sound, Runs
<1>2. bytes \in Seq(0 .. Total) /\ label \in Nat
  BY <1>1 DEF IOs
<1>3. Len(bytes) \in Nat
  <2> HIDE DEF bytes, label
  <2>1. QED
    BY <1>2
<1> HIDE DEF bytes, label
<1>4. all \in Seq(0 .. Total) /\ all # <<>> /\ Len(all) = Len(bytes) + n
  BY <1>2, RowAdd
<1>5. Tight(bytes, label, at) => Tight(all, label, at + n)
  BY <1>2, <1>3, TightAdd
<1>6. a = [s |-> t, need |-> r.need, given |-> r.given, from |-> r.from]
  <2> HIDE DEF t
  <2>1. a = [r EXCEPT !.s = t]
    BY <1>0 DEF t, all, bytes, Joined
  <2>2. QED
    BY <1>1, <2>1
<1> HIDE DEF all
<1>7. t \in IOs
  BY <1>1, <1>4 DEF IOs
<1>8. /\ Alike(t, r.s) /\ t.stash = all /\ t.stashByteStart = label /\ t.to = r.s.to
      /\ t.bufferSize = b
  BY <1>1 DEF IOs, Alike, label
<1> HIDE DEF t
<1>9. a \in Runs /\ a.s = t
  BY <1>1, <1>6, <1>7 DEF Runs
<1>10. Fits(t)
  <2>1. r.s.stashSize <= b \/ r.s.stashSize = r.s.stashInitialSize
    <3>1. /\ r.s.stashSize <= r.s.bufferSize \/ r.s.stashSize = r.s.stashInitialSize
          /\ r.s.bufferSize \in Nat /\ r.s.stashSize \in Nat
      BY <1>1 DEF Fits, IOs
    <3>2. QED
      BY <1>0, <3>1
  <2>2. Len(all) <= b
    BY <1>0, <1>4 DEF bytes
  <2>3. t.stashSize = r.s.stashSize /\ r.s.stashSize > 0 /\ t.stashInitialSize = r.s.stashInitialSize
    BY <1>1, <1>8 DEF Alike, Fits
  <2>4. QED
    BY <1>8, <2>1, <2>2, <2>3 DEF Fits
<1>12. Sound(a)
  BY <1>9, <1>10 DEF Sound
<1>13. InLine(r, at) => InLine(a, at + n)
  BY <1>5, <1>6, <1>8, <1>9 DEF InLine, bytes, label
<1>14. OnTime(r) => OnTime(a)
  BY <1>6, <1>8, <1>9 DEF OnTime, label
<1>15. QED
  BY <1>4, <1>6, <1>8, <1>9, <1>12, <1>13, <1>14, SMTT(30) DEF bytes, label

\* A chunk joins the stash.
LEMMA AddRun ==
  ASSUME NEW r, NEW at \in Nat, Sound(r), NEW n \in Nat \ {0}, at + n <= Total
  PROVE  LET a == Add(r, Row(at, n))
         IN  /\ Sound(a) /\ Alike(a.s, r.s) /\ a.from = r.from
             /\ a.given = r.given /\ a.need = r.need
             /\ a.s.stash # <<>> /\ Len(a.s.stash) = Len(r.s.stash) + n
             /\ a.s.stashByteStart = r.s.stashByteStart /\ a.s.to = r.s.to
             /\ InLine(r, at) => InLine(a, at + n)
             /\ OnTime(r) => OnTime(a)
<1> DEFINE size == Len(r.s.stash) + n
           a == Add(r, Row(at, n))
<1>1. r.s \in IOs /\ r.s.stashSize > 0
  BY DEF Sound, Runs, Fits
<1>2. size \in Nat
  <2>1. r.s.stash \in Seq(0 .. Total)
    BY <1>1 DEF IOs
  <2>2. QED
    BY <2>1
<1>3. Len(Row(at, n)) = n
  BY ChunkTight
<1>4. a = [r EXCEPT !.s = [Room(r.s, size) EXCEPT !.stash = r.s.stash \o Row(at, n)]]
  BY <1>3 DEF Add
<1> HIDE DEF size, a
<1>5. PICK b \in Nat : Room(r.s, size) = [r.s EXCEPT !.bufferSize = b]
                       /\ r.s.bufferSize <= b /\ size <= b
  BY <1>1, <1>2, RoomSize
<1>6. a = Joined(r, at, n, b)
  BY <1>4, <1>5 DEF Joined
<1>7. Joins(r, at, n, a)
  BY <1>5, <1>6 DEF size, Joins
<1>8. /\ Sound(a) /\ Alike(a.s, r.s) /\ a.from = r.from
      /\ a.given = r.given /\ a.need = r.need
      /\ a.s.stash # <<>> /\ Len(a.s.stash) = Len(r.s.stash) + n
      /\ a.s.stashByteStart = r.s.stashByteStart /\ a.s.to = r.s.to
      /\ InLine(r, at) => InLine(a, at + n)
      /\ OnTime(r) => OnTime(a)
  BY <1>7, JoinRun
<1>9. QED
  BY <1>8 DEF a

\* A chunk joins a stash that has room for it.
LEMMA AppendRun ==
  ASSUME NEW r, NEW at \in Nat, Sound(r), NEW n \in Nat \ {0}, at + n <= Total,
         Len(r.s.stash) + n <= r.s.stashSize, ~(r.s.stashSize > r.s.bufferSize)
  PROVE  LET a == [r EXCEPT !.s.stash = r.s.stash \o Row(at, n)]
         IN  /\ Sound(a) /\ Alike(a.s, r.s) /\ a.from = r.from
             /\ a.given = r.given /\ a.need = r.need
             /\ a.s.stash # <<>> /\ Len(a.s.stash) = Len(r.s.stash) + n
             /\ a.s.stashByteStart = r.s.stashByteStart /\ a.s.to = r.s.to
             /\ InLine(r, at) => InLine(a, at + n)
             /\ OnTime(r) => OnTime(a)
<1> DEFINE b == r.s.bufferSize
           all == r.s.stash \o Row(at, n)
           a == [r EXCEPT !.s.stash = all]
<1>1. r \in Runs /\ r.s \in IOs
  BY DEF Sound, Runs
<1>2. b \in Nat /\ r.s.stashSize \in Nat /\ r.s.stash \in Seq(0 .. Total)
  BY <1>1 DEF IOs
<1>3. b <= b /\ Len(r.s.stash) + n <= b
  <2>1. Len(r.s.stash) \in Nat
    BY <1>2
  <2>2. QED
    BY <1>1, <1>2, <2>1
<1>4. r.s = [r.s EXCEPT !.bufferSize = b]
  BY <1>1 DEF IOs
<1>5. a = [r EXCEPT !.s = [[r.s EXCEPT !.bufferSize = b] EXCEPT !.stash = all]]
  <2> HIDE DEF all
  <2>1. a = [r EXCEPT !.s = [r.s EXCEPT !.stash = all]]
    BY <1>1 DEF Runs
  <2>2. QED
    BY <1>4, <2>1
<1> HIDE DEF b
<1>6. a = Joined(r, at, n, b)
  BY <1>5 DEF Joined
<1>7. Joins(r, at, n, a)
  BY <1>2, <1>3, <1>6 DEF b, Joins
<1> HIDE DEF a, all
<1>8. /\ Sound(a) /\ Alike(a.s, r.s) /\ a.from = r.from
      /\ a.given = r.given /\ a.need = r.need
      /\ a.s.stash # <<>> /\ Len(a.s.stash) = Len(r.s.stash) + n
      /\ a.s.stashByteStart = r.s.stashByteStart /\ a.s.to = r.s.to
      /\ InLine(r, at) => InLine(a, at + n)
      /\ OnTime(r) => OnTime(a)
  BY <1>7, JoinRun
<1>9. QED
  BY <1>8 DEF a, all

\* Giving out a chunk while the stash is empty.
LEMMA DispatchChunkRun ==
  ASSUME NEW r \in Runs, Fits(r.s), r.s.stash = <<>>,
         NEW at \in Nat, NEW n \in Nat \ {0}, at + n <= Total
  PROVE  LET d == DispatchChunk(r, Row(at, n), at)
         IN  /\ Sound(d) /\ Alike(d.s, r.s) /\ d.from = r.from
             /\ d.s.to = at + n - 1
             /\ d.s.stash = <<>> => d.s.stashByteStart = r.s.stashByteStart /\ d.need = at + n
             /\ Truthful(r.given) => /\ Truthful(d.given)
                                     /\ d.s.stash # <<>> => InLine(d, at + n)
             /\ Timely(r.given) /\ r.need = at => /\ Timely(d.given)
                                                  /\ d.s.stash # <<>> => OnTime(d)
<1> DEFINE chunk == Row(at, n)
           c == Consumed(r.need, chunk)
           rest == SubSeq(chunk, c + 1, Len(chunk))
           e == Dispatch(r, chunk, at)
           d == DispatchChunk(r, chunk, at)
<1>1. /\ chunk \in Seq(0 .. Total) /\ chunk # <<>> /\ Len(chunk) = n /\ chunk[1] = at
      /\ Tight(chunk, at, at + n)
  BY ChunkTight
<1>2. r.s \in IOs /\ r.need \in Nat
      /\ r = [s |-> r.s, need |-> r.need, given |-> r.given, from |-> r.from]
  BY DEF Runs
<1> HIDE DEF chunk
<1>3. c \in 0 .. n
  BY <1>1, <1>2, ConsumedRange
<1>5. at + c \in Nat /\ at + n \in Nat
  BY <1>3
<1>6. rest \in Seq(0 .. Total) /\ Len(rest) = n - c /\ (rest = <<>> <=> c = n)
  BY <1>1, <1>3, RestSeq
<1>7. Tight(rest, at + c, at + n)
  BY <1>1, <1>3, <1>5, TightRest
<1>8. /\ e \in Runs /\ e.from = r.from /\ e.s = [r.s EXCEPT !.to = at + n - 1]
      /\ e.need = at + c
      /\ Truthful(r.given) => Truthful(e.given)
      /\ Timely(r.given) /\ at = r.need => Timely(e.given)
  BY <1>1, <1>2, DispatchRun
<1>9. /\ Alike(e.s, r.s) /\ e.s.stash = <<>> /\ e.s.stashByteStart = r.s.stashByteStart
      /\ e.s.to = at + n - 1 /\ e.s.bufferSize = r.s.bufferSize
  BY <1>2, <1>8 DEF IOs, Alike
<1>10. Fits(e.s)
  <2>1. e.s.stashSize = r.s.stashSize /\ e.s.stashInitialSize = r.s.stashInitialSize
    BY <1>9 DEF Alike
  <2>2. QED
    BY <1>9, <2>1 DEF Fits
<1> HIDE DEF e, c, rest
<1>11. CASE c = n
  <2>1. d = e
    BY <1>1, <1>11 DEF DispatchChunk, c, e
  <2>3. Sound(e)
    BY <1>8, <1>10 DEF Sound
  <2>4. QED
    BY <1>8, <1>9, <1>11, <2>1, <2>3 DEF d, chunk
<1>12. CASE c # n
  <2> DEFINE left == n - c
             f == [e EXCEPT !.s = Room(e.s, left)]
  <2>1. c < n /\ left \in Nat
    BY <1>3, <1>12
  <2>2. d = Keep(f, rest, at + c)
    BY <1>1, <2>1 DEF DispatchChunk, c, e, rest
  <2> HIDE DEF left, d
  <2>3. e.s \in IOs /\ e = [s |-> e.s, need |-> e.need, given |-> e.given, from |-> e.from]
    BY <1>8 DEF Runs
  <2>4. PICK b \in Nat : Room(e.s, left) = [e.s EXCEPT !.bufferSize = b]
                         /\ e.s.bufferSize <= b /\ left <= b
    BY <1>10, <2>1, <2>3, RoomSize DEF Fits
  <2>5. f = [s |-> [e.s EXCEPT !.bufferSize = b], need |-> e.need, given |-> e.given, from |-> e.from]
    BY <2>3, <2>4
  <2>6. [e.s EXCEPT !.bufferSize = b] \in IOs
    BY <2>3 DEF IOs
  <2>7. f \in Runs
    BY <1>8, <2>5, <2>6 DEF Runs
  <2>8. /\ d \in Runs /\ d.from = f.from /\ d.need = f.need /\ d.given = f.given
        /\ d.s = [f.s EXCEPT !.stash = rest, !.stashByteStart = at + c]
    <3> HIDE DEF f
    <3>1. LET k == Keep(f, rest, at + c)
          IN  /\ k \in Runs /\ k.from = f.from /\ k.need = f.need /\ k.given = f.given
              /\ k.s = [f.s EXCEPT !.stash = rest, !.stashByteStart = at + c]
      BY <1>5, <1>6, <2>7, KeepRun, ZenonT(60)
    <3>2. QED
      BY <2>2, <3>1
  <2>9. /\ d.s = [[e.s EXCEPT !.bufferSize = b] EXCEPT !.stash = rest, !.stashByteStart = at + c]
        /\ d.from = r.from /\ d.need = at + c /\ d.given = e.given
    BY <1>8, <2>5, <2>8
  <2>10. /\ Alike(d.s, e.s) /\ d.s.stash = rest /\ d.s.stashByteStart = at + c
         /\ d.s.to = e.s.to /\ d.s.bufferSize = b
    <3> DEFINE start == at + c
    <3>1. d.s = [[e.s EXCEPT !.bufferSize = b] EXCEPT !.stash = rest, !.stashByteStart = start]
      BY <2>9
    <3> HIDE DEF start
    <3>2. /\ Alike(d.s, e.s) /\ d.s.stash = rest /\ d.s.stashByteStart = start
          /\ d.s.to = e.s.to /\ d.s.bufferSize = b
      BY <2>3, <3>1 DEF IOs, Alike
    <3>3. QED
      BY <3>2 DEF start
  <2>11. Alike(d.s, r.s)
    BY <1>9, <2>10 DEF Alike
  <2>12. Fits(d.s)
    <3>1. Len(rest) <= b
      BY <1>6, <2>4 DEF left
    <3>2. /\ e.s.stashSize <= e.s.bufferSize \/ e.s.stashSize = e.s.stashInitialSize
          /\ e.s.stashSize > 0
          /\ e.s.bufferSize \in Nat /\ e.s.stashSize \in Nat
      BY <1>10, <2>3 DEF Fits, IOs
    <3>3. /\ e.s.stashSize <= b \/ e.s.stashSize = e.s.stashInitialSize
          /\ d.s.stashSize = e.s.stashSize /\ d.s.stashInitialSize = e.s.stashInitialSize
      BY <2>4, <2>10, <3>2 DEF Alike
    <3>4. QED
      BY <2>10, <3>1, <3>2, <3>3 DEF Fits
  <2>13. d.s.to = at + n - 1
    BY <1>9, <2>10
  <2>14. Sound(d)
    BY <2>8, <2>12 DEF Sound
  <2>15. Truthful(r.given) => InLine(d, at + n) /\ Truthful(d.given)
    BY <1>7, <1>8, <2>9, <2>10 DEF InLine
  <2>16. Timely(r.given) /\ r.need = at => OnTime(d) /\ Timely(d.given)
    BY <1>8, <2>9, <2>10 DEF OnTime
  <2>17. d.s.stash # <<>>
    BY <1>6, <1>12, <2>10
  <2>18. QED
    BY <2>9, <2>11, <2>13, <2>14, <2>15, <2>16, <2>17 DEF d, chunk
<1>13. QED
  BY <1>11, <1>12

\* The stash is labelled with its position up to where the request has come; the
\* demuxer needs it, or the next byte, next.
Held(s, at) == s.stash # <<>> => Tight(s.stash, s.stashByteStart, at)
Due(s, nd, at) == nd = IF s.stash # <<>> THEN s.stashByteStart ELSE at

\* The numbers and sequences of a sound run.
LEMMA SoundTypes ==
  ASSUME NEW r, Sound(r)
  PROVE  /\ r \in Runs /\ r.s \in IOs /\ r.s.stash \in Seq(0 .. Total) /\ Len(r.s.stash) \in Nat
         /\ r.s.stashByteStart \in Nat /\ r.s.stashSize \in Nat /\ r.need \in Nat
         /\ r.s.to \in Int /\ r.s.to + 1 \in Nat
<1>1. r \in Runs /\ r.s \in IOs /\ r.need \in Nat
  BY DEF Sound, Runs
<1>2. r.s.stash \in Seq(0 .. Total) /\ r.s.stashByteStart \in Nat /\ r.s.stashSize \in Nat
      /\ r.s.to \in Places
  BY <1>1 DEF IOs
<1>3. Len(r.s.stash) \in Nat /\ r.s.to \in Int /\ r.s.to + 1 \in Nat
  BY <1>2 DEF Places
<1>4. QED
  BY <1>1, <1>2, <1>3

\* A chunk that arrives while there is a stash.
LEMMA StashedRun ==
  ASSUME NEW r, NEW at \in Nat, Sound(r), r.given = <<>>,
         NEW n \in Nat \ {0}, at + n <= Total
  PROVE  LET d == Stashed(r, Row(at, n), at)
         IN  /\ Sound(d) /\ Alike(d.s, r.s) /\ d.from = r.from
             /\ /\ Held(r.s, at) /\ (r.s.stash = <<>> => r.s.stashByteStart = 0)
                /\ ~Overlarge(r.s, Row(at, n))
                => /\ Truthful(d.given) /\ Held(d.s, at + n)
                   /\ d.s.stash = <<>> => d.s.stashByteStart = at /\ d.s.to = at + n - 1
                   /\ Due(r.s, r.need, at) => Timely(d.given) /\ Due(d.s, d.need, at + n)
<1> DEFINE first == r.s.stash = <<>> /\ r.s.stashByteStart = 0
           f == IF first THEN [r EXCEPT !.s.stashByteStart = at] ELSE r
           d == Stashed(r, Row(at, n), at)
           Right == Held(r.s, at) /\ (r.s.stash = <<>> => r.s.stashByteStart = 0)
           Next1 == Due(r.s, r.need, at)
<1>0. Len(Row(at, n)) = n
  BY ChunkTight
<1>1. Sound(f) /\ Alike(f.s, r.s) /\ f.from = r.from /\ f.given = <<>> /\ f.need = r.need
      /\ f.s.stash = r.s.stash /\ f.s.stashByteStart = (IF first THEN at ELSE r.s.stashByteStart)
      /\ f.s.bufferSize = r.s.bufferSize
  <2>1. r \in Runs /\ r.s \in IOs
    BY SoundTypes
  <2>2. CASE first
    <3>1. f = [s |-> [r.s EXCEPT !.stashByteStart = at], need |-> r.need, given |-> r.given, from |-> r.from]
      BY <2>1, <2>2 DEF Runs
    <3>2. [r.s EXCEPT !.stashByteStart = at] \in IOs
      BY <2>1 DEF IOs
    <3>3. f \in Runs
      BY <2>1, <3>1, <3>2 DEF Runs
    <3>4. /\ Alike(f.s, r.s) /\ f.s.stash = <<>> /\ f.s.stashByteStart = at /\ f.s.to = r.s.to
          /\ f.s.bufferSize = r.s.bufferSize
      BY <2>1, <2>2, <3>1 DEF IOs, Alike
    <3>5. Fits(f.s)
      <4>1. f.s.stashSize = r.s.stashSize /\ f.s.stash = r.s.stash
            /\ f.s.stashInitialSize = r.s.stashInitialSize
        BY <2>2, <3>4 DEF Alike
      <4>2. QED
        BY <3>4, <4>1 DEF Fits, Sound
    <3> HIDE DEF f
    <3>7. f.need = r.need /\ f.given = r.given /\ f.from = r.from
      BY <3>1
    <3>8. Sound(f)
      BY <3>3, <3>5 DEF Sound
    <3>9. QED
      BY <2>2, <3>4, <3>7, <3>8
  <2>3. CASE ~first
    BY <2>3 DEF Alike
  <2>4. QED
    BY <2>2, <2>3
<1>2. Right => InLine(f, at)
  <2>1. ASSUME Right PROVE InLine(f, at)
    <3>1. Truthful(f.given)
      <4>1. f.given = <<>>
        BY <1>1
      <4>2. QED
        BY <4>1 DEF Truthful
    <3>2. CASE r.s.stash = <<>>
      <4>1. f.s.stash = <<>> /\ f.s.stashByteStart = at
        BY <1>1, <2>1, <3>2
      <4>2. Tight(<<>>, at, at)
        <5>1. Row(at, 0) = <<>>
          BY DEF Row
        <5>2. Len(<<>>) = 0 /\ at + 0 = at
          OBVIOUS
        <5>3. QED
          BY <5>1, <5>2 DEF Tight
      <4>3. QED
        BY <3>1, <4>1, <4>2 DEF InLine
    <3>3. CASE r.s.stash # <<>>
      BY <1>1, <2>1, <3>1, <3>3 DEF InLine, Held
    <3>4. QED
      BY <3>2, <3>3
  <2>2. QED
    BY <2>1
<1>3. Right /\ Next1 => OnTime(f)
  <2>1. Timely(f.given)
    <3>1. f.given = <<>>
      BY <1>1
    <3>2. QED
      BY <3>1 DEF Timely
  <2>2. QED
    BY <1>1, <2>1 DEF OnTime, Due
<1> DEFINE chunk == Row(at, n)
           over == Overlarge(r.s, chunk)
           Result == /\ Sound(d) /\ Alike(d.s, r.s) /\ d.from = r.from
                     /\ Right /\ ~over =>
                          /\ Truthful(d.given) /\ Held(d.s, at + n)
                          /\ d.s.stash = <<>> => d.s.stashByteStart = at /\ d.s.to = at + n - 1
                          /\ Next1 => Timely(d.given) /\ Due(d.s, d.need, at + n)
<1>4. /\ Overlarge(f.s, chunk) <=> over
      /\ d = CASE Overlarge(f.s, chunk) -> f
                [] Len(f.s.stash) + Len(chunk) <= f.s.stashSize /\ ~Overlarge(f.s, chunk)
                     -> [f EXCEPT !.s.stash = f.s.stash \o chunk]
                [] f.s.stash # <<>> /\ Len(f.s.stash) + Len(chunk) > f.s.stashSize
                     -> Add(DispatchStash(f), chunk)
                [] OTHER -> DispatchChunk(f, chunk, at)
  <2>1. Overlarge(f.s, chunk) <=> over
    <3> HIDE DEF f, chunk
    <3>1. f.s.stashSize = r.s.stashSize
      BY <1>1 DEF Alike
    <3>2. QED
      BY <1>1, <3>1 DEF Overlarge
  <2>2. QED
    BY <2>1 DEF Stashed
<1>5. Len(f.s.stash) \in Nat /\ f.s.stashSize \in Nat /\ f.s.bufferSize \in Nat
      /\ f.s.stashByteStart \in Nat /\ f \in Runs
  <2> HIDE DEF f
  <2>1. f.s \in IOs
    BY <1>1, SoundTypes
  <2>2. QED
    BY <1>1, <2>1, SoundTypes DEF IOs
<1>10. over <=> Len(f.s.stash) + n <= f.s.stashSize /\ f.s.stashSize > f.s.bufferSize
  <2> HIDE DEF f, chunk
  <2>1. Len(chunk) = n
    BY <1>0 DEF chunk
  <2>2. QED
    BY <1>4, <2>1 DEF Overlarge
<1> HIDE DEF f, d, first, Right, Next1, over
<1>11. CASE over
  <2>1. d = f
    <3>1. Overlarge(f.s, chunk) /\ ~(Len(f.s.stash) + Len(chunk) > f.s.stashSize)
      BY <1>0, <1>4, <1>5, <1>10, <1>11
    <3>2. QED
      BY <1>4, <3>1
  <2>2. QED
    BY <1>1, <1>11, <2>1 DEF d, over
<1>6. CASE Len(f.s.stash) + n <= f.s.stashSize /\ ~over
  <2>1. d = [f EXCEPT !.s.stash = f.s.stash \o Row(at, n)]
    <3>1. chunk = Row(at, n) /\ Len(chunk) = n
      BY <1>0
    <3> HIDE DEF chunk
    <3>2. Len(f.s.stash) + Len(chunk) <= f.s.stashSize /\ ~Overlarge(f.s, chunk)
      BY <1>4, <1>6, <3>1
    <3>3. d = [f EXCEPT !.s.stash = f.s.stash \o chunk]
      <4>1. ~(Len(f.s.stash) + Len(chunk) > f.s.stashSize)
        BY <1>5, <3>1, <3>2
      <4>2. QED
        BY <1>4, <3>2, <4>1
    <3>4. QED
      BY <3>1, <3>3
  <2>2. /\ Sound(d) /\ Alike(d.s, f.s) /\ d.from = f.from
        /\ d.given = f.given /\ d.need = f.need /\ d.s.stash # <<>>
        /\ InLine(f, at) => InLine(d, at + n)
        /\ OnTime(f) => OnTime(d)
    <3>1. ~(f.s.stashSize > f.s.bufferSize)
      BY <1>6, <1>10
    <3>2. QED
      BY <1>1, <1>6, <2>1, <3>1, AppendRun, ZenonT(60)
  <2>3. Result
    BY <1>1, <1>2, <1>3, <2>2 DEF Alike, InLine, OnTime, Held, Due
  <2>4. QED
    BY <2>3 DEF d, Right, Next1, over
<1>7. CASE f.s.stash # <<>> /\ ~(Len(f.s.stash) + n <= f.s.stashSize)
  <2> DEFINE g == DispatchStash(f)
  <2>1. d = Add(g, Row(at, n))
    <3>1. /\ ~(Len(f.s.stash) + Len(chunk) <= f.s.stashSize)
          /\ Len(f.s.stash) + Len(chunk) > f.s.stashSize
      BY <1>0, <1>5, <1>7
    <3>2. ~Overlarge(f.s, chunk)
      BY <3>1 DEF Overlarge
    <3>3. QED
      BY <1>4, <1>7, <3>1, <3>2
  <2>2. /\ Sound(g) /\ Alike(g.s, f.s) /\ g.from = f.from
        /\ InLine(f, at) => InLine(g, at)
        /\ InLine(f, at) /\ OnTime(f) => OnTime(g)
    BY <1>1, <1>7, DispatchStashRun
  <2> HIDE DEF g
  <2>3. /\ Sound(d) /\ Alike(d.s, g.s) /\ d.from = g.from
        /\ d.given = g.given /\ d.need = g.need /\ d.s.stash # <<>>
        /\ InLine(g, at) => InLine(d, at + n)
        /\ OnTime(g) => OnTime(d)
    BY <2>1, <2>2, AddRun
  <2>4. Result
    BY <1>1, <1>2, <1>3, <2>2, <2>3 DEF Alike, InLine, OnTime, Held, Due
  <2>5. QED
    BY <2>4 DEF d, Right, Next1, over
<1>8. CASE f.s.stash = <<>> /\ ~(Len(f.s.stash) + n <= f.s.stashSize)
  <2>1. d = DispatchChunk(f, Row(at, n), at)
    <3>1. ~(Len(f.s.stash) + Len(chunk) <= f.s.stashSize)
      BY <1>0, <1>5, <1>8
    <3>2. ~Overlarge(f.s, chunk)
      BY <3>1 DEF Overlarge
    <3>3. QED
      BY <1>4, <1>8, <3>1, <3>2
  <2>2. Fits(f.s) /\ (Right => f.s.stashByteStart = at)
    BY <1>1, <1>8 DEF Sound, Right, first
  <2>3. /\ Sound(d) /\ Alike(d.s, f.s) /\ d.from = f.from
        /\ d.s.to = at + n - 1
        /\ d.s.stash = <<>> => d.s.stashByteStart = f.s.stashByteStart /\ d.need = at + n
        /\ Truthful(f.given) => /\ Truthful(d.given)
                                /\ d.s.stash # <<>> => InLine(d, at + n)
        /\ Timely(f.given) /\ f.need = at => /\ Timely(d.given)
                                             /\ d.s.stash # <<>> => OnTime(d)
    BY <1>5, <1>8, <2>1, <2>2, DispatchChunkRun
  <2>4. Truthful(f.given) /\ Timely(f.given)
    <3>1. f.given = <<>>
      BY <1>1
    <3>2. QED
      BY <3>1 DEF Truthful, Timely
  <2>5. Next1 => f.need = at
    BY <1>1, <1>8 DEF Next1, Due
  <2>6. Result
    BY <1>1, <2>2, <2>3, <2>4, <2>5 DEF Alike, InLine, OnTime, Held, Due
  <2>7. QED
    BY <2>6 DEF d, Right, Next1, over
<1>9. QED
  BY <1>6, <1>7, <1>8, <1>11

\* A chunk that arrives while there is none.
LEMMA UnstashedRun ==
  ASSUME NEW r, NEW at \in Nat, Sound(r), r.given = <<>>,
         NEW n \in Nat \ {0}, at + n <= Total
  PROVE  LET d == Unstashed(r, Row(at, n), at)
         IN  /\ Sound(d) /\ Alike(d.s, r.s) /\ d.from = r.from
             /\ Held(r.s, at)
                  => /\ Truthful(d.given) /\ Held(d.s, at + n)
                     /\ d.s.stash = <<>> => d.s.to = at + n - 1
                     /\ Due(r.s, r.need, at) => Timely(d.given) /\ Due(d.s, d.need, at + n)
<1> DEFINE d == Unstashed(r, Row(at, n), at)
           Result == /\ Sound(d) /\ Alike(d.s, r.s) /\ d.from = r.from
                     /\ Held(r.s, at)
                          => /\ Truthful(d.given) /\ Held(d.s, at + n)
                             /\ d.s.stash = <<>> => d.s.to = at + n - 1
                             /\ Due(r.s, r.need, at) => Timely(d.given) /\ Due(d.s, d.need, at + n)
<1>0. at + n \in Nat /\ at + n - 1 + 1 = at + n
  OBVIOUS
<1>1. Truthful(r.given) /\ Timely(r.given)
  BY DEF Truthful, Timely
<1>2. r \in Runs /\ Fits(r.s)
  BY DEF Sound
<1>3. CASE r.s.stash = <<>>
  <2>1. d = DispatchChunk(r, Row(at, n), at)
    BY <1>3 DEF Unstashed
  <2> HIDE DEF d
  <2>3. /\ Sound(d) /\ Alike(d.s, r.s) /\ d.from = r.from
        /\ d.s.to = at + n - 1
        /\ d.s.stash = <<>> => d.s.stashByteStart = r.s.stashByteStart /\ d.need = at + n
        /\ Truthful(r.given) => /\ Truthful(d.given)
                                /\ d.s.stash # <<>> => InLine(d, at + n)
        /\ Timely(r.given) /\ r.need = at => /\ Timely(d.given)
                                             /\ d.s.stash # <<>> => OnTime(d)
    BY <1>2, <1>3, <2>1, DispatchChunkRun
  <2>4. Due(r.s, r.need, at) => r.need = at
    BY <1>3 DEF Due
  <2>5. Result
    BY <1>0, <1>1, <2>3, <2>4 DEF InLine, OnTime, Held, Due
  <2>6. QED
    BY <2>5 DEF d
<1>4. CASE r.s.stash # <<>>
  <2> DEFINE a == Add(r, Row(at, n))
  <2>1. d = DispatchStash(a)
    BY <1>4 DEF Unstashed
  <2>2. /\ Sound(a) /\ Alike(a.s, r.s) /\ a.from = r.from
        /\ a.given = r.given /\ a.need = r.need /\ a.s.stash # <<>>
        /\ a.s.stashByteStart = r.s.stashByteStart
        /\ InLine(r, at) => InLine(a, at + n)
        /\ OnTime(r) => OnTime(a)
    BY AddRun
  <2> HIDE DEF a, d
  <2>3. /\ Sound(d) /\ Alike(d.s, a.s) /\ d.from = a.from
        /\ d.s.to + 1 = a.s.stashByteStart + Len(a.s.stash)
        /\ d.s.stash = <<>> => d.s.stashByteStart = d.s.to + 1
        /\ InLine(a, at + n) => InLine(d, at + n)
        /\ InLine(a, at + n) /\ OnTime(a) => OnTime(d)
    BY <1>0, <2>1, <2>2, DispatchStashRun
  <2>4. d.s.to \in Int /\ d.s.stashByteStart \in Nat
    BY <1>0, <2>3, SoundTypes
  <2>5. Held(r.s, at) => InLine(d, at + n)
    BY <1>1, <1>4, <2>2, <2>3 DEF Held, InLine
  <2>6. Held(r.s, at) /\ Due(r.s, r.need, at) => OnTime(d)
    BY <1>1, <1>4, <2>2, <2>3 DEF Held, InLine, Due, OnTime
  <2>7. InLine(d, at + n) => (d.s.stash = <<>> => d.s.stashByteStart = at + n)
    <3>1. ASSUME InLine(d, at + n), d.s.stash = <<>> PROVE d.s.stashByteStart = at + n
      <4>1. d.s.stashByteStart + Len(<<>>) = at + n
        BY <3>1 DEF InLine, Tight
      <4>2. QED
        BY <2>4, <4>1
    <3>2. QED
      BY <3>1
  <2>8. InLine(d, at + n) => (d.s.stash = <<>> => d.s.to = at + n - 1)
    BY <1>0, <2>3, <2>4, <2>7
  <2>9. Result
    <3>1. Alike(d.s, r.s) /\ d.from = r.from
      BY <2>2, <2>3 DEF Alike
    <3>2. QED
      BY <2>3, <2>5, <2>6, <2>7, <2>8, <3>1 DEF InLine, OnTime, Held, Due
  <2>10. QED
    BY <2>9 DEF d
<1>5. QED
  BY <1>3, <1>4

\* Flushing a run.
LEMMA FlushRun ==
  ASSUME NEW r, NEW at \in Nat, Sound(r), NEW drop \in BOOLEAN
  PROVE  LET f == Flush(r, drop)
         IN  /\ Sound(f) /\ Alike(f.s, r.s) /\ f.from = r.from
             /\ r.s.stash = <<>> => f = r
             /\ r.s.stash # <<>> =>
                  /\ f.s.to + 1 = r.s.stashByteStart + Len(r.s.stash)
                  /\ f.s.stash = <<>> => f.s.stashByteStart = 0
                  /\ InLine(r, at) => Truthful(f.given) /\ Held(f.s, at)
                  /\ InLine(r, at) /\ OnTime(r) =>
                       Timely(f.given) /\ (~drop \/ at = Total => Due(f.s, f.need, at))
<1> DEFINE d == DispatchStash(r)
           k == Keep(d, <<>>, 0)
           f == Flush(r, drop)
<1>1. CASE r.s.stash = <<>>
  <2>1. f = r
    BY <1>1 DEF Flush
  <2> HIDE DEF f
  <2>2. QED
    BY <1>1, <2>1 DEF Alike, f
<1>2. CASE r.s.stash # <<>>
  <2>1. /\ Sound(d) /\ Alike(d.s, r.s) /\ d.from = r.from
        /\ d.s.to + 1 = r.s.stashByteStart + Len(r.s.stash)
        /\ d.s.stash = <<>> => d.s.stashByteStart = d.s.to + 1
        /\ InLine(r, at) => InLine(d, at)
        /\ InLine(r, at) /\ OnTime(r) => OnTime(d) /\ (at = Total => d.s.stash = <<>>)
    BY <1>2, DispatchStashRun
  <2>2. f = IF drop \/ d.s.stash = <<>> THEN k ELSE d
    BY <1>2 DEF Flush
  <2>3. /\ d \in Runs /\ d.s \in IOs /\ d.s.stashByteStart \in Nat /\ d.s.to \in Int
        /\ d.s.to + 1 \in Nat /\ Fits(d.s)
    <3>1. d \in Runs /\ d.s \in IOs /\ d.s.stashByteStart \in Nat /\ d.s.to \in Int
      BY <2>1, SoundTypes
    <3>2. r.s.stashByteStart \in Nat /\ Len(r.s.stash) \in Nat
      BY SoundTypes
    <3>3. QED
      BY <2>1, <3>1, <3>2 DEF Sound
  <2> HIDE DEF d, f
  <2>4. CASE drop \/ d.s.stash = <<>>
    <3>1. f = k
      BY <2>2, <2>4
    <3>2. <<>> \in Seq(0 .. Total) /\ 0 \in Nat
      OBVIOUS
    <3>3. /\ k \in Runs /\ k.from = d.from /\ k.need = d.need /\ k.given = d.given
          /\ k.s = [d.s EXCEPT !.stash = <<>>, !.stashByteStart = 0]
      BY <2>3, <3>2, KeepRun, ZenonT(60)
    <3> HIDE DEF k
    <3>4. /\ Alike(k.s, d.s) /\ k.s.stash = <<>> /\ k.s.stashByteStart = 0
          /\ k.s.to = d.s.to /\ k.s.bufferSize = d.s.bufferSize
      BY <2>3, <3>3 DEF IOs, Alike
    <3>5. Fits(k.s)
      <4>1. Len(<<>>) = 0 /\ k.s.stashSize = d.s.stashSize /\ d.s.bufferSize \in Nat
            /\ k.s.stashInitialSize = d.s.stashInitialSize
        BY <2>3, <3>4 DEF Alike, IOs
      <4>2. 0 <= d.s.bufferSize
        BY <4>1
      <4>3. QED
        BY <2>3, <3>4, <4>1, <4>2 DEF Fits
    <3>7. Sound(k)
      BY <3>3, <3>5 DEF Sound
    <3>8. ASSUME InLine(d, at), OnTime(d), ~drop \/ (at = Total => d.s.stash = <<>>), ~drop \/ at = Total
          PROVE  k.need = at
      <4>1. d.s.stash = <<>> /\ d.s.stashByteStart = d.need
        BY <2>4, <3>8 DEF OnTime
      <4>2. d.s.stashByteStart + Len(<<>>) = at
        BY <3>8, <4>1 DEF InLine, Tight
      <4>3. QED
        BY <2>3, <3>3, <4>1, <4>2
    <3>9. Alike(k.s, r.s)
      BY <2>1, <3>4 DEF Alike
    <3>10. QED
      BY <1>2, <2>1, <3>1, <3>3, <3>4, <3>7, <3>8, <3>9 DEF f, Held, Due, InLine, OnTime
  <2>5. CASE ~(drop \/ d.s.stash = <<>>)
    <3>1. f = d
      BY <2>2, <2>5
    <3>2. QED
      BY <1>2, <2>1, <2>5, <3>1 DEF f, Held, Due, InLine, OnTime
  <2>6. QED
    BY <2>4, <2>5
<1>3. QED
  BY <1>1, <1>2

\* A new request leaves the stash as the flush does.
LEMMA SeekRun ==
  ASSUME NEW r, NEW bytes \in Nat, NEW drop \in BOOLEAN,
         Flush(r, drop) \in Runs, Fits(Flush(r, drop).s),
         r.s.stashInitialSize = Flush(r, drop).s.stashInitialSize
  PROVE  LET q == InternalSeek(r, bytes, drop)
             f == Flush(r, drop)
         IN  /\ q \in Runs /\ Fits(q.s) /\ q.from = bytes /\ q.need = f.need /\ q.given = f.given
             /\ q.s.stash = f.s.stash /\ q.s.stashByteStart = f.s.stashByteStart /\ q.s.to = -1
             /\ q.s.live = f.s.live /\ q.s.enableStash = f.s.enableStash
             /\ q.s.reconnecting = f.s.reconnecting /\ q.s.paused = f.s.paused
             /\ q.s.resumeFrom = f.s.resumeFrom /\ q.s.open = f.s.open
<1> DEFINE f == Flush(r, drop)
           s1 == [f.s EXCEPT !.to = -1]
           size == r.s.stashInitialSize
           s2 == [s1 EXCEPT !.stashSize = size]
           s3 == [s2 EXCEPT !.requests = f.s.requests + 1]
           q == InternalSeek(r, bytes, drop)
<1>1. f.s \in IOs /\ f = [s |-> f.s, need |-> f.need, given |-> f.given, from |-> f.from]
      /\ f.need \in Nat /\ f.given \in Seq(Handed)
  BY DEF Runs
<1>0. Fits(f.s) /\ f \in Runs
  OBVIOUS
<1>2. size \in Nat \ {0} /\ size = f.s.stashInitialSize /\ -1 \in Places /\ bytes \in Places
  BY <1>1 DEF IOs, Places
<1>3. q = [s |-> s3, need |-> f.need, given |-> f.given, from |-> bytes]
  <2> DEFINE a == [f EXCEPT !.s.to = -1]
             b == [a EXCEPT !.s.stashSize = size]
             c == [b EXCEPT !.s.requests = @ + 1]
  <2>1. q = [c EXCEPT !.from = bytes]
    BY DEF InternalSeek
  <2> HIDE DEF f, size
  <2>2. a = [s |-> s1, need |-> f.need, given |-> f.given, from |-> f.from]
    BY <1>1
  <2> HIDE DEF a
  <2>3. b = [s |-> s2, need |-> f.need, given |-> f.given, from |-> f.from]
    BY <2>2
  <2>4. s2.requests = f.s.requests
    BY <1>1 DEF IOs
  <2> HIDE DEF b, s2
  <2>5. c = [s |-> s3, need |-> f.need, given |-> f.given, from |-> f.from]
    BY <2>3, <2>4
  <2> HIDE DEF c, s3
  <2>6. QED
    BY <2>1, <2>5
<1> HIDE DEF f, size
<1>4. s1 \in IOs /\ s1.requests = f.s.requests
  BY <1>1, <1>2 DEF IOs
<1>5. s2 \in IOs
  <2> HIDE DEF s1
  <2>1. QED
    BY <1>2, <1>4 DEF IOs
<1>6. f.s.requests + 1 \in Nat
  BY <1>1 DEF IOs
<1>7. s3 \in IOs
  <2> HIDE DEF s2
  <2>1. QED
    BY <1>5, <1>6 DEF IOs
<1>8. /\ s3.stash = f.s.stash /\ s3.stashByteStart = f.s.stashByteStart /\ s3.to = -1
      /\ s3.live = f.s.live /\ s3.enableStash = f.s.enableStash
      /\ s3.reconnecting = f.s.reconnecting /\ s3.paused = f.s.paused
      /\ s3.resumeFrom = f.s.resumeFrom /\ s3.open = f.s.open
      /\ s3.stashSize = size /\ s3.bufferSize = f.s.bufferSize
      /\ s3.stashInitialSize = f.s.stashInitialSize
  BY <1>1 DEF IOs
<1>9. Fits(s3)
  <2>1. Len(f.s.stash) <= f.s.bufferSize
    BY <1>0 DEF Fits
  <2>2. size > 0
    BY <1>2
  <2> HIDE DEF s3
  <2>3. QED
    BY <1>2, <1>8, <2>1, <2>2 DEF Fits
<1> HIDE DEF s3, q
<1>10. q \in Runs
  BY <1>1, <1>2, <1>3, <1>7 DEF Runs
<1>11. QED
  BY <1>3, <1>8, <1>9, <1>10 DEF f, q

-----------------------------------------------------------------------------
(* The steps. *)

\* The fields of a run that begins.
LEMMA RunFields ==
  ASSUME NEW s
  PROVE  Run(s).s = s /\ Run(s).given = <<>> /\ Run(s).need = need /\ Run(s).from = -1
BY DEF Run

\* A run of a request from a state of the controller is sound.
LEMMA RunSound ==
  ASSUME IInv, NEW s \in IOs, Fits(s)
  PROVE  /\ Sound(Run(s)) /\ Run(s).s = s /\ Run(s).given = <<>> /\ Run(s).need = need
         /\ Run(s).from = -1 /\ Run(s) \in Runs
<1>1. need \in Nat /\ <<>> \in Seq(Handed) /\ -1 \in Places
  BY DEF IInv, TypeInv, Places
<1>2. /\ Run(s).s = s /\ Run(s).given = <<>> /\ Run(s).need = need /\ Run(s).from = -1
  BY DEF Run
<1>3. Run(s) \in Runs
  BY <1>1 DEF Run, Runs
<1>4. QED
  BY <1>2, <1>3 DEF Sound

\* What a flush at the end of an answer leaves.
LEMMA FlushIo ==
  ASSUME IInv, io.open, Talking \/ loader.phase = "aborted", NEW drop \in BOOLEAN
  PROVE  LET r == Flush(Run(io), drop)
         IN  /\ r \in Runs /\ Fits(r.s) /\ Alike(r.s, io) /\ r.from = -1
             /\ io.paused => r = Run(io)
             /\ Unbroken =>
                  /\ Truthful(r.given)
                  /\ Current =>
                       /\ Held(r.s, At)
                       /\ r.s.stash = <<>> /\ io.enableStash => r.s.stashByteStart = 0
                       /\ r.s.to = At - 1 \/ (r.s.stash = <<>> /\ r.s.to = -1 /\ loader.got = 0)
             /\ lapses = {} =>
                  /\ Timely(r.given)
                  /\ Current /\ (~drop \/ At = Total) => Due(r.s, r.need, At)
<1> DEFINE i == Run(io)
           r == Flush(i, drop)
<1>0. io \in IOs /\ Fits(io) /\ At \in Nat /\ need \in Nat
  BY DEF IInv, TypeInv, SizeInv
<1>1. io.paused \/ Current
  BY DEF IInv, ModeInv, Current
<1>2. i.s = io /\ i.given = <<>> /\ i.need = need /\ i.from = -1 /\ i \in Runs
  <2>1. <<>> \in Seq(Handed) /\ -1 \in Places
    BY DEF Places
  <2>2. QED
    BY <1>0, <2>1 DEF Run, Runs
<1>3. Truthful(i.given) /\ Timely(i.given)
  BY <1>2 DEF Truthful, Timely
<1>4. Alike(i.s, io)
  BY <1>2 DEF Alike
<1>5. CASE io.paused
  <2>1. io.stash = <<>> /\ ~Current
    BY <1>5 DEF IInv, ModeInv, Current
  <2>2. r = i
    BY <1>2, <2>1 DEF Flush
  <2> HIDE DEF i, r
  <2>3. QED
    BY <1>0, <1>2, <1>3, <1>4, <1>5, <2>1, <2>2 DEF i, r
<1>6. CASE ~io.paused
  <2>1. Current
    BY <1>1, <1>6
  <2>2. Sound(i)
    BY <1>0, RunSound
  <2> HIDE DEF i
  <2>3. /\ Sound(r) /\ Alike(r.s, i.s) /\ r.from = i.from
        /\ i.s.stash = <<>> => r = i
        /\ i.s.stash # <<>> =>
             /\ r.s.to + 1 = i.s.stashByteStart + Len(i.s.stash)
             /\ r.s.stash = <<>> => r.s.stashByteStart = 0
             /\ InLine(i, At) => Truthful(r.given) /\ Held(r.s, At)
             /\ InLine(i, At) /\ OnTime(i) =>
                  Timely(r.given) /\ (~drop \/ At = Total => Due(r.s, r.need, At))
    BY <1>0, <2>2, FlushRun
  <2> HIDE DEF r
  <2>4. io.stashByteStart \in Nat /\ Len(io.stash) \in Nat /\ r.s.to \in Int
    BY <1>2, <2>2, <2>3, SoundTypes
  <2>5. r \in Runs /\ Fits(r.s) /\ Alike(r.s, io) /\ r.from = -1
    BY <1>2, <2>3 DEF Sound
  <2>7. ASSUME Unbroken
        PROVE  /\ Truthful(r.given) /\ Held(r.s, At)
               /\ r.s.stash = <<>> /\ io.enableStash => r.s.stashByteStart = 0
               /\ r.s.to = At - 1 \/ (r.s.stash = <<>> /\ r.s.to = -1 /\ loader.got = 0)
    <3>1. /\ io.stash # <<>> => Tight(io.stash, io.stashByteStart, At)
          /\ io.stash = <<>> /\ io.enableStash => io.stashByteStart = 0
          /\ io.stash = <<>> => io.to = At - 1 \/ (io.to = -1 /\ loader.got = 0)
      BY <2>1, <2>7 DEF IInv, TightInv
    <3>2. CASE io.stash = <<>>
      BY <1>2, <1>3, <2>3, <3>1, <3>2 DEF Held
    <3>3. CASE io.stash # <<>>
      <4>1. InLine(i, At)
        BY <1>2, <1>3, <3>1, <3>3 DEF InLine
      <4>2. io.stashByteStart + Len(io.stash) = At
        BY <3>1, <3>3 DEF Tight
      <4>3. r.s.to = At - 1
        BY <1>0, <1>2, <2>3, <2>4, <3>3, <4>2
      <4>4. QED
        BY <1>2, <2>3, <3>3, <4>1, <4>3
    <3>4. QED
      BY <3>2, <3>3
  <2>8. ASSUME lapses = {}
        PROVE  Timely(r.given) /\ (~drop \/ At = Total => Due(r.s, r.need, At))
    <3>1. /\ io.stash # <<>> => Tight(io.stash, io.stashByteStart, At)
          /\ need = IF io.stash # <<>> THEN io.stashByteStart ELSE At
      BY <2>1, <2>8 DEF IInv, TightInv, ExactInv, Unbroken
    <3>2. CASE io.stash = <<>>
      BY <1>2, <1>3, <2>3, <3>1, <3>2 DEF Due
    <3>3. CASE io.stash # <<>>
      <4>1. InLine(i, At) /\ OnTime(i)
        BY <1>2, <1>3, <3>1, <3>3 DEF InLine, OnTime
      <4>2. QED
        BY <1>2, <2>3, <3>3, <4>1
    <3>4. QED
      BY <3>2, <3>3
  <2>9. QED
    BY <1>6, <2>1, <2>3, <2>5, <2>7, <2>8 DEF i, r
<1>7. QED
  BY <1>5, <1>6

\* The first state.
LEMMA InitInv == Init => IInv
<1> SUFFICES ASSUME Init PROVE IInv
  OBVIOUS
<1>1. PICK o \in Openings :
        /\ io = [live |-> o.live, enableStash |-> o.stash,
                 stash |-> <<>>, stashByteStart |-> 0, stashInitialSize |-> o.stashInitialSize,
                 stashSize |-> o.stashInitialSize, bufferSize |-> BufferInitialSize,
                 to |-> -1, totalLength |-> o.filesize, fullRequestFlag |-> o.from = 0,
                 reconnecting |-> FALSE, paused |-> FALSE, resumeFrom |-> 0,
                 speed |-> 0, requests |-> 1, open |-> TRUE]
        /\ loader = Loader(o.from) /\ need = o.from
  BY DEF Init
<1>2. /\ loader = [phase |-> "open", from |-> o.from, got |-> 0, length |-> FALSE]
      /\ need = o.from /\ given = <<>> /\ verdict = "none" /\ lapses = {}
  BY <1>1 DEF Init, Loader
<1>3. /\ o.live \in BOOLEAN /\ o.stash \in BOOLEAN /\ o.stashInitialSize \in Nat \ {0}
      /\ o.from \in Nat /\ o.filesize \in 0 .. Total /\ BufferInitialSize \in Nat
  <2>1. o \in [live : BOOLEAN, stash : BOOLEAN, stashInitialSize : Nat \ {0},
               from : {0} \cup (TagEnds \ {Total}), filesize : {0, Total}]
    BY IOAssumption
  <2>2. Total \in Nat /\ TagEnds \subseteq 1 .. Total /\ BufferInitialSize \in Nat
    BY IOAssumption
  <2>3. o.from \in {0} \cup TagEnds /\ o.filesize \in {0, Total}
    BY <2>1
  <2>4. o.from \in Nat /\ o.filesize \in 0 .. Total
    <3>1. \A e \in TagEnds : e \in Nat
      BY <2>2
    <3>2. 0 \in 0 .. Total /\ Total \in 0 .. Total
      BY <2>2
    <3>3. o.from \in Nat
      BY <2>3, <3>1
    <3>4. QED
      BY <2>3, <3>2, <3>3
  <2>5. QED
    BY <2>1, <2>2, <2>4
<1>4. <<>> \in Seq(0 .. Total) /\ <<>> \in Seq(Handed) /\ -1 \in Places
  BY DEF Places
<1>5. At = o.from
  BY <1>2, <1>3 DEF At
<1>6. io \in IOs
  <2> DEFINE full == o.from = 0
  <2>1. full \in BOOLEAN
    OBVIOUS
  <2>2. io = [live |-> o.live, enableStash |-> o.stash,
              stash |-> <<>>, stashByteStart |-> 0, stashInitialSize |-> o.stashInitialSize,
              stashSize |-> o.stashInitialSize, bufferSize |-> BufferInitialSize,
              to |-> -1, totalLength |-> o.filesize, fullRequestFlag |-> full,
              reconnecting |-> FALSE, paused |-> FALSE, resumeFrom |-> 0,
              speed |-> 0, requests |-> 1, open |-> TRUE]
    BY <1>1
  <2> HIDE DEF full
  <2>3. QED
    BY <1>3, <1>4, <2>1, <2>2 DEF IOs
<1>7. TypeInv
  BY <1>2, <1>3, <1>4, <1>5, <1>6 DEF TypeInv, LoaderStates
<1>8. /\ io.stash = <<>> /\ io.stashSize = o.stashInitialSize
      /\ io.stashInitialSize = o.stashInitialSize /\ io.bufferSize = BufferInitialSize
      /\ ~io.paused /\ ~io.reconnecting /\ io.stashByteStart = 0 /\ io.to = -1
  BY <1>1
<1>9. SizeInv
  <2>1. Len(<<>>) = 0 /\ 0 <= BufferInitialSize /\ o.stashInitialSize > 0
    BY <1>3
  <2>2. QED
    BY <1>8, <2>1 DEF SizeInv, Fits
<1>10. ModeInv
  BY <1>2, <1>8 DEF ModeInv
<1>11. TightInv /\ ExactInv
  BY <1>2, <1>5, <1>8 DEF TightInv, ExactInv
<1>12. Labelled /\ NoGap /\ CompleteIsAll
  BY <1>2 DEF Labelled, LabelsTrue, NoGap, CompleteIsAll
<1>13. QED
  BY <1>7, <1>9, <1>10, <1>11, <1>12 DEF IInv

\* A step that hands nothing over and does not report completion.
LEMMA Silent ==
  ASSUME given' = <<>>, verdict' # "complete"
  PROVE  given' \in Seq(Handed) /\ Labelled' /\ NoGap' /\ CompleteIsAll'
<1>1. DOMAIN given' = {}
  BY DEF Labelled
<1>2. given' \in Seq(Handed)
  OBVIOUS
<1>3. QED
  BY <1>1, <1>2 DEF Labelled, LabelsTrue, NoGap, CompleteIsAll

\* A step that gives out what a run has, labelled and in order if it should be.
LEMMA Spoken ==
  ASSUME NEW r \in Runs, given' = r.given,
         Unbroken' => Truthful(r.given),
         lapses' = {} => Timely(r.given)
  PROVE  given' \in Seq(Handed) /\ Labelled' /\ NoGap'
<1>1. given' \in Seq(Handed)
  BY DEF Runs
<1>2. QED
  BY <1>1 DEF Labelled, LabelsTrue, NoGap, Truthful, Timely, Unbroken

\* The length of the answer becomes known.
LEMMA ContentLengthStep ==
  ASSUME IInv, OnContentLengthKnown
  PROVE  IInv'
<1>1. /\ io \in IOs /\ loader \in LoaderStates /\ At \in Nat /\ need \in Nat
      /\ Total \in Nat
  BY IOAssumption DEF IInv, TypeInv
<1>2. /\ loader' = [loader EXCEPT !.length = TRUE] /\ given' = <<>> /\ verdict' = "none"
      /\ need' = need /\ lapses' = lapses /\ Left > 0
      /\ io' = IF io.fullRequestFlag
               THEN [io EXCEPT !.totalLength = Left, !.fullRequestFlag = FALSE] ELSE io
  BY DEF OnContentLengthKnown
<1>3. Left \in 0 .. Total
  <2>1. loader.from \in Nat /\ loader.got \in Nat
    BY <1>1 DEF LoaderStates
  <2>2. QED
    BY <1>1, <1>2, <2>1 DEF Left
<1> HIDE DEF Left
<1>4. /\ loader' \in LoaderStates /\ loader'.phase = loader.phase
      /\ loader'.from = loader.from /\ loader'.got = loader.got
  BY <1>1, <1>2 DEF LoaderStates
<1>5. /\ io' \in IOs /\ io'.stash = io.stash /\ io'.stashByteStart = io.stashByteStart
      /\ io'.to = io.to /\ io'.live = io.live /\ io'.enableStash = io.enableStash
      /\ io'.reconnecting = io.reconnecting /\ io'.paused = io.paused
      /\ io'.resumeFrom = io.resumeFrom /\ io'.open = io.open
      /\ io'.stashSize = io.stashSize /\ io'.bufferSize = io.bufferSize
      /\ io'.stashInitialSize = io.stashInitialSize
  <2>1. CASE io.fullRequestFlag
    <3>1. [io EXCEPT !.totalLength = Left] \in IOs
      BY <1>1, <1>3 DEF IOs
    <3>2. io' = [[io EXCEPT !.totalLength = Left] EXCEPT !.fullRequestFlag = FALSE]
      BY <1>2, <2>1
    <3>3. io' \in IOs
      BY <3>1, <3>2 DEF IOs
    <3>4. QED
      BY <1>1, <1>2, <2>1, <3>3 DEF IOs
  <2>2. CASE ~io.fullRequestFlag
    BY <1>1, <1>2, <2>2
  <2>3. QED
    BY <2>1, <2>2
<1>6. At' = At /\ (Talking' <=> Talking) /\ (Current' <=> Current)
  BY <1>4, <1>5 DEF At, Talking, Current
<1>7. given' \in Seq(Handed) /\ Labelled' /\ NoGap' /\ CompleteIsAll'
  BY <1>2, Silent
<1>8. TypeInv'
  BY <1>1, <1>2, <1>4, <1>5, <1>6, <1>7 DEF TypeInv
<1>9. SizeInv' /\ ModeInv'
  BY <1>4, <1>5 DEF IInv, SizeInv, Fits, ModeInv
<1>10. TightInv' /\ ExactInv'
  BY <1>2, <1>4, <1>5, <1>6 DEF IInv, TightInv, ExactInv, Unbroken
<1>11. QED
  BY <1>7, <1>8, <1>9, <1>10 DEF IInv

\* A chunk comes.
LEMMA ChunkStep ==
  ASSUME IInv, OnLoaderChunkArrival
  PROVE  IInv'
<1>1. /\ io \in IOs /\ loader \in LoaderStates /\ At \in Nat /\ need \in Nat
      /\ Total \in Nat /\ verdict \in {"none", "complete", "error"}
  BY IOAssumption DEF IInv, TypeInv
<1>2. loader.from \in Nat /\ loader.got \in Nat /\ Total - loader.from - loader.got = Total - At
  <2>1. loader.from \in Nat /\ loader.got \in Nat
    BY <1>1 DEF LoaderStates
  <2>2. QED
    BY <1>1, <2>1 DEF At
<1>3. PICK n \in 1 .. Min({MaxChunk, Left}), kb \in Speeds :
        LET chunk == [i \in 1 .. n |-> loader.from + loader.got + i - 1]
            r     == Run(Measured([io EXCEPT !.reconnecting = FALSE], kb))
            done  == IF io.enableStash THEN Stashed(r, chunk, loader.from + loader.got)
                     ELSE Unstashed(r, chunk, loader.from + loader.got)
        IN  IF io.paused
            THEN UNCHANGED <<io, need, lapses>> /\ given' = <<>> /\ verdict' = "none"
                 /\ loader' = [loader EXCEPT !.got = @ + n]
            ELSE /\ io' = done.s /\ need' = done.need /\ given' = done.given
                 /\ verdict' = "none"
                 /\ loader' = [loader EXCEPT !.got = @ + n]
                 /\ lapses' = lapses \cup Lapse(r.s, chunk, done.s, loader.from + loader.got + n)
  BY DEF OnLoaderChunkArrival
<1>4. n \in Nat \ {0} /\ At + n <= Total /\ At + n \in Nat
  <2>1. Left \in Int /\ Left = Total - At /\ MaxChunk \in Nat
    BY <1>1, <1>2, IOAssumption DEF Left
  <2>2. Min({MaxChunk, Left}) \in Int /\ Min({MaxChunk, Left}) <= Left
    <3> HIDE DEF Left
    <3>1. PICK m \in {MaxChunk, Left} : \A y \in {MaxChunk, Left} : m <= y
      BY <2>1
    <3>2. Min({MaxChunk, Left}) \in {MaxChunk, Left} /\ \A y \in {MaxChunk, Left} : Min({MaxChunk, Left}) <= y
      BY <3>1 DEF Min
    <3>3. QED
      BY <2>1, <3>2
  <2>3. n \in Int /\ 1 <= n /\ n <= Left
    <3>1. n \in 1 .. Min({MaxChunk, Left})
      BY <1>3
    <3> HIDE DEF Left
    <3>2. QED
      BY <2>1, <2>2, <3>1
  <2>4. QED
    BY <1>1, <1>2, <2>1, <2>3
<1>5. /\ loader' = [loader EXCEPT !.got = @ + n] /\ verdict' = "none"
  BY <1>3
<1>6. /\ loader' \in LoaderStates /\ loader'.phase = loader.phase /\ At' = At + n
      /\ loader'.length = loader.length
  <2>1. loader.got + n \in Nat
    BY <1>2, <1>4
  <2>2. loader' \in LoaderStates /\ loader'.phase = loader.phase /\ loader'.from = loader.from
        /\ loader'.got = loader.got + n /\ loader'.length = loader.length
    BY <1>1, <1>5, <2>1 DEF LoaderStates
  <2>3. QED
    BY <1>2, <1>4, <2>2 DEF At
<1>7. Talking /\ io.open
  BY DEF OnLoaderChunkArrival, Talking
<1>8. CASE io.paused
  <2>1. UNCHANGED <<io, need, lapses>> /\ given' = <<>>
    BY <1>3, <1>8
  <2>2. given' \in Seq(Handed) /\ Labelled' /\ NoGap' /\ CompleteIsAll'
    BY <1>5, <2>1, Silent
  <2>3. ~Current'
    BY <1>8, <2>1 DEF Current
  <2>4. TypeInv'
    BY <1>1, <1>4, <1>5, <1>6, <2>1, <2>2 DEF TypeInv
  <2>5. SizeInv' /\ ModeInv'
    BY <1>6, <2>1 DEF IInv, SizeInv, ModeInv
  <2>6. TightInv' /\ ExactInv'
    BY <2>1, <2>3 DEF IInv, TightInv, ExactInv
  <2>7. QED
    BY <2>2, <2>4, <2>5, <2>6 DEF IInv
<1>9. CASE ~io.paused
  <2> DEFINE s == [io EXCEPT !.reconnecting = FALSE]
             m == Measured(s, kb)
             r == Run(m)
             chunk == Row(At, n)
             done == IF io.enableStash THEN Stashed(r, chunk, At) ELSE Unstashed(r, chunk, At)
  <2>1. /\ io' = done.s /\ need' = done.need /\ given' = done.given
        /\ lapses' = lapses \cup Lapse(r.s, chunk, done.s, At + n)
    BY <1>3, <1>9 DEF At, Row
  <2>2. Current /\ Fits(io)
    BY <1>7, <1>9 DEF Current, IInv, SizeInv
  <2>3. kb \in Nat
    BY IOAssumption
  <2>4. /\ s \in IOs /\ Fits(s) /\ s.stash = io.stash /\ s.stashByteStart = io.stashByteStart
        /\ s.to = io.to /\ s.live = io.live /\ s.enableStash = io.enableStash
        /\ s.reconnecting = FALSE /\ s.paused = io.paused /\ s.open = io.open
    <3>1. /\ s \in IOs /\ s.stash = io.stash /\ s.stashByteStart = io.stashByteStart
          /\ s.to = io.to /\ s.live = io.live /\ s.enableStash = io.enableStash
          /\ s.reconnecting = FALSE /\ s.paused = io.paused /\ s.open = io.open
          /\ s.stashSize = io.stashSize /\ s.bufferSize = io.bufferSize
          /\ s.stashInitialSize = io.stashInitialSize
      BY <1>1 DEF IOs
    <3> HIDE DEF s
    <3>2. QED
      BY <2>2, <3>1 DEF Fits
  <2> HIDE DEF s
  <2>5. /\ m \in IOs /\ Fits(m) /\ m.stash = io.stash /\ m.stashByteStart = io.stashByteStart
        /\ m.to = io.to /\ m.live = io.live /\ m.enableStash = io.enableStash
        /\ m.reconnecting = FALSE /\ m.paused = FALSE /\ m.open = io.open
    BY <1>9, <2>3, <2>4, MeasuredFits
  <2> HIDE DEF m
  <2>6. Sound(r) /\ r.s = m /\ r.given = <<>> /\ r.need = need /\ r.from = -1
    BY <2>2, <2>5, RunSound
  <2> HIDE DEF r, chunk
  <2>7. Sound(done) /\ Alike(done.s, m)
    <3>1. CASE io.enableStash
      <4>1. done = Stashed(r, Row(At, n), At)
        BY <3>1 DEF chunk
      <4> HIDE DEF done
      <4>2. QED
        BY <1>1, <1>4, <2>6, <4>1, StashedRun
    <3>2. CASE ~io.enableStash
      <4>1. done = Unstashed(r, Row(At, n), At)
        BY <3>2 DEF chunk
      <4> HIDE DEF done
      <4>2. QED
        BY <1>1, <1>4, <2>6, <4>1, UnstashedRun
    <3>3. QED
      BY <3>1, <3>2
  <2>8. ASSUME Unbroken'
        PROVE  /\ Truthful(done.given) /\ Held(done.s, At + n)
               /\ done.s.stash = <<>> /\ io.enableStash => done.s.stashByteStart = 0
               /\ done.s.stash = <<>> => done.s.to = At + n - 1
               /\ Due(m, need, At) => Timely(done.given) /\ Due(done.s, done.need, At + n)
    <3>1. Unbroken /\ Lapse(m, chunk, done.s, At + n) \cap {"taken whole", "thrown"} = {}
      BY <2>1, <2>6, <2>8 DEF Unbroken
    <3>2. Held(m, At) /\ (m.stash = <<>> /\ io.enableStash => m.stashByteStart = 0)
      BY <2>2, <2>5, <3>1 DEF IInv, TightInv, Held
    <3>3. CASE io.enableStash
      <4>1. done = Stashed(r, Row(At, n), At)
        BY <3>3 DEF chunk
      <4>2. /\ ~Overlarge(m, chunk)
            /\ done.s.stash = <<>> => done.s.stashByteStart \in {0, At + n}
        <5> HIDE DEF done
        <5>1. m.enableStash
          BY <2>5, <3>3
        <5>2. ~Overlarge(m, chunk)
          BY <3>1, <5>1 DEF Lapse
        <5>3. QED
          BY <3>1, <5>1, <5>2 DEF Lapse
      <4> HIDE DEF done
      <4>3. /\ done.s.stash = <<>> => done.s.stashByteStart = At /\ done.s.to = At + n - 1
            /\ Truthful(done.given) /\ Held(done.s, At + n)
            /\ Due(m, need, At) => Timely(done.given) /\ Due(done.s, done.need, At + n)
        BY <1>1, <1>4, <2>6, <3>2, <3>3, <4>1, <4>2, StashedRun DEF chunk
      <4>4. QED
        BY <1>2, <1>4, <4>2, <4>3
    <3>4. CASE ~io.enableStash
      <4>1. done = Unstashed(r, Row(At, n), At)
        BY <3>4 DEF chunk
      <4> HIDE DEF done
      <4>2. QED
        BY <1>1, <1>4, <2>6, <3>2, <3>4, <4>1, UnstashedRun
    <3>5. QED
      BY <3>3, <3>4
  <2> HIDE DEF done
  <2>9. done \in Runs /\ Fits(done.s) /\ done.s \in IOs /\ done.need \in Nat
    BY <2>7 DEF Sound, Runs
  <2>10. ASSUME lapses' = {} PROVE Timely(done.given) /\ Due(done.s, done.need, At + n)
    <3>1. lapses = {} /\ Unbroken'
      BY <2>1, <2>10 DEF Unbroken
    <3>2. Due(m, need, At)
      BY <2>2, <2>5, <3>1 DEF IInv, ExactInv, Due
    <3>3. QED
      BY <2>8, <3>1, <3>2
  <2>11. given' \in Seq(Handed) /\ Labelled' /\ NoGap'
    <3>1. given' = done.given
      BY <2>1
    <3>2. QED
      BY <2>8, <2>9, <2>10, <3>1, Spoken
  <2>12. CompleteIsAll'
    BY <1>5 DEF CompleteIsAll
  <2>13. /\ io'.live = io.live /\ io'.enableStash = io.enableStash /\ ~io'.reconnecting
         /\ ~io'.paused /\ io'.open
    BY <1>7, <2>1, <2>5, <2>7 DEF Alike
  <2>14. TypeInv'
    BY <1>4, <1>5, <1>6, <2>1, <2>9, <2>11 DEF TypeInv
  <2>15. SizeInv'
    BY <2>1, <2>9 DEF SizeInv
  <2>16. ModeInv'
    <3>1. loader'.phase # "aborted"
      BY <1>6, <1>7, <1>9 DEF IInv, ModeInv
    <3>2. QED
      BY <2>13, <3>1 DEF ModeInv
  <2>18. TightInv'
    <3>1. SUFFICES ASSUME Unbroken'
                   PROVE  /\ io'.stash # <<>> => Tight(io'.stash, io'.stashByteStart, At')
                          /\ io'.stash = <<>> /\ io'.enableStash => io'.stashByteStart = 0
                          /\ io'.stash = <<>> => io'.to = At' - 1
      BY DEF TightInv
    <3>2. /\ Held(done.s, At + n)
          /\ done.s.stash = <<>> /\ io.enableStash => done.s.stashByteStart = 0
          /\ done.s.stash = <<>> => done.s.to = At + n - 1
      BY <2>8, <3>1
    <3>3. io' = done.s /\ At' = At + n /\ io'.enableStash = io.enableStash
      BY <1>6, <2>1, <2>13
    <3>4. io'.stash # <<>> => Tight(io'.stash, io'.stashByteStart, At')
      BY <3>2, <3>3 DEF Held
    <3>5. io'.stash = <<>> /\ io'.enableStash => io'.stashByteStart = 0
      BY <3>2, <3>3
    <3>6. io'.stash = <<>> => io'.to = At' - 1
      BY <1>1, <1>4, <3>2, <3>3
    <3>7. QED
      BY <3>4, <3>5, <3>6
  <2>19. ExactInv'
    BY <1>6, <2>1, <2>10, <2>13 DEF ExactInv, Due
  <2>20. QED
    BY <2>11, <2>12, <2>14, <2>15, <2>16, <2>18, <2>19 DEF IInv
<1>10. QED
  BY <1>8, <1>9

\* The end of an answer.
LEMMA CompleteStep ==
  ASSUME IInv, OnLoaderComplete
  PROVE  IInv'
<1> DEFINE r == Flush(Run(io), TRUE)
<1>1. /\ io.open /\ (Talking \/ loader.phase = "aborted") /\ (loader.length => Left = 0)
      /\ io' = r.s /\ need' = r.need /\ given' = r.given
      /\ loader' = [loader EXCEPT !.phase = "done"] /\ verdict' = "complete" /\ lapses' = lapses
  BY DEF OnLoaderComplete
<1>2. /\ io \in IOs /\ loader \in LoaderStates /\ At \in Nat /\ Total \in Nat
  BY IOAssumption DEF IInv, TypeInv
<1>3. /\ r \in Runs /\ Fits(r.s) /\ Alike(r.s, io)
      /\ io.paused => r = Run(io)
      /\ Unbroken => Truthful(r.given)
      /\ lapses = {} => /\ Timely(r.given)
                        /\ Current /\ At = Total => Due(r.s, r.need, At)
  BY <1>1, FlushIo
<1>4. r.s.stash = <<>>
  <2>1. CASE io.paused
    BY <1>3, <2>1, RunFields DEF IInv, ModeInv
  <2>2. CASE ~io.paused
    <3>1. CASE io.stash = <<>>
      BY <3>1 DEF Flush, Run
    <3>2. CASE io.stash # <<>>
      <4>1. r = Keep(DispatchStash(Run(io)), <<>>, 0)
        BY <3>2 DEF Flush, Run
      <4>2. Current /\ Fits(io)
        BY <1>1, <2>2 DEF Current, IInv, ModeInv, SizeInv
      <4>3. Sound(Run(io)) /\ Run(io).s = io
        BY <1>2, <4>2, RunSound
      <4>4. DispatchStash(Run(io)) \in Runs
        BY <1>2, <3>2, <4>3, DispatchStashRun DEF Sound
      <4>5. <<>> \in Seq(0 .. Total) /\ 0 \in Nat
        OBVIOUS
      <4> DEFINE d == DispatchStash(Run(io))
      <4>6. r.s = [d.s EXCEPT !.stash = <<>>, !.stashByteStart = 0]
        <5>1. d \in Runs /\ r = Keep(d, <<>>, 0)
          BY <4>1, <4>4
        <5> HIDE DEF d, r
        <5>2. Keep(d, <<>>, 0).s = [d.s EXCEPT !.stash = <<>>, !.stashByteStart = 0]
          BY <4>5, <5>1, KeepRun, ZenonT(60)
        <5>3. QED
          BY <5>1, <5>2
      <4>7. d.s \in IOs
        BY <4>4 DEF Runs
      <4> HIDE DEF d, r
      <4>8. QED
        BY <4>6, <4>7 DEF IOs
    <3>3. QED
      BY <3>1, <3>2
  <2>3. QED
    BY <2>1, <2>2
<1> HIDE DEF r
<1>5. /\ loader' \in LoaderStates /\ loader'.phase = "done" /\ At' = At
      /\ loader'.length = loader.length
  BY <1>1, <1>2 DEF LoaderStates, At
<1>6. /\ io'.paused = io.paused /\ io'.open = io.open /\ io'.resumeFrom = io.resumeFrom
      /\ io'.live = io.live /\ io'.reconnecting = io.reconnecting
  BY <1>1, <1>3 DEF Alike
<1>7. ~Current'
  BY <1>5 DEF Current, Talking
<1>8. given' \in Seq(Handed) /\ Labelled' /\ NoGap'
  <2>1. given' = r.given /\ lapses' = lapses
    BY <1>1
  <2>2. (Unbroken' => Unbroken) /\ (lapses' = {} => lapses = {})
    BY <2>1 DEF Unbroken
  <2>3. QED
    BY <1>3, <2>1, <2>2, Spoken
<1>9. CompleteIsAll'
  <2>1. SUFFICES ASSUME ~io'.paused, loader'.length, lapses' = {} PROVE need' = Total
    BY DEF CompleteIsAll
  <2>2. Current
    BY <1>1, <1>6, <2>1 DEF Current, IInv, ModeInv
  <2>3. At = Total
    <3>1. loader.from \in Nat /\ loader.got \in Nat
      BY <1>2 DEF LoaderStates
    <3>2. Total - loader.from - loader.got = 0
      BY <1>1, <1>5, <2>1 DEF Left
    <3>3. QED
      BY <1>2, <3>1, <3>2 DEF At
  <2>4. Due(r.s, r.need, At)
    BY <1>1, <1>3, <2>1, <2>2, <2>3
  <2>5. QED
    BY <1>1, <1>4, <2>3, <2>4 DEF Due
<1>10. TypeInv'
  <2>1. r.s \in IOs /\ r.need \in Nat
    BY <1>3 DEF Runs
  <2>2. QED
    BY <1>1, <1>2, <1>5, <1>8, <2>1 DEF TypeInv
<1>11. SizeInv'
  BY <1>1, <1>3 DEF SizeInv
<1>12. ModeInv'
  <2>1. io.paused => io'.stash = <<>> /\ io'.stashByteStart = 0
    BY <1>1, <1>3, <1>4, RunFields DEF IInv, ModeInv
  <2>2. QED
    BY <1>5, <1>6, <2>1 DEF IInv, ModeInv
<1>13. TightInv'
  BY <1>7 DEF TightInv
<1>14. ExactInv'
  <2>1. io.paused => need' = need
    BY <1>1, <1>3, RunFields
  <2>2. QED
    BY <1>1, <1>6, <1>7, <2>1 DEF IInv, ExactInv
<1>15. QED
  BY <1>8, <1>9, <1>10, <1>11, <1>12, <1>13, <1>14 DEF IInv

\* The loading is paused.
LEMMA PauseStep ==
  ASSUME IInv, Pause
  PROVE  IInv'
<1>1. /\ io.open /\ loader.phase = "open" /\ ~io.paused
      /\ loader' = [loader EXCEPT !.phase = "aborted"] /\ need' = need
      /\ given' = <<>> /\ verdict' = "none"
      /\ lapses' = IF io.stash = <<>> /\ io.to = -1 /\ loader.from # 0
                   THEN lapses \cup {"nothing yet"} ELSE lapses
  BY DEF Pause
<1>2. /\ io \in IOs /\ loader \in LoaderStates /\ At \in Nat /\ need \in Nat /\ Fits(io)
  BY <1>1 DEF IInv, TypeInv, SizeInv
<1> DEFINE from == IF io.stash # <<>> THEN io.stashByteStart ELSE io.to + 1
           to == IF io.stash # <<>> THEN io.stashByteStart - 1 ELSE io.to
<1>3. Current
  BY <1>1 DEF Current, Talking
<1>4. io.stashByteStart \in Nat /\ io.to \in Places
  BY <1>2 DEF IOs
<1>5. from \in Nat /\ to \in Places
  BY <1>4 DEF Places
<1>6. io' = [io EXCEPT !.resumeFrom = from, !.to = to, !.stash = <<>>, !.stashByteStart = 0,
                       !.paused = TRUE]
  BY DEF Pause
<1> HIDE DEF from, to
<1>7. io' \in IOs
  <2>1. [io EXCEPT !.resumeFrom = from] \in IOs
    BY <1>2, <1>5 DEF IOs
  <2>2. [io EXCEPT !.resumeFrom = from, !.to = to] \in IOs
    BY <1>2, <1>5, <2>1 DEF IOs
  <2> DEFINE s == [io EXCEPT !.resumeFrom = from, !.to = to]
  <2>3. io' = [s EXCEPT !.stash = <<>>, !.stashByteStart = 0, !.paused = TRUE]
    BY <1>6
  <2>4. <<>> \in Seq(0 .. Total) /\ 0 \in Nat
    OBVIOUS
  <2> HIDE DEF s
  <2>5. s \in IOs
    BY <2>2 DEF s
  <2>6. QED
    BY <2>3, <2>4, <2>5 DEF IOs
<1>8. /\ io'.stash = <<>> /\ io'.stashByteStart = 0 /\ io'.paused /\ io'.resumeFrom = from
      /\ io'.live = io.live /\ io'.reconnecting = io.reconnecting
      /\ io'.stashSize = io.stashSize /\ io'.bufferSize = io.bufferSize
      /\ io'.stashInitialSize = io.stashInitialSize
  BY <1>2, <1>6 DEF IOs
<1>9. loader' \in LoaderStates /\ At' = At
  BY <1>1, <1>2 DEF LoaderStates, At
<1>10. given' \in Seq(Handed) /\ Labelled' /\ NoGap' /\ CompleteIsAll'
  BY <1>1, Silent
<1>11. TypeInv'
  BY <1>1, <1>2, <1>7, <1>9, <1>10 DEF TypeInv
<1>12. SizeInv'
  <2>1. Len(io.stash) \in Nat /\ io.bufferSize \in Nat
    BY <1>2 DEF IOs
  <2>2. Len(io'.stash) <= io'.bufferSize
    BY <1>8, <2>1
  <2>3. QED
    BY <1>2, <1>8, <2>2 DEF SizeInv, Fits
<1>13. ModeInv'
  BY <1>8 DEF IInv, ModeInv
<1>14. ~Current'
  BY <1>8 DEF Current
<1>15. TightInv'
  BY <1>14 DEF TightInv
<1>16. ExactInv'
  <2>1. SUFFICES ASSUME lapses' = {} PROVE from = need
    BY <1>1, <1>8, <1>14 DEF ExactInv
  <2>2. lapses = {} /\ ~(io.stash = <<>> /\ io.to = -1 /\ loader.from # 0)
    BY <1>1, <2>1
  <2>3. need = IF io.stash # <<>> THEN io.stashByteStart ELSE At
    BY <1>3, <2>2 DEF IInv, ExactInv
  <2>4. CASE io.stash # <<>>
    BY <2>3, <2>4 DEF from
  <2>5. CASE io.stash = <<>>
    <3>1. io.to = At - 1 \/ (io.to = -1 /\ loader.got = 0)
      BY <1>3, <2>2, <2>5 DEF IInv, TightInv, Unbroken
    <3>2. loader.from \in Nat /\ loader.got \in Nat
      BY <1>2 DEF LoaderStates
    <3>3. io.to + 1 = At
      <4>1. At = loader.from + loader.got /\ At \in Int
        BY <1>2 DEF At
      <4> HIDE DEF At
      <4>2. CASE io.to = At - 1
        BY <4>1, <4>2
      <4>3. CASE io.to = -1 /\ loader.got = 0
        BY <2>2, <2>5, <3>2, <4>1, <4>3
      <4>4. QED
        BY <3>1, <4>2, <4>3
    <3>4. QED
      BY <2>3, <2>5, <3>3 DEF from
  <2>6. QED
    BY <2>4, <2>5
<1>17. QED
  BY <1>10, <1>11, <1>12, <1>13, <1>15, <1>16 DEF IInv

\* A new request of a controller whose stash is empty: it begins with nothing
\* given out.
LEMMA Reopened ==
  ASSUME IInv, io.open, NEW r \in Runs, r.given = <<>>, r.s.stash = <<>>, r.s.stashByteStart = 0,
         Fits(r.s), ~r.s.paused, r.s.reconnecting => ~r.s.live,
         NEW bytes \in Nat, NEW drop \in BOOLEAN,
         Ends(InternalSeek(r, bytes, drop), "none"),
         lapses' = {} => r.need = bytes
  PROVE  IInv'
<1> DEFINE q == InternalSeek(r, bytes, drop)
<1>1. bytes \in Nat /\ bytes # -1
  OBVIOUS
<1>2. Flush(r, drop) = r
  BY DEF Flush
<1>3. /\ q \in Runs /\ Fits(q.s) /\ q.from = bytes /\ q.need = r.need /\ q.given = <<>>
      /\ q.s.stash = <<>> /\ q.s.stashByteStart = 0 /\ q.s.to = -1
      /\ q.s.live = r.s.live /\ q.s.reconnecting = r.s.reconnecting /\ q.s.paused = r.s.paused
  <2> DEFINE f == Flush(r, drop)
  <2>1. f = r
    BY <1>2
  <2>2. f \in Runs /\ Fits(f.s) /\ r.s.stashInitialSize = f.s.stashInitialSize
    BY <1>2
  <2>3. /\ q \in Runs /\ Fits(q.s) /\ q.from = bytes /\ q.need = f.need /\ q.given = f.given
        /\ q.s.stash = f.s.stash /\ q.s.stashByteStart = f.s.stashByteStart /\ q.s.to = -1
        /\ q.s.live = f.s.live /\ q.s.reconnecting = f.s.reconnecting /\ q.s.paused = f.s.paused
    BY <2>2, SeekRun
  <2> HIDE DEF f, q
  <2>4. QED
    BY <2>1, <2>3
<1> HIDE DEF q
<1>4. /\ io' = q.s /\ need' = r.need /\ given' = <<>> /\ verdict' = "none"
      /\ loader' = [phase |-> "open", from |-> bytes, got |-> 0, length |-> FALSE]
  BY <1>1, <1>3 DEF Ends, Loader, q
<1>5. loader' \in LoaderStates /\ At' = bytes /\ loader'.got = 0 /\ loader'.phase = "open"
  BY <1>1, <1>4 DEF LoaderStates, At
<1>6. given' \in Seq(Handed) /\ Labelled' /\ NoGap' /\ CompleteIsAll'
  BY <1>4, Silent
<1>7. TypeInv'
  <2>1. q.s \in IOs /\ q.need \in Nat
    BY <1>3 DEF Runs
  <2>2. QED
    BY <1>3, <1>4, <1>5, <1>6, <2>1 DEF TypeInv
<1>8. SizeInv' /\ ModeInv'
  BY <1>3, <1>4, <1>5 DEF SizeInv, ModeInv
<1>10. TightInv'
  BY <1>3, <1>4, <1>5 DEF TightInv
<1>11. ExactInv'
  BY <1>3, <1>4, <1>5 DEF ExactInv
<1>12. QED
  BY <1>6, <1>7, <1>8, <1>10, <1>11 DEF IInv

\* The loading is resumed.
LEMMA ResumeStep ==
  ASSUME IInv, Resume
  PROVE  IInv'
<1> DEFINE s == [io EXCEPT !.paused = FALSE, !.resumeFrom = 0]
           r == [Run(io) EXCEPT !.s.paused = FALSE, !.s.resumeFrom = 0]
<1>1. io.open /\ io.paused /\ lapses' = lapses /\ Ends(InternalSeek(r, io.resumeFrom, TRUE), "none")
  BY DEF Resume
<1>2. /\ io \in IOs /\ need \in Nat /\ Fits(io)
      /\ io.stash = <<>> /\ io.stashByteStart = 0 /\ (io.reconnecting => ~io.live)
  BY <1>1 DEF IInv, TypeInv, SizeInv, ModeInv
<1>3. /\ s \in IOs /\ s.stash = <<>> /\ s.stashByteStart = 0 /\ ~s.paused
      /\ s.reconnecting = io.reconnecting /\ s.live = io.live
      /\ s.stashSize = io.stashSize /\ s.bufferSize = io.bufferSize
      /\ s.stashInitialSize = io.stashInitialSize
  BY <1>2 DEF IOs
<1>4. r = [s |-> s, need |-> need, given |-> <<>>, from |-> -1]
  <2> DEFINE a == [Run(io) EXCEPT !.s.paused = FALSE]
             t == [io EXCEPT !.paused = FALSE]
  <2>1. a = [s |-> t, need |-> need, given |-> <<>>, from |-> -1]
    <3>1. Run(io) = [s |-> io, need |-> need, given |-> <<>>, from |-> -1]
      BY DEF Run
    <3> DEFINE u == Run(io)
    <3>2. a = [u EXCEPT !.s = t] /\ u.s = io
      BY <3>1
    <3>3. u = [s |-> io, need |-> need, given |-> <<>>, from |-> -1]
      BY <3>1
    <3> HIDE DEF u, t, a
    <3>4. QED
      BY <3>2, <3>3
  <2>2. r = [a EXCEPT !.s.resumeFrom = 0] /\ s = [t EXCEPT !.resumeFrom = 0]
    OBVIOUS
  <2> HIDE DEF a, t, r, s
  <2>3. QED
    BY <2>1, <2>2
<1> HIDE DEF s, r
<1>5. r \in Runs
  <2>1. <<>> \in Seq(Handed) /\ -1 \in Places
    BY DEF Places
  <2>2. QED
    BY <1>2, <1>3, <1>4, <2>1 DEF Runs
<1>6. Fits(s)
  BY <1>2, <1>3 DEF Fits
<1>7. io.resumeFrom \in Nat
  BY <1>2 DEF IOs
<1>8. lapses' = {} => need = io.resumeFrom
  BY <1>1 DEF IInv, ExactInv
<1>9. QED
  BY <1>1, <1>2, <1>3, <1>4, <1>5, <1>6, <1>7, <1>8, Reopened

\* The loading goes on at another tag.
LEMMA SeekStep ==
  ASSUME IInv, Seek
  PROVE  IInv'
<1> DEFINE s == [io EXCEPT !.paused = FALSE, !.stash = <<>>, !.stashByteStart = 0]
<1>1. PICK bytes \in TagEnds \ {Total} :
        Ends(InternalSeek([Run(s) EXCEPT !.need = bytes], bytes, TRUE), "none")
  BY DEF Seek
<1> DEFINE r == [Run(s) EXCEPT !.need = bytes]
<1>2. io.open /\ lapses' = {} /\ Ends(InternalSeek(r, bytes, TRUE), "none")
  BY <1>1 DEF Seek
<1>3. /\ io \in IOs /\ Total \in Nat /\ Fits(io) /\ (io.reconnecting => ~io.live)
  BY <1>2, IOAssumption DEF IInv, TypeInv, SizeInv, ModeInv
<1>4. bytes \in Nat
  <2>1. bytes \in 1 .. Total
    BY IOAssumption
  <2>2. QED
    BY <1>3, <2>1
<1>5. /\ s \in IOs /\ s.stash = <<>> /\ s.stashByteStart = 0 /\ ~s.paused
      /\ s.reconnecting = io.reconnecting /\ s.live = io.live
      /\ s.stashSize = io.stashSize /\ s.bufferSize = io.bufferSize
      /\ s.stashInitialSize = io.stashInitialSize
  <2>1. <<>> \in Seq(0 .. Total) /\ 0 \in Nat
    OBVIOUS
  <2>2. QED
    BY <1>3, <2>1 DEF IOs
<1>6. r = [s |-> s, need |-> bytes, given |-> <<>>, from |-> -1]
  <2> HIDE DEF s
  <2>1. QED
    BY DEF Run
<1> HIDE DEF s, r
<1>7. r \in Runs
  <2>1. <<>> \in Seq(Handed) /\ -1 \in Places
    BY DEF Places
  <2>2. QED
    BY <1>4, <1>5, <1>6, <2>1 DEF Runs
<1>8. Fits(s)
  <2>1. io.bufferSize \in Nat
    BY <1>3 DEF IOs
  <2>2. Len(s.stash) <= s.bufferSize
    BY <1>5, <2>1
  <2>3. QED
    BY <1>3, <1>5, <2>2 DEF Fits
<1>9. QED
  BY <1>2, <1>3, <1>4, <1>5, <1>6, <1>7, <1>8, Reopened

\* The controller is destroyed.
LEMMA DestroyStep ==
  ASSUME IInv, Destroy
  PROVE  IInv'
<1>1. /\ io' = [io EXCEPT !.open = FALSE, !.stash = <<>>, !.stashSize = 0, !.bufferSize = 0,
                          !.stashByteStart = 0, !.reconnecting = FALSE]
      /\ loader' = [loader EXCEPT !.phase = "destroyed"]
      /\ given' = <<>> /\ verdict' = "none" /\ need' = need /\ lapses' = lapses
  BY DEF Destroy
<1>2. io \in IOs /\ loader \in LoaderStates /\ At \in Nat /\ need \in Nat
  BY DEF IInv, TypeInv
<1>3. /\ io' \in IOs /\ ~io'.open /\ io'.stash = <<>> /\ io'.stashByteStart = 0 /\ ~io'.reconnecting
  <2>1. <<>> \in Seq(0 .. Total) /\ 0 \in Nat
    OBVIOUS
  <2>2. QED
    BY <1>1, <1>2, <2>1 DEF IOs
<1>4. loader' \in LoaderStates /\ At' = At /\ loader'.phase = "destroyed"
  BY <1>1, <1>2 DEF LoaderStates, At
<1>5. given' \in Seq(Handed) /\ Labelled' /\ NoGap' /\ CompleteIsAll'
  BY <1>1, Silent
<1>6. ~Current'
  BY <1>3 DEF Current, Talking
<1>7. TypeInv'
  BY <1>1, <1>2, <1>3, <1>4, <1>5 DEF TypeInv
<1>8. SizeInv' /\ ModeInv' /\ TightInv' /\ ExactInv'
  BY <1>3, <1>4, <1>6 DEF SizeInv, ModeInv, TightInv, ExactInv
<1>9. QED
  BY <1>5, <1>7, <1>8 DEF IInv

\* What a flush before a new request leaves, and the request.
Flushed(r, drop) == r = Flush(Run(io), drop)
Again(r, next, drop) ==
  /\ Ends(InternalSeek([r EXCEPT !.s.reconnecting = TRUE], next, drop), "none")
  /\ lapses' = IF r.s.to = -1 /\ loader.from # 0 THEN lapses \cup {"nothing yet"} ELSE lapses

\* A request that ended too early is made again, silently.
LEMMA ReconnectStep ==
  ASSUME IInv, io.open, Talking \/ loader.phase = "aborted", ~io.reconnecting, ~io.live,
         NEW drop \in BOOLEAN, ~drop, NEW r, Flushed(r, drop), Again(r, r.s.to + 1, drop)
  PROVE  IInv'
<1> DEFINE next == r.s.to + 1
           a == [r EXCEPT !.s.reconnecting = TRUE]
           f == Flush(a, drop)
           q == InternalSeek(a, next, drop)
<1>1. /\ Ends(q, "none")
      /\ lapses' = IF r.s.to = -1 /\ loader.from # 0 THEN lapses \cup {"nothing yet"} ELSE lapses
  BY DEF Again
<1>2. /\ r \in Runs /\ Fits(r.s) /\ Alike(r.s, io)
      /\ io.paused => r = Run(io)
      /\ Unbroken =>
           /\ Truthful(r.given)
           /\ Current =>
                /\ Held(r.s, At)
                /\ r.s.stash = <<>> /\ io.enableStash => r.s.stashByteStart = 0
                /\ r.s.to = At - 1 \/ (r.s.stash = <<>> /\ r.s.to = -1 /\ loader.got = 0)
      /\ lapses = {} => /\ Timely(r.given)
                        /\ Current => Due(r.s, r.need, At)
  BY FlushIo DEF Flushed
<1>3. /\ io \in IOs /\ loader \in LoaderStates /\ At \in Nat
      /\ loader.from \in Nat /\ loader.got \in Nat
  <2>1. io \in IOs /\ loader \in LoaderStates /\ At \in Nat
    BY DEF IInv, TypeInv
  <2>2. QED
    BY <2>1 DEF LoaderStates
<1>4. r.s \in IOs /\ r.s.to \in Places /\ r.need \in Nat
  <2>1. r.s \in IOs /\ r.need \in Nat
    BY <1>2 DEF Runs
  <2>2. QED
    BY <2>1 DEF IOs
<1> HIDE DEF a
<1>5. next \in Nat /\ r.s.to = next - 1
  BY <1>4 DEF Places
<1>6. /\ a \in Runs /\ a.s \in IOs /\ a.need = r.need /\ a.given = r.given /\ a.from = r.from
      /\ a.s.stash = r.s.stash /\ a.s.stashByteStart = r.s.stashByteStart /\ a.s.to = r.s.to
      /\ a.s.live = r.s.live /\ a.s.enableStash = r.s.enableStash /\ a.s.reconnecting
      /\ a.s.paused = r.s.paused /\ a.s.resumeFrom = r.s.resumeFrom /\ a.s.open = r.s.open
      /\ a.s.stashSize = r.s.stashSize /\ a.s.bufferSize = r.s.bufferSize
      /\ a.s.stashInitialSize = r.s.stashInitialSize
  <2> DEFINE t == [r.s EXCEPT !.reconnecting = TRUE]
  <2>1. a = [s |-> t, need |-> r.need, given |-> r.given, from |-> r.from]
    <3>1. a = [r EXCEPT !.s = t]
      BY DEF a
    <3>2. r = [s |-> r.s, need |-> r.need, given |-> r.given, from |-> r.from]
      BY <1>2 DEF Runs
    <3> HIDE DEF t
    <3>3. QED
      BY <3>1, <3>2
  <2>2. /\ t \in IOs /\ t.stash = r.s.stash /\ t.stashByteStart = r.s.stashByteStart /\ t.to = r.s.to
        /\ t.live = r.s.live /\ t.enableStash = r.s.enableStash /\ t.reconnecting
        /\ t.paused = r.s.paused /\ t.resumeFrom = r.s.resumeFrom /\ t.open = r.s.open
        /\ t.stashSize = r.s.stashSize /\ t.bufferSize = r.s.bufferSize
        /\ t.stashInitialSize = r.s.stashInitialSize
    BY <1>4 DEF IOs
  <2> HIDE DEF t
  <2>3. a \in Runs
    BY <1>2, <2>1, <2>2 DEF Runs
  <2>4. QED
    BY <2>1, <2>2, <2>3
<1>7. Fits(a.s)
  BY <1>2, <1>6 DEF Fits
<1>8. /\ a.s.live = io.live /\ a.s.enableStash = io.enableStash /\ a.s.paused = io.paused
      /\ a.s.resumeFrom = io.resumeFrom /\ a.s.open = io.open
  BY <1>2, <1>6 DEF Alike
<1>9. io.paused \/ Current
  BY DEF IInv, ModeInv, Current
<1>10. a.s.stash = <<>> => f = a
  BY DEF Flush
<1>11. Current =>
         /\ Sound(f) /\ Alike(f.s, a.s)
         /\ a.s.stash # <<>> =>
              /\ f.s.stash = <<>> => f.s.stashByteStart = 0
              /\ InLine(a, next) => Truthful(f.given) /\ Held(f.s, next)
              /\ InLine(a, next) /\ OnTime(a) => Timely(f.given) /\ Due(f.s, f.need, next)
  <2>1. SUFFICES ASSUME Current PROVE Sound(a)
    BY <1>5, FlushRun
  <2>2. QED
    BY <1>6, <1>7 DEF Sound
<1>12. ~Current => f = a
  <2>1. SUFFICES ASSUME ~Current PROVE a.s.stash = <<>>
    BY <1>10
  <2>2. r = Run(io) /\ io.stash = <<>>
    BY <1>2, <1>9, <2>1 DEF IInv, ModeInv
  <2>3. QED
    BY <1>6, <2>2, RunFields
<1>13. f \in Runs /\ Fits(f.s) /\ Alike(f.s, a.s)
  BY <1>6, <1>7, <1>11, <1>12 DEF Sound, Alike
<1>14. /\ q \in Runs /\ Fits(q.s) /\ q.from = next /\ q.need = f.need /\ q.given = f.given
       /\ q.s.stash = f.s.stash /\ q.s.stashByteStart = f.s.stashByteStart /\ q.s.to = -1
       /\ q.s.live = f.s.live /\ q.s.enableStash = f.s.enableStash
       /\ q.s.reconnecting = f.s.reconnecting /\ q.s.paused = f.s.paused
       /\ q.s.resumeFrom = f.s.resumeFrom /\ q.s.open = f.s.open
  <2>1. a.s.stashInitialSize = f.s.stashInitialSize
    BY <1>13 DEF Alike
  <2>2. QED
    BY <1>5, <1>13, <2>1, SeekRun, ZenonT(60)
<1> HIDE DEF f, q
<1>15. /\ io' = q.s /\ need' = f.need /\ given' = f.given /\ verdict' = "none"
       /\ loader' = [phase |-> "open", from |-> next, got |-> 0, length |-> FALSE]
  <2>1. next # -1
    BY <1>5
  <2>2. QED
    BY <1>1, <1>14, <2>1 DEF Ends, Loader
<1>16. /\ io'.stash = f.s.stash /\ io'.stashByteStart = f.s.stashByteStart /\ io'.to = -1
       /\ io'.live = io.live /\ io'.enableStash = io.enableStash /\ io'.reconnecting
       /\ io'.paused = io.paused /\ io'.resumeFrom = io.resumeFrom /\ io'.open
  BY <1>6, <1>8, <1>13, <1>14, <1>15 DEF Alike
<1> HIDE DEF next
<1>17. loader' \in LoaderStates /\ At' = next /\ loader'.got = 0 /\ loader'.phase = "open"
  <2>1. /\ loader'.phase = "open" /\ loader'.from = next /\ loader'.got = 0
        /\ loader'.length = FALSE
    BY <1>15
  <2>2. loader' \in LoaderStates
    BY <1>3, <1>5, <1>15 DEF LoaderStates
  <2>3. QED
    BY <1>5, <2>1, <2>2 DEF At
<1>18. Current' <=> ~io.paused
  BY <1>16, <1>17 DEF Current, Talking
<1>19. ASSUME Unbroken'
       PROVE  /\ Truthful(f.given)
              /\ ~io.paused => /\ Held(f.s, next)
                               /\ f.s.stash = <<>> /\ io.enableStash => f.s.stashByteStart = 0
  <2>1. Unbroken
    BY <1>1, <1>19 DEF Unbroken
  <2>2. CASE io.paused
    BY <1>2, <1>6, <1>12, <2>1, <2>2 DEF Current
  <2>3. CASE ~io.paused /\ a.s.stash = <<>>
    BY <1>2, <1>6, <1>9, <1>10, <2>1, <2>3 DEF Held
  <2>4. CASE ~io.paused /\ a.s.stash # <<>>
    <3>1. Current /\ Tight(r.s.stash, r.s.stashByteStart, At) /\ r.s.to = At - 1 /\ Truthful(r.given)
      BY <1>2, <1>6, <1>9, <2>1, <2>4 DEF Held
    <3>2. At = next
      BY <1>3, <1>5, <3>1
    <3>3. InLine(a, next)
      BY <1>6, <3>1, <3>2 DEF InLine
    <3>4. QED
      BY <1>11, <2>4, <3>1, <3>3
  <2>5. QED
    BY <2>2, <2>3, <2>4
<1>20. ASSUME lapses' = {}
       PROVE  /\ Timely(f.given)
              /\ io.paused => f.need = need
              /\ ~io.paused => Due(f.s, f.need, next)
  <2>1. lapses = {} /\ Unbroken /\ ~(r.s.to = -1 /\ loader.from # 0)
    BY <1>1, <1>20 DEF Unbroken
  <2>2. CASE io.paused
    <3>1. f = a /\ r = Run(io)
      BY <1>2, <1>12, <2>2 DEF Current
    <3>2. f.need = need
      BY <1>6, <3>1, RunFields
    <3>3. QED
      BY <1>2, <1>6, <2>1, <2>2, <3>1, <3>2
  <2>3. CASE ~io.paused /\ a.s.stash = <<>>
    <3>1. f = a /\ Current /\ Timely(r.given) /\ Due(r.s, r.need, At)
      BY <1>2, <1>9, <1>10, <2>1, <2>3
    <3>2. r.need = At
      BY <1>6, <2>3, <3>1 DEF Due
    <3>3. r.s.to = At - 1 \/ (r.s.to = -1 /\ loader.got = 0)
      BY <1>2, <2>1, <3>1
    <3>4. At = next
      <4>1. CASE r.s.to = At - 1
        BY <1>3, <1>5, <4>1
      <4>2. CASE r.s.to = -1 /\ loader.got = 0
        <5>1. At = 0
          BY <1>3, <2>1, <4>2 DEF At
        <5>2. QED
          BY <1>5, <4>2, <5>1
      <4>3. QED
        BY <3>3, <4>1, <4>2
    <3>5. QED
      BY <1>6, <2>3, <3>1, <3>2, <3>4 DEF Due
  <2>4. CASE ~io.paused /\ a.s.stash # <<>>
    <3>1. /\ Current /\ Tight(r.s.stash, r.s.stashByteStart, At) /\ r.s.to = At - 1
          /\ Truthful(r.given) /\ Timely(r.given) /\ Due(r.s, r.need, At)
      BY <1>2, <1>6, <1>9, <2>1, <2>4 DEF Held
    <3>2. At = next
      BY <1>3, <1>5, <3>1
    <3>3. InLine(a, next) /\ OnTime(a)
      BY <1>6, <2>4, <3>1, <3>2 DEF InLine, OnTime, Due
    <3>4. QED
      BY <1>11, <2>4, <3>1, <3>3
  <2>5. QED
    BY <2>2, <2>3, <2>4
<1>21. given' \in Seq(Handed) /\ Labelled' /\ NoGap'
  BY <1>13, <1>15, <1>19, <1>20, Spoken
<1>22. TypeInv'
  <2>1. q.s \in IOs /\ f.need \in Nat
    BY <1>13, <1>14 DEF Runs
  <2>2. QED
    BY <1>5, <1>15, <1>17, <1>21, <2>1 DEF TypeInv
<1>23. SizeInv' /\ CompleteIsAll'
  BY <1>14, <1>15 DEF SizeInv, CompleteIsAll
<1>24. ModeInv'
  <2>1. io.paused => f.s.stash = <<>> /\ f.s.stashByteStart = 0
    <3>1. SUFFICES ASSUME io.paused PROVE f.s.stash = <<>> /\ f.s.stashByteStart = 0
      OBVIOUS
    <3>2. f = a /\ r = Run(io)
      BY <1>2, <1>12, <3>1 DEF Current
    <3>3. a.s.stash = io.stash /\ a.s.stashByteStart = io.stashByteStart
      BY <1>6, <3>2, RunFields
    <3>4. QED
      BY <3>1, <3>2, <3>3 DEF IInv, ModeInv
  <2>2. QED
    BY <1>16, <1>17, <2>1 DEF ModeInv
<1>26. TightInv'
  BY <1>16, <1>17, <1>18, <1>19 DEF TightInv, Held
<1>27. ExactInv'
  <2>1. SUFFICES ASSUME lapses' = {}
                 PROVE  /\ ~io.paused => need' = IF io'.stash # <<>> THEN io'.stashByteStart ELSE At'
                        /\ io.paused => io'.resumeFrom = need'
    BY <1>16, <1>18 DEF ExactInv
  <2>2. ~io.paused => need' = IF io'.stash # <<>> THEN io'.stashByteStart ELSE At'
    BY <1>15, <1>16, <1>17, <1>20, <2>1 DEF Due
  <2>3. io.paused => io'.resumeFrom = need'
    <3>1. lapses = {}
      BY <1>1, <2>1
    <3>2. QED
      BY <1>15, <1>16, <1>20, <2>1, <3>1 DEF IInv, ExactInv
  <2>4. QED
    BY <2>2, <2>3
<1>28. QED
  BY <1>21, <1>22, <1>23, <1>24, <1>26, <1>27 DEF IInv

\* How a request that is not made again ends: in silence, or with a report.
Failed(r) ==
  /\ loader' = [loader EXCEPT !.phase = "failed"]
  /\ need' = r.need /\ given' = r.given
  /\ \/ io' = r.s /\ verdict' = "none" /\ lapses' = lapses \cup {"silence"} /\ ~io.live
     \/ io' = [r.s EXCEPT !.reconnecting = FALSE] /\ verdict' = "error" /\ lapses' = lapses

\* A request that ended too early is not made again.
LEMMA FailedStep ==
  ASSUME IInv, io.open, Talking \/ loader.phase = "aborted",
         NEW drop \in BOOLEAN, ~drop, NEW r, Flushed(r, drop), Failed(r)
  PROVE  IInv'
<1>1. /\ r \in Runs /\ Fits(r.s) /\ Alike(r.s, io)
      /\ io.paused => r = Run(io)
      /\ Unbroken =>
           /\ Truthful(r.given)
           /\ Current =>
                /\ Held(r.s, At)
                /\ r.s.stash = <<>> /\ io.enableStash => r.s.stashByteStart = 0
                /\ r.s.to = At - 1 \/ (r.s.stash = <<>> /\ r.s.to = -1 /\ loader.got = 0)
      /\ lapses = {} => /\ Timely(r.given)
                        /\ Current => Due(r.s, r.need, At)
  BY FlushIo DEF Flushed
<1>2. /\ io \in IOs /\ loader \in LoaderStates /\ At \in Nat /\ Total \in Nat
  BY IOAssumption DEF IInv, TypeInv
<1>3. r.s \in IOs /\ r.need \in Nat /\ r.given \in Seq(Handed)
  BY <1>1 DEF Runs
<1>4. /\ loader' \in LoaderStates /\ At' = At /\ loader'.phase = "failed" /\ loader'.got = loader.got
  BY <1>2 DEF Failed, LoaderStates, At
<1>5. /\ io' \in IOs /\ io'.stash = r.s.stash /\ io'.stashByteStart = r.s.stashByteStart
      /\ io'.to = r.s.to /\ io'.live = r.s.live /\ io'.enableStash = r.s.enableStash
      /\ io'.paused = r.s.paused /\ io'.resumeFrom = r.s.resumeFrom /\ io'.open = r.s.open
      /\ io'.stashSize = r.s.stashSize /\ io'.bufferSize = r.s.bufferSize
      /\ io'.stashInitialSize = r.s.stashInitialSize
      /\ io'.reconnecting => r.s.reconnecting
  <2>1. CASE io' = r.s
    BY <1>3, <2>1
  <2>2. CASE io' = [r.s EXCEPT !.reconnecting = FALSE]
    BY <1>3, <2>2 DEF IOs
  <2>3. QED
    BY <2>1, <2>2 DEF Failed
<1>6. /\ io'.live = io.live /\ io'.enableStash = io.enableStash /\ io'.paused = io.paused
      /\ io'.resumeFrom = io.resumeFrom /\ io'.open = io.open /\ r.s.reconnecting = io.reconnecting
  BY <1>1, <1>5 DEF Alike
<1>7. need' = r.need /\ given' = r.given /\ lapses \subseteq lapses' /\ verdict' \in {"none", "error"}
  BY DEF Failed
<1>8. given' \in Seq(Handed) /\ Labelled' /\ NoGap' /\ CompleteIsAll'
  <2>1. (Unbroken' => Unbroken) /\ (lapses' = {} => lapses = {})
    BY <1>7 DEF Unbroken
  <2>2. CompleteIsAll'
    BY <1>7 DEF CompleteIsAll
  <2>3. QED
    BY <1>1, <1>7, <2>1, <2>2, Spoken
<1>9. Current' => Current /\ ~io.reconnecting
  <2>1. SUFFICES ASSUME Current' PROVE Current /\ io.live
    BY DEF IInv, ModeInv
  <2>2. io.live /\ ~io.paused
    BY <1>4, <1>6, <2>1 DEF Current, Talking
  <2>3. QED
    BY <2>2 DEF Current, IInv, ModeInv
<1>10. TypeInv' /\ SizeInv'
  <2>1. TypeInv'
    BY <1>2, <1>3, <1>4, <1>5, <1>7, <1>8 DEF TypeInv
  <2>2. Fits(io')
    BY <1>1, <1>5 DEF Fits
  <2>3. QED
    BY <2>1, <2>2 DEF SizeInv
<1>11. ModeInv'
  <2>1. io.paused => r.s.stash = <<>> /\ r.s.stashByteStart = 0
    BY <1>1, RunFields DEF IInv, ModeInv
  <2>2. QED
    BY <1>4, <1>5, <1>6, <2>1 DEF IInv, ModeInv
<1>13. TightInv'
  <2>1. SUFFICES ASSUME Unbroken, Current
                 PROVE  /\ io'.stash # <<>> => Tight(io'.stash, io'.stashByteStart, At')
                        /\ io'.stash = <<>> /\ io'.enableStash => io'.stashByteStart = 0
                        /\ io'.stash = <<>> =>
                             io'.to = At' - 1 \/ (io'.to = -1 /\ loader'.got = 0)
    BY <1>7, <1>9 DEF TightInv, Unbroken
  <2>2. QED
    BY <1>1, <1>4, <1>5, <1>6, <2>1 DEF Held
<1>14. ExactInv'
  <2>1. SUFFICES ASSUME lapses = {}
                 PROVE  /\ Current => need' = IF io'.stash # <<>> THEN io'.stashByteStart ELSE At'
                        /\ io.paused => io'.resumeFrom = need'
    BY <1>6, <1>7, <1>9 DEF ExactInv
  <2>2. Current => need' = IF io'.stash # <<>> THEN io'.stashByteStart ELSE At'
    BY <1>1, <1>4, <1>5, <1>7, <2>1 DEF Due
  <2>3. io.paused => io'.resumeFrom = need'
    BY <1>1, <1>6, <1>7, <2>1, RunFields DEF IInv, ExactInv
  <2>4. QED
    BY <2>2, <2>3
<1>15. QED
  BY <1>8, <1>10, <1>11, <1>13, <1>14 DEF IInv

\* The loader reports an error.
LEMMA ErrorStep ==
  ASSUME IInv, OnLoaderError
  PROVE  IInv'
<1>1. PICK drop \in BOOLEAN : drop = FALSE
  OBVIOUS
<1>2. PICK r : r = Flush(Run(io), drop)
  OBVIOUS
<1>3. io.open /\ (Talking \/ loader.phase = "aborted")
  BY DEF OnLoaderError
<1>4. \/ ~io.reconnecting /\ ~io.live /\ Again(r, r.s.to + 1, drop)
      \/ Failed(r)
  BY <1>1, <1>2 DEF OnLoaderError, Again, Failed
<1>5. Flushed(r, drop)
  BY <1>2 DEF Flushed
<1>6. CASE ~io.reconnecting /\ ~io.live /\ Again(r, r.s.to + 1, drop)
  BY <1>1, <1>3, <1>5, <1>6, ReconnectStep
<1>7. CASE Failed(r)
  BY <1>1, <1>3, <1>5, <1>7, FailedStep
<1>8. QED
  BY <1>4, <1>6, <1>7

\* Every step keeps the invariant.
LEMMA NextInv ==
  ASSUME IInv, [Next]_vars
  PROVE  IInv'
<1>1. CASE OnLoaderError
  BY <1>1, ErrorStep
<1>2. CASE UNCHANGED vars
  BY <1>2, ZenonT(60) DEF vars, IInv, TypeInv, SizeInv, ModeInv, TightInv, ExactInv, Unbroken,
              Labelled, LabelsTrue, NoGap, CompleteIsAll, At, Current, Talking
<1>3. QED
  BY <1>1, <1>2, ContentLengthStep, ChunkStep, CompleteStep, PauseStep, ResumeStep, SeekStep,
     DestroyStep DEF Next, Answer

LEMMA Inductive == Spec => []IInv
<1>1. Init => IInv
  BY InitInv
<1>2. IInv /\ [Next]_vars => IInv'
  BY NextInv
<1>3. QED
  BY <1>1, <1>2, PTL DEF Spec

-----------------------------------------------------------------------------
(* The theorems. *)

\* What is written into the stash always fits the buffer behind it, whatever size
\* is configured for it and however the speed, the chunks and the rest that stays
\* change both sizes; a stash larger than its buffer is one of the configured size.
\* The stash holds bytes of the file, and every counter is a number.
THEOREM ControllerTypeCorrect == Spec => []TypeOK
<1>1. IInv => TypeOK
  <2> SUFFICES ASSUME IInv PROVE TypeOK
    OBVIOUS
  <2>1. FitsBuffer
    BY DEF IInv, SizeInv, Fits, FitsBuffer
  <2>2. io \in IOs /\ loader \in LoaderStates /\ need \in Nat
        /\ verdict \in {"none", "complete", "error"}
    BY DEF IInv, TypeInv
  <2>3. /\ io.stash \in Seq(0 .. Total) /\ io.stashByteStart \in Nat
        /\ io.resumeFrom \in Nat /\ io.to + 1 \in Nat
    <3>1. io.to \in Places
      BY <2>2 DEF IOs
    <3>2. io.to + 1 \in Nat
      BY <3>1 DEF Places
    <3>3. QED
      BY <2>2, <3>2 DEF IOs
  <2>4. loader.from \in Nat /\ loader.got \in Nat
    BY <2>2 DEF LoaderStates
  <2>5. QED
    BY <2>1, <2>2, <2>3, <2>4 DEF TypeOK
<1>2. QED
  BY <1>1, Inductive, PTL

\* Whatever is stashed, merged, flushed and dispatched again, a piece reaches
\* onDataArrival with the position of its first byte, unless a chunk larger than
\* an empty stash was taken whole before, or a chunk was lost.
THEOREM LabelsKept == Spec => []Labelled
<1>1. IInv => Labelled
  BY DEF IInv
<1>2. QED
  BY <1>1, Inductive, PTL

\* Across pauses, resumptions, seeks and silent reconnections, the demuxer is
\* given the first byte it has not taken, as long as no position was lost.
THEOREM NothingSkipped == Spec => []NoGap
<1>1. IInv => NoGap
  BY DEF IInv
<1>2. QED
  BY <1>1, Inductive, PTL

\* Completion of an answer of known length is reported when the demuxer has
\* taken the whole file, as long as no position was lost.
THEOREM CompletionTakesAll == Spec => []CompleteIsAll
<1>1. IInv => CompleteIsAll
  BY DEF IInv
<1>2. QED
  BY <1>1, Inductive, PTL
=============================================================================
