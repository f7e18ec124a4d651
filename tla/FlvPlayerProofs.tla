--------------------------- MODULE FlvPlayerProofs ---------------------------
(***************************************************************************)
(* What TransmuxingController guarantees for any number of parts, length   *)
(* of a part, keyframes and media sources, and what FlvPlayer on top of it *)
(* guarantees for any source, any settings and any bounds on the calls of  *)
(* the page and on the messages that wait.                                 *)
(***************************************************************************)
EXTENDS FlvPlayer, Integers, SequenceTheorems, NaturalsInduction,
        WellFoundedInduction, TLAPS

(***************************************************************************)
(* TransmuxingController.                                                  *)
(***************************************************************************)

IOs == [there: BOOLEAN, part: 1 .. Parts,
        state: {"none", "working", "paused", "done", "failed"},
        init: BOOLEAN, at: 0 .. Len(Keyframes) + 1]

Controllers ==
  [index: 1 .. Parts, infos: SUBSET (1 .. Parts), demuxer: 0 .. Parts,
   pendingSeek: Ticks \cup {None}, resolve: Ticks \cup {None}, reporter: BOOLEAN,
   io: IOs, life: {"new", "started", "stopped", "destroyed"}]

TypeInv ==
  /\ ctl \in Controllers /\ media \in Sources
  /\ expect \in Nat /\ lapses \subseteq {"forgotten", "paused"}

-----------------------------------------------------------------------------
(* Data. *)

\* A nonempty set of naturals has a least element.
LEMMA LeastNat ==
  ASSUME NEW S, S \subseteq Nat, S # {}
  PROVE  \E x \in S : \A y \in S : x <= y
<1>1. PICK x \in S : \A y \in S : ~(<<y, x>> \in OpToRel(<, Nat))
  BY NatLessThanWellFounded, WFMin
<1>2. \A y \in S : ~(y < x)
  BY <1>1 DEF OpToRel
<1>3. QED
  BY <1>2

\* Min of a nonempty set of naturals is its least element.
LEMMA MinNat ==
  ASSUME NEW S, S \subseteq Nat, S # {}
  PROVE  Min(S) \in S /\ \A y \in S : Min(S) <= y
<1>1. PICK x \in S : \A y \in S : x <= y
  BY LeastNat
<1>2. QED
  BY <1>1 DEF Min

\* Max of a set of naturals that has a greatest element is that element.
LEMMA MaxNat ==
  ASSUME NEW S, S \subseteq Nat, NEW x \in S, \A y \in S : y <= x
  PROVE  Max(S) = x
<1>1. \A y \in S : x >= y
  OBVIOUS
<1>2. Max(S) \in S /\ \A y \in S : Max(S) >= y
  BY <1>1 DEF Max
<1>3. Max(S) \in Nat /\ Max(S) <= x /\ Max(S) >= x
  BY <1>2
<1>4. QED
  BY <1>3

\* The places of a window of the search, and one round of it with f for the
\* rounds that follow.
Windows(list) == (1 .. Len(list)) \X (0 .. Len(list))
Halve(list, value, f, w) ==
  LET mid == w[1] + (w[2] - w[1]) \div 2
  IN  IF w[1] > w[2] THEN 1
      ELSE IF mid = Len(list) \/ (value >= list[mid] /\ value < list[mid + 1]) THEN mid
      ELSE IF list[mid] < value THEN f[<<mid + 1, w[2]>>]
      ELSE f[<<w[1], mid - 1>>]

Width(w) == w[2] - w[1] + 1

\* The middle of a window lies in it.
LEMMA Middle ==
  ASSUME NEW a \in Nat, NEW b \in Nat, a <= b
  PROVE  LET m == a + (b - a) \div 2 IN m \in Nat /\ a <= m /\ m <= b /\ (m = b => a = b)
OBVIOUS

\* The windows a round goes on with are narrower.
LEMMA Narrower ==
  ASSUME NEW list \in Seq(Nat), NEW w \in Windows(list), w[1] <= w[2]
  PROVE  LET mid == w[1] + (w[2] - w[1]) \div 2
         IN  /\ mid \in 1 .. Len(list) /\ w[1] <= mid /\ mid <= w[2]
             /\ mid = w[2] => w[1] = w[2]
             /\ mid # Len(list) => /\ <<mid + 1, w[2]>> \in Windows(list)
                                  /\ Width(<<mid + 1, w[2]>>) < Width(w)
             /\ <<w[1], mid - 1>> \in Windows(list) /\ Width(<<w[1], mid - 1>>) < Width(w)
<1> DEFINE mid == w[1] + (w[2] - w[1]) \div 2
<1>1. w[1] \in 1 .. Len(list) /\ w[2] \in 0 .. Len(list) /\ Len(list) \in Nat
  BY DEF Windows
<1>2. mid \in Nat /\ w[1] <= mid /\ mid <= w[2] /\ (mid = w[2] => w[1] = w[2])
  <2>1. w[1] \in Nat /\ w[2] \in Nat /\ w[1] <= w[2]
    BY <1>1
  <2>2. QED
    BY <2>1, Middle, Zenon DEF mid
<1> HIDE DEF mid
<1>3. ASSUME mid # Len(list) PROVE mid + 1 \in 1 .. Len(list)
  BY <1>1, <1>2, <1>3
<1>4. mid \in 1 .. Len(list) /\ mid - 1 \in 0 .. Len(list)
  BY <1>1, <1>2
<1>5. w[2] - (mid + 1) + 1 < w[2] - w[1] + 1 /\ (mid - 1) - w[1] + 1 < w[2] - w[1] + 1
  BY <1>1, <1>2, SMTT(30)
<1>6. QED
  BY <1>1, <1>2, <1>3, <1>4, <1>5 DEF mid, Windows, Width

\* A round ends at a place of the list or goes on with a narrower window.
LEMMA HalveRange ==
  ASSUME NEW list \in Seq(Nat), list # <<>>, NEW value \in Nat, NEW w \in Windows(list), NEW f
  PROVE  \/ Halve(list, value, f, w) \in 1 .. Len(list)
         \/ \E v \in Windows(list) :
              Width(v) < Width(w) /\ Halve(list, value, f, w) = f[v]
<1>1. w[1] \in 1 .. Len(list) /\ w[2] \in 0 .. Len(list) /\ Len(list) \in Nat \ {0}
  BY DEF Windows
<1>2. CASE w[1] > w[2]
  BY <1>1, <1>2 DEF Halve
<1>3. CASE ~(w[1] > w[2])
  <2>1. w[1] <= w[2]
    BY <1>1, <1>3
  <2>2. QED
    BY <1>3, <2>1, Narrower DEF Halve
<1>4. QED
  BY <1>2, <1>3

\* It asks what follows for narrower windows only.
LEMMA HalveLocal ==
  ASSUME NEW list \in Seq(Nat), NEW value \in Nat, NEW w \in Windows(list), NEW f, NEW g,
         \A v \in Windows(list) : Width(v) < Width(w) => f[v] = g[v]
  PROVE  Halve(list, value, f, w) = Halve(list, value, g, w)
<1>1. CASE w[1] > w[2]
  BY <1>1 DEF Halve
<1>2. CASE ~(w[1] > w[2])
  <2>1. w[1] <= w[2]
    BY <1>2 DEF Windows
  <2>2. QED
    BY <1>2, <2>1, Narrower DEF Halve
<1>3. QED
  BY <1>1, <1>2

\* The rounds of the search define a function: there is one for the windows of
\* each width, and it agrees with the next on those.
LEMMA SearchExists ==
  ASSUME NEW list \in Seq(Nat), list # <<>>, NEW value \in Nat
  PROVE  \E f \in [Windows(list) -> 1 .. Len(list)] :
           f = [w \in Windows(list) |-> Halve(list, value, f, w)]
<1> DEFINE Fits(g, n) == \A w \in Windows(list) : Width(w) <= n => g[w] = Halve(list, value, g, w)
           Good(n) == \E g \in [Windows(list) -> 1 .. Len(list)] : Fits(g, n)
<1>0. Len(list) \in Nat \ {0} /\ \A w \in Windows(list) : Width(w) \in Int /\ Width(w) <= Len(list)
  BY DEF Windows, Width
<1>1. Good(0)
  <2> DEFINE g == [w \in Windows(list) |-> 1]
  <2>1. g \in [Windows(list) -> 1 .. Len(list)]
    BY <1>0
  <2>2. ASSUME NEW w \in Windows(list), Width(w) <= 0 PROVE g[w] = Halve(list, value, g, w)
    BY <2>2 DEF Windows, Width, Halve
  <2>3. QED
    BY <2>1, <2>2
<1>2. ASSUME NEW n \in Nat, Good(n) PROVE Good(n + 1)
  <2>1. PICK g \in [Windows(list) -> 1 .. Len(list)] : Fits(g, n)
    BY <1>2
  <2> DEFINE h == [w \in Windows(list) |-> Halve(list, value, g, w)]
  <2>2. h \in [Windows(list) -> 1 .. Len(list)]
    <3>1. ASSUME NEW w \in Windows(list) PROVE Halve(list, value, g, w) \in 1 .. Len(list)
      BY <2>1, HalveRange
    <3>2. QED
      BY <3>1
  <2>3. ASSUME NEW w \in Windows(list), Width(w) <= n + 1 PROVE h[w] = Halve(list, value, h, w)
    <3>1. h[w] = Halve(list, value, g, w)
      OBVIOUS
    <3>2. ASSUME NEW v \in Windows(list), Width(v) < Width(w) PROVE g[v] = h[v]
      <4>1. Width(v) <= n
        BY <1>0, <2>3, <3>2
      <4>2. QED
        BY <2>1, <4>1
    <3> HIDE DEF h
    <3>3. Halve(list, value, g, w) = Halve(list, value, h, w)
      BY <3>2, HalveLocal
    <3>4. QED
      BY <3>1, <3>3
  <2>4. Fits(h, n + 1)
    BY <2>3
  <2>5. QED
    BY <2>2, <2>4
<1>3. \A n \in Nat : Good(n)
  <2> DEFINE S == {n \in Nat : ~Good(n)}
  <2> HIDE DEF Good
  <2>1. SUFFICES ASSUME S # {} PROVE FALSE
    OBVIOUS
  <2>2. PICK n \in S : \A m \in S : n <= m
    BY <2>1, LeastNat
  <2>3. n # 0
    BY <1>1
  <2>4. n - 1 \in Nat /\ Good(n - 1)
    BY <2>2, <2>3
  <2>5. Good((n - 1) + 1)
    BY <1>2, <2>4
  <2>6. QED
    BY <2>5
<1>4. PICK f \in [Windows(list) -> 1 .. Len(list)] : Fits(f, Len(list))
  BY <1>0, <1>3
<1>5. \A w \in Windows(list) : f[w] = Halve(list, value, f, w)
  BY <1>0, <1>4
<1>6. QED
  BY <1>5

\* A function that goes by the rounds of the search leads to a place of the list.
LEMMA SearchRange ==
  ASSUME NEW list \in Seq(Nat), list # <<>>, NEW value \in Nat, NEW f,
         \A w \in Windows(list) : f[w] = Halve(list, value, f, w)
  PROVE  \A w \in Windows(list) : f[w] \in 1 .. Len(list)
<1> DEFINE S == {n \in Nat : \E w \in Windows(list) :
                   n = Width(w) + Len(list) /\ ~(f[w] \in 1 .. Len(list))}
<1>1. \A w \in Windows(list) : Width(w) \in Int /\ Width(w) + Len(list) \in Nat
  BY DEF Windows, Width
<1>2. SUFFICES ASSUME S # {} PROVE FALSE
  BY <1>1
<1>3. PICK n \in S : \A m \in S : n <= m
  BY <1>2, LeastNat
<1>4. PICK w \in Windows(list) : n = Width(w) + Len(list) /\ ~(f[w] \in 1 .. Len(list))
  BY <1>3
<1>5. PICK v \in Windows(list) : Width(v) < Width(w) /\ f[w] = f[v]
  BY <1>4, HalveRange
<1>6. Width(v) + Len(list) \in S
  BY <1>1, <1>4, <1>5
<1>7. Width(v) + Len(list) < Width(w) + Len(list)
  BY <1>1, <1>4, <1>5
<1>8. n \in Nat /\ Width(v) + Len(list) \in Nat /\ n <= Width(v) + Len(list)
  BY <1>1, <1>3, <1>6
<1>9. QED
  BY <1>4, <1>7, <1>8

\* So the search of the model goes by these rounds.
LEMMA Rounds ==
  ASSUME NEW list \in Seq(Nat), list # <<>>, NEW value \in Nat
  PROVE  \A w \in Windows(list) :
           /\ Bisection(list, value)[w] = Halve(list, value, Bisection(list, value), w)
           /\ Bisection(list, value)[w] \in 1 .. Len(list)
<1> DEFINE F(f) == f = [w \in Windows(list) |-> Halve(list, value, f, w)]
<1>1. F(Bisection(list, value))
  <2>1. PICK f \in [Windows(list) -> 1 .. Len(list)] : F(f)
    BY SearchExists
  <2>2. QED
    BY <2>1 DEF Bisection, Halve, Windows
<1>2. \A w \in Windows(list) : Bisection(list, value)[w] = Halve(list, value, Bisection(list, value), w)
  BY <1>1
<1>3. \A w \in Windows(list) : Bisection(list, value)[w] \in 1 .. Len(list)
  BY <1>2, SearchRange
<1>4. QED
  BY <1>2, <1>3

\* What a window that holds the place looked for says of its ends.
Holds(list, value, w) ==
  /\ w[1] <= w[2] /\ list[w[1]] <= value
  /\ w[2] = Len(list) \/ value < list[w[2] + 1]

LastUpTo(list, value, i) ==
  list[i] <= value /\ (i = Len(list) \/ value < list[i + 1])

\* From such a window the search leads to the last value of the list not after
\* the one looked for.
LEMMA SearchRight ==
  ASSUME NEW list \in Seq(Nat), list # <<>>, NEW value \in Nat, NEW f,
         \A w \in Windows(list) : f[w] = Halve(list, value, f, w),
         \A i, j \in 1 .. Len(list) : i < j => list[i] < list[j]
  PROVE  \A w \in Windows(list) : Holds(list, value, w) => LastUpTo(list, value, f[w])
<1> DEFINE S == {n \in Nat : \E w \in Windows(list) :
                   /\ n = Width(w) + Len(list)
                   /\ Holds(list, value, w) /\ ~LastUpTo(list, value, f[w])}
<1>1. \A w \in Windows(list) : Width(w) \in Int /\ Width(w) + Len(list) \in Nat
  BY DEF Windows, Width
<1>2. SUFFICES ASSUME S # {} PROVE FALSE
  BY <1>1
<1>3. PICK n \in S : \A m \in S : n <= m
  BY <1>2, LeastNat
<1>4. PICK w \in Windows(list) :
        n = Width(w) + Len(list) /\ Holds(list, value, w) /\ ~LastUpTo(list, value, f[w])
  BY <1>3
<1>5. ASSUME NEW v \in Windows(list), Width(v) < Width(w), Holds(list, value, v), f[w] = f[v]
      PROVE  FALSE
  <2>1. Width(v) + Len(list) \in S
    BY <1>1, <1>4, <1>5
  <2>2. Width(v) + Len(list) < Width(w) + Len(list)
    BY <1>1, <1>4, <1>5
  <2>3. n \in Nat /\ Width(v) + Len(list) \in Nat /\ n <= Width(v) + Len(list)
    BY <1>1, <1>3, <2>1
  <2>4. QED
    BY <1>4, <2>2, <2>3
<1> DEFINE mid == w[1] + (w[2] - w[1]) \div 2
           here == mid = Len(list) \/ (value >= list[mid] /\ value < list[mid + 1])
           after == <<mid + 1, w[2]>>
           before == <<w[1], mid - 1>>
<1>6. /\ w[1] \in 1 .. Len(list) /\ w[2] \in 0 .. Len(list) /\ Len(list) \in Nat
      /\ \A i \in 1 .. Len(list) : list[i] \in Nat
  BY DEF Windows
<1>7. /\ mid \in 1 .. Len(list) /\ w[1] <= mid /\ mid <= w[2] /\ (mid = w[2] => w[1] = w[2])
      /\ mid # Len(list) => after \in Windows(list) /\ Width(after) < Width(w)
      /\ before \in Windows(list) /\ Width(before) < Width(w)
  BY <1>4, Narrower DEF Holds
<1>8. f[w] = IF here THEN mid ELSE IF list[mid] < value THEN f[after] ELSE f[before]
  <2>1. ~(w[1] > w[2])
    BY <1>4, <1>6 DEF Holds
  <2>2. QED
    BY <2>1 DEF Halve
<1> HIDE DEF mid
<1>9. CASE here
  <2>1. LastUpTo(list, value, mid)
    BY <1>4, <1>6, <1>7, <1>9 DEF Holds, LastUpTo
  <2>2. QED
    BY <1>4, <1>8, <1>9, <2>1
<1>a. mid # Len(list) => mid + 1 \in 1 .. Len(list)
  BY <1>6, <1>7, SMTT(30)
<1>b. list[mid] \in Nat /\ (mid # Len(list) => list[mid + 1] \in Nat /\ list[mid] < list[mid + 1])
  BY <1>6, <1>7, <1>a
<1>10. CASE ~here /\ list[mid] < value
  <2>1. mid # Len(list) /\ list[mid + 1] <= value
    BY <1>b, <1>10
  <2>2. mid # w[2]
    BY <1>4, <1>b, <2>1 DEF Holds
  <2>3. mid + 1 <= w[2]
    BY <1>6, <1>7, <2>2, SMTT(30)
  <2>4. Holds(list, value, after)
    BY <1>4, <1>6, <1>7, <2>1, <2>3 DEF Holds
  <2>5. QED
    BY <1>5, <1>7, <1>8, <1>10, <2>1, <2>4
<1>11. CASE ~here /\ ~(list[mid] < value)
  <2>1. mid # Len(list)
    BY <1>11
  <2>2. value < list[mid]
    BY <1>b, <1>11, <2>1
  <2>3. mid # w[1]
    BY <1>4, <1>b, <2>2 DEF Holds
  <2>4. w[1] <= mid - 1 /\ (mid - 1) + 1 = mid
    <3>1. w[1] \in Nat /\ mid \in Nat /\ w[1] <= mid
      BY <1>6, <1>7
    <3>2. QED
      BY <2>3, <3>1
  <2>5. Holds(list, value, before)
    BY <1>4, <1>6, <2>2, <2>4 DEF Holds
  <2>6. QED
    BY <1>5, <1>7, <1>8, <1>11, <2>5
<1>12. QED
  BY <1>9, <1>10, <1>11

\* The search of a keyframe of a part leads to a place of the table, that of the
\* last keyframe not after the tick, or the first.
LEMMA SearchLast ==
  ASSUME NEW list \in Seq(Nat), list # <<>>, NEW value \in Nat,
         \A i, j \in 1 .. Len(list) : i < j => list[i] < list[j]
  PROVE  /\ Search(list, value) \in 1 .. Len(list)
         /\ value < list[1] => Search(list, value) = 1
         /\ ~(value < list[1]) => LastUpTo(list, value, Search(list, value))
<1>1. Len(list) \in Nat \ {0} /\ list[1] \in Nat
  OBVIOUS
<1> DEFINE w == <<1, Len(list)>>
<1>2. w \in Windows(list)
  BY <1>1 DEF Windows
<1>3. CASE value < list[1]
  BY <1>1, <1>3 DEF Search
<1>4. CASE ~(value < list[1])
  <2>1. Holds(list, value, w)
    BY <1>1, <1>4 DEF Holds
  <2>2. Search(list, value) = Bisection(list, value)[w]
    BY <1>4 DEF Search
  <2>3. LastUpTo(list, value, Bisection(list, value)[w])
    <3>1. \A v \in Windows(list) : Bisection(list, value)[v] = Halve(list, value, Bisection(list, value), v)
      BY Rounds
    <3>2. QED
      BY <1>2, <2>1, <3>1, SearchRight
  <2>4. Bisection(list, value)[w] \in 1 .. Len(list)
    BY <1>2, Rounds
  <2>5. QED
    BY <1>4, <2>2, <2>3, <2>4
<1>5. QED
  BY <1>3, <1>4
-----------------------------------------------------------------------------
(* Places. *)

\* The later of two numbers has the greater multiple.
LEMMA Multiples ==
  ASSUME NEW a \in Nat, NEW b \in Nat, NEW c \in Nat, a <= b
  PROVE  a * c \in Nat /\ a * c <= b * c /\ (a + 1) * c = a * c + c
OBVIOUS

\* What the assumption says of the table of keyframes.
LEMMA Table ==
  /\ Len(Keyframes) \in Nat \ {0} /\ DOMAIN Keyframes = 1 .. Len(Keyframes)
  /\ Parts \in Nat \ {0} /\ PartLength \in Nat \ {0}
  /\ \A i \in DOMAIN Keyframes : Keyframes[i] \in 1 .. PartLength
  /\ \A i, j \in DOMAIN Keyframes : i < j => Keyframes[i] < Keyframes[j]
BY TransmuxingAssumption

\* A part lies in the source.
LEMMA PartInSource ==
  ASSUME NEW part \in 1 .. Parts
  PROVE  Base(part) \in Nat /\ Base(part) + PartLength <= Parts * PartLength
<1>1. part - 1 \in Nat /\ part \in Nat /\ (part - 1) + 1 = part /\ part <= Parts
      /\ Parts \in Nat /\ PartLength \in Nat
  BY Table
<1>2. (part - 1) * PartLength \in Nat /\ part * PartLength <= Parts * PartLength
      /\ ((part - 1) + 1) * PartLength = (part - 1) * PartLength + PartLength
  BY <1>1, Multiples
<1>3. QED
  BY <1>1, <1>2 DEF Base

\* A keyframe is a tick of the source.
LEMMA KeyframeIsTick ==
  ASSUME NEW part \in 1 .. Parts, NEW at \in DOMAIN Keyframes
  PROVE  TickOf(part, at) \in Ticks /\ TickOf(part, at) \in Nat \ {0}
<1>1. Parts * PartLength \in Nat /\ Keyframes[at] \in 1 .. PartLength /\ PartLength \in Nat
  BY Table
<1>2. Base(part) \in Nat /\ Base(part) + PartLength <= Parts * PartLength
  BY PartInSource
<1>3. QED
  BY <1>1, <1>2 DEF TickOf, Ticks

\* Ticks are positive.
LEMMA TicksAreNat == Ticks \subseteq Nat \ {0}
BY Table DEF Ticks

\* The part that contains a tick: it starts before it and ends after it.
LEMMA PartOfTick ==
  ASSUME NEW tick \in Ticks
  PROVE  LET part == (tick - 1) \div PartLength + 1
         IN  /\ part \in 1 .. Parts
             /\ \A i \in 1 .. Parts : tick < Base(i) + 1 <=> part < i
<1> DEFINE q == (tick - 1) \div PartLength
<1>1. tick - 1 \in Nat /\ PartLength \in Nat \ {0} /\ Parts \in Nat \ {0} /\ tick \in Nat
  BY Table, TicksAreNat
<1>2. q \in Nat /\ PartLength * q <= tick - 1 /\ tick - 1 < PartLength * q + PartLength
  BY <1>1
<1> HIDE DEF q
<1>3. q * PartLength = PartLength * q /\ q * PartLength \in Nat /\ Parts * PartLength \in Nat
  BY <1>1, <1>2
<1>4. tick <= Parts * PartLength
  BY DEF Ticks
<1>5. q < Parts
  <2>1. CASE Parts <= q
    <3>1. Parts * PartLength <= q * PartLength
      BY <1>1, <1>2, <2>1, Multiples
    <3>2. QED
      BY <1>1, <1>2, <1>3, <1>4, <3>1
  <2>2. QED
    BY <1>1, <1>2, <2>1
<1>6. ASSUME NEW i \in 1 .. Parts PROVE tick < Base(i) + 1 <=> q + 1 < i
  <2>1. i - 1 \in Nat /\ i \in Nat /\ Base(i) = (i - 1) * PartLength /\ (i - 1) * PartLength \in Nat
    BY <1>1, Multiples DEF Base
  <2>2. CASE i - 1 <= q
    <3>1. (i - 1) * PartLength <= q * PartLength
      BY <1>1, <1>2, <2>1, <2>2, Multiples
    <3>2. QED
      BY <1>1, <1>2, <1>3, <2>1, <2>2, <3>1
  <2>3. CASE q + 1 <= i - 1
    <3>1. (q + 1) * PartLength <= (i - 1) * PartLength
      BY <1>1, <1>2, <2>1, <2>3, Multiples
    <3>2. (q + 1) * PartLength = q * PartLength + PartLength
      BY <1>1, <1>2, Multiples
    <3>3. tick - 1 < (i - 1) * PartLength
      BY <1>1, <1>2, <1>3, <2>1, <3>1, <3>2
    <3>4. QED
      BY <1>1, <1>2, <2>1, <2>3, <3>3
  <2>4. QED
    BY <1>2, <2>1, <2>2, <2>3
<1>7. q + 1 \in 1 .. Parts
  BY <1>1, <1>2, <1>5
<1>8. QED
  BY <1>6, <1>7 DEF q

\* The search for the part that starts last not after a tick finds it.
LEMMA SegmentFound ==
  ASSUME NEW tick \in Ticks
  PROVE  /\ SearchSegment(tick) = (tick - 1) \div PartLength + 1
         /\ SearchSegment(tick) \in 1 .. Parts
<1> DEFINE part == (tick - 1) \div PartLength + 1
           later == {i \in 1 .. Parts : tick < Base(i) + 1}
<1>1. part \in 1 .. Parts /\ Parts \in Nat /\ \A i \in 1 .. Parts : i \in later <=> part < i
  BY PartOfTick, Table
<1> HIDE DEF part
<1>2. CASE later = {}
  <2>1. ~(part < Parts)
    BY <1>1, <1>2
  <2>2. part = Parts
    BY <1>1, <2>1
  <2>3. QED
    BY <1>1, <1>2, <2>2 DEF SearchSegment, part
<1>3. CASE later # {}
  <2>1. Min(later) \in later /\ \A y \in later : Min(later) <= y
    <3>1. later \subseteq Nat
      BY <1>1
    <3>2. QED
      BY <1>3, <3>1, MinNat
  <2>2. part + 1 \in 1 .. Parts /\ part < Min(later) /\ Min(later) \in 1 .. Parts
    BY <1>1, <2>1
  <2>3. part + 1 \in later
    BY <1>1, <2>2
  <2>4. Min(later) = part + 1
    BY <1>1, <2>1, <2>2, <2>3
  <2>5. SearchSegment(tick) = Min(later) - 1
    BY <1>3 DEF SearchSegment
  <2>6. QED
    BY <1>1, <2>4, <2>5 DEF part
<1>4. QED
  BY <1>2, <1>3

\* The search for a keyframe finds a keyframe, and the one a seek ought to lead
\* to.
LEMMA KeyframeFound ==
  ASSUME NEW part \in 1 .. Parts, NEW tick \in Ticks
  PROVE  /\ NearestKeyframe(part, tick) \in DOMAIN Keyframes
         /\ NearestKeyframe(part, tick) = Max({n \in DOMAIN Keyframes : TickOf(part, n) <= tick} \cup {1})
<1> DEFINE list == [i \in DOMAIN Keyframes |-> Base(part) + Keyframes[i]]
           upTo == {n \in DOMAIN Keyframes : TickOf(part, n) <= tick}
           at == NearestKeyframe(part, tick)
<1>1. tick \in Nat /\ Base(part) \in Nat
  BY TicksAreNat, PartInSource
<1>2. list \in Seq(Nat) /\ Len(list) = Len(Keyframes) /\ list # <<>>
  <2>1. \A i \in 1 .. Len(Keyframes) : list[i] \in Nat
    BY <1>1, Table
  <2>2. list \in [1 .. Len(Keyframes) -> Nat]
    BY <2>1, Table
  <2>3. QED
    BY <2>2, Table
<1>3. \A i \in DOMAIN Keyframes : list[i] = TickOf(part, i) /\ list[i] \in Nat
  BY <1>1, Table DEF TickOf
<1>4. \A i, j \in DOMAIN Keyframes : i < j => list[i] < list[j]
  BY <1>1, Table
<1> HIDE DEF list
<1>5. /\ at \in 1 .. Len(list)
      /\ tick < list[1] => at = 1
      /\ ~(tick < list[1]) => LastUpTo(list, tick, at)
  BY <1>1, <1>2, <1>4, SearchLast, Table DEF NearestKeyframe, list
<1> HIDE DEF at
<1>6. at \in DOMAIN Keyframes /\ at \in Nat
  BY <1>2, <1>5, Table
<1>7. at \in upTo \cup {1}
  BY <1>1, <1>3, <1>5, <1>6 DEF LastUpTo
<1>8. \A n \in upTo \cup {1} : n <= at
  <2>1. SUFFICES ASSUME NEW n \in upTo, at < n PROVE FALSE
    BY <1>6, Table
  <2>2. n \in DOMAIN Keyframes /\ n \in Nat /\ list[n] <= tick
    BY <1>3, <2>1, Table
  <2>3. at + 1 \in DOMAIN Keyframes /\ at # Len(list) /\ at + 1 <= n
    BY <1>2, <1>6, <2>1, <2>2, Table
  <2>4. CASE tick < list[1]
    <3>1. 1 \in DOMAIN Keyframes /\ 1 < n
      BY <1>6, <2>1, <2>2, Table
    <3>2. list[1] < list[n] /\ list[1] \in Nat /\ list[n] \in Nat
      BY <1>3, <1>4, <2>2, <3>1
    <3>3. QED
      BY <1>1, <2>2, <2>4, <3>2
  <2>5. CASE ~(tick < list[1])
    <3>1. tick < list[at + 1]
      BY <1>5, <2>3, <2>5 DEF LastUpTo
    <3>a. at + 1 = n \/ at + 1 < n
      BY <1>6, <2>2, <2>3
    <3>b. list[at + 1] \in Nat /\ list[n] \in Nat
      BY <1>3, <2>2, <2>3
    <3>2. list[at + 1] <= list[n]
      BY <1>4, <2>2, <2>3, <3>a, <3>b
    <3>3. QED
      BY <1>1, <1>3, <2>2, <2>3, <3>1, <3>2
  <2>6. QED
    BY <2>4, <2>5
<1>9. upTo \cup {1} \subseteq Nat
  BY Table
<1>10. at = Max(upTo \cup {1})
  BY <1>7, <1>8, <1>9, MaxNat
<1>11. QED
  BY <1>6, <1>10 DEF at

\* So the seek of the model leads where a seek ought to lead.
LEMMA SeekRight ==
  ASSUME NEW tick \in Ticks
  PROVE  LET part == SearchSegment(tick)
             at   == NearestKeyframe(part, tick)
         IN  /\ part \in 1 .. Parts /\ at \in DOMAIN Keyframes
             /\ TickOf(part, at) = Target(tick) /\ Target(tick) \in Ticks
BY SegmentFound, KeyframeFound, KeyframeIsTick DEF Target
-----------------------------------------------------------------------------
(* The inductive invariant. *)

\* Where the IO controller of a controller c is: at the part the controller is
\* at, at its head until the part has been read, and with the demuxer of that
\* part unless it is yet to bind one.
Placed(c) ==
  /\ c.io.there => /\ c.io.part = c.index /\ c.io.state # "none" /\ c.life = "started"
                   /\ ~c.io.init => c.demuxer = c.index
                   /\ c.io.at = 0 => c.io.init
                   /\ c.index \notin c.infos => c.io.at = 0
  /\ ~c.io.there => c.io = NoIO
  /\ c.reporter => c.life = "started"
  /\ c.life = "new" => /\ c.infos = {} /\ c.pendingSeek = None /\ c.resolve = None
                       /\ c.index = 1

\* The position to be announced is that of the group that comes next.
Resolved(c) ==
  c.io.there /\ c.pendingSeek = None /\ c.resolve # None =>
    c.io.at \in DOMAIN Keyframes /\ c.resolve = TickOf(c.index, c.io.at)

\* What follows a place of the source, its heads and ends included.
Following(part, at) ==
  IF at = 0 THEN TickOf(part, 1)
  ELSE IF at \in DOMAIN Keyframes THEN TickOf(part, at)
  ELSE IF part < Parts THEN TickOf(part + 1, 1) ELSE Done

\* The group expected is the one that comes next; while a seek waits for the
\* part to be read, it is the one that seek leads to.
Aligned(c, e) ==
  c.io.there =>
    /\ c.pendingSeek = None => e = Following(c.index, c.io.at)
    /\ c.pendingSeek # None => /\ c.io.at = 0 /\ SearchSegment(c.pendingSeek) = c.index
                               /\ e = Target(c.pendingSeek)

StepInv ==
  /\ Placed(ctl)
  /\ ctl.life = "started" /\ media.notFlv = {} => ctl.io.there
  /\ ctl.life = "new" => lapses = {} /\ expect = Keyframes[1]
  /\ "paused" \notin lapses => Resolved(ctl)
  /\ Orderly => Aligned(ctl, expect)

TInv == TypeInv /\ StepInv

\* No IO controller has the type of one.
LEMMA NoIOType == NoIO \in IOs
BY Table DEF NoIO, IOs

\* Opening a part, at its head or at a keyframe with the demuxer of the part.
LEMMA LoadSegmentPlaced ==
  ASSUME NEW c \in Controllers, NEW part \in 1 .. Parts, NEW from \in 0 .. Len(Keyframes),
         c.life = "started", c.reporter \in BOOLEAN,
         from # 0 => c.demuxer = part /\ part \in c.infos
  PROVE  LET d == LoadSegment(c, part, from)
         IN  /\ d \in Controllers /\ Placed(d) /\ d.io.there
             /\ d.index = part /\ d.io.part = part /\ d.io.at = from
             /\ d.infos = c.infos /\ d.life = c.life /\ d.pendingSeek = c.pendingSeek
             /\ d.resolve = c.resolve /\ d.reporter = c.reporter /\ d.io.init = (from = 0)
             /\ d.io.state = "working"
<1> DEFINE io == [there |-> TRUE, part |-> part, state |-> "working", init |-> from = 0, at |-> from]
           d == LoadSegment(c, part, from)
<1>1. io \in IOs
  BY Table DEF IOs
<1>2. d \in Controllers
  BY <1>1 DEF LoadSegment, Controllers
<1>3. /\ d.index = part /\ d.io = io /\ d.infos = c.infos /\ d.life = c.life
      /\ d.pendingSeek = c.pendingSeek /\ d.resolve = c.resolve /\ d.reporter = c.reporter
      /\ d.demuxer = c.demuxer
  BY DEF LoadSegment, Controllers
<1> HIDE DEF d
<1>a. /\ d.io.there /\ d.io.part = part /\ d.io.state = "working" /\ d.io.init = (from = 0)
      /\ d.io.at = from
  BY <1>3
<1> HIDE DEF io
<1>4. Placed(d)
  BY <1>3, <1>a DEF Placed
<1>5. QED
  BY <1>2, <1>3, <1>a, <1>4 DEF d

\* A seek leads to the keyframe it ought to lead to, or waits for its part.
LEMMA SeekToPlaced ==
  ASSUME NEW c \in Controllers, NEW tick \in Ticks, Placed(c), c.life = "started",
         c.index \in c.infos => c.io.there
  PROVE  LET d == SeekTo(c, tick)
         IN  /\ d \in Controllers /\ Placed(d)
             /\ d.life = "started" /\ d.infos = c.infos /\ d.reporter = c.reporter
             /\ c.io.there => d.io.there
             /\ \/ /\ d.pendingSeek = tick /\ d.resolve = c.resolve
                   /\ d.index = SearchSegment(tick) /\ (d.io.there => d.io.at = 0)
                \/ /\ d.pendingSeek = c.pendingSeek /\ d.io.there
                   /\ d.io.at \in DOMAIN Keyframes /\ d.resolve = TickOf(d.index, d.io.at)
                   /\ d.resolve = Target(tick)
<1> DEFINE part == SearchSegment(tick)
           at   == NearestKeyframe(part, tick)
           d    == SeekTo(c, tick)
<1>1. /\ part \in 1 .. Parts /\ at \in DOMAIN Keyframes
      /\ TickOf(part, at) = Target(tick) /\ Target(tick) \in Ticks
  BY SeekRight
<1>2. at \in 1 .. Len(Keyframes) /\ at # 0 /\ at \in 0 .. Len(Keyframes) + 1 /\ at \in 0 .. Len(Keyframes)
  BY <1>1, Table
<1> HIDE DEF part, at
<1>3. CASE part = c.index /\ part \notin c.infos
  <2>1. d = [c EXCEPT !.pendingSeek = tick]
    BY <1>3 DEF SeekTo, part
  <2>2. /\ d \in Controllers /\ d.pendingSeek = tick /\ d.resolve = c.resolve /\ d.index = c.index
        /\ d.io = c.io /\ d.life = c.life /\ d.infos = c.infos /\ d.reporter = c.reporter
        /\ d.demuxer = c.demuxer
    BY <2>1 DEF Controllers
  <2> HIDE DEF d
  <2>3. Placed(d) /\ (d.io.there => d.io.at = 0)
    BY <1>3, <2>2 DEF Placed
  <2>4. QED
    BY <1>3, <2>2, <2>3 DEF d, part
<1>4. CASE part = c.index /\ part \in c.infos
  <2>1. d = [c EXCEPT !.io.at = at, !.io.state = "working", !.resolve = TickOf(part, at)]
    BY <1>4 DEF SeekTo, part, at
  <2>2. c.io \in IOs /\ c.io.there /\ c.io.part = c.index
    BY <1>4 DEF Controllers, Placed
  <2>3. d.io = [c.io EXCEPT !.at = at, !.state = "working"]
    BY <2>1 DEF Controllers
  <2>4. /\ d.io \in IOs /\ d.io.at = at /\ d.io.there /\ d.io.part = c.index
        /\ d.io.state = "working" /\ d.io.init = c.io.init
    BY <1>2, <2>2, <2>3 DEF IOs
  <2>a. d = [c EXCEPT !.io = d.io, !.resolve = TickOf(part, at)]
    BY <2>1, <2>3 DEF Controllers
  <2>b. TickOf(part, at) \in Ticks \cup {None}
    BY <1>1
  <2> HIDE DEF d
  <2>5. /\ d \in Controllers /\ d.pendingSeek = c.pendingSeek /\ d.resolve = TickOf(part, at)
        /\ d.index = c.index /\ d.life = c.life /\ d.infos = c.infos /\ d.reporter = c.reporter
        /\ d.demuxer = c.demuxer
    <3>1. PICK o \in IOs : o = d.io
      BY <2>4
    <3>2. PICK v \in Ticks \cup {None} : v = TickOf(part, at)
      BY <2>b
    <3> DEFINE e == [c EXCEPT !.io = o, !.resolve = v]
    <3>3. d = e
      BY <2>a, <3>1, <3>2
    <3>4. /\ e \in Controllers /\ e.pendingSeek = c.pendingSeek /\ e.resolve = v
          /\ e.index = c.index /\ e.life = c.life /\ e.infos = c.infos
          /\ e.reporter = c.reporter /\ e.demuxer = c.demuxer
      BY DEF Controllers
    <3> HIDE DEF e
    <3>5. QED
      BY <3>2, <3>3, <3>4
  <2>6. Placed(d)
    BY <1>2, <1>4, <2>2, <2>4, <2>5 DEF Placed
  <2>7. QED
    BY <1>1, <1>4, <2>4, <2>5, <2>6 DEF d
<1>5. CASE part # c.index /\ part \notin c.infos
  <2> DEFINE b == [c EXCEPT !.pendingSeek = tick]
  <2>1. d = LoadSegment(b, part, 0)
    BY <1>5 DEF SeekTo, part
  <2>2. /\ b \in Controllers /\ b.pendingSeek = tick /\ b.resolve = c.resolve /\ b.life = c.life
        /\ b.infos = c.infos /\ b.reporter = c.reporter /\ b.reporter \in BOOLEAN
    BY DEF Controllers
  <2> HIDE DEF b, d
  <2>3. 0 \in 0 .. Len(Keyframes)
    BY Table
  <2>4. /\ d \in Controllers /\ Placed(d) /\ d.io.there
        /\ d.index = part /\ d.io.at = 0 /\ d.infos = b.infos /\ d.life = b.life
        /\ d.pendingSeek = b.pendingSeek /\ d.resolve = b.resolve /\ d.reporter = b.reporter
    BY <1>1, <2>1, <2>2, <2>3, LoadSegmentPlaced
  <2>5. QED
    BY <2>2, <2>4 DEF d, part
<1>6. CASE part # c.index /\ part \in c.infos
  <2> DEFINE b == [c EXCEPT !.demuxer = part]
             l == LoadSegment(b, part, at)
  <2>1. d = [l EXCEPT !.resolve = TickOf(part, at)]
    BY <1>6 DEF SeekTo, part, at
  <2>2. /\ b \in Controllers /\ b.pendingSeek = c.pendingSeek /\ b.life = c.life
        /\ b.infos = c.infos /\ b.reporter = c.reporter /\ b.demuxer = part
        /\ b.reporter \in BOOLEAN
    BY <1>1 DEF Controllers
  <2> HIDE DEF b
  <2>3. /\ l \in Controllers /\ Placed(l) /\ l.io.there
        /\ l.index = part /\ l.io.at = at /\ l.infos = b.infos /\ l.life = b.life
        /\ l.pendingSeek = b.pendingSeek /\ l.reporter = b.reporter
    BY <1>1, <1>2, <1>6, <2>2, LoadSegmentPlaced
  <2> HIDE DEF l
  <2>4. /\ d \in Controllers /\ d.io = l.io /\ d.index = l.index /\ d.infos = l.infos
        /\ d.life = l.life /\ d.pendingSeek = l.pendingSeek /\ d.reporter = l.reporter
        /\ d.resolve = TickOf(part, at) /\ d.demuxer = l.demuxer
    BY <1>1, <2>1, <2>3 DEF Controllers
  <2> HIDE DEF d
  <2>5. Placed(d)
    BY <2>2, <2>3, <2>4 DEF Placed
  <2>6. QED
    BY <1>1, <2>2, <2>3, <2>4, <2>5 DEF d
<1>7. QED
  BY <1>3, <1>4, <1>5, <1>6
-----------------------------------------------------------------------------
(* The steps. *)

\* The fields of a controller that is at work.
LEMMA CtlTypes ==
  ASSUME NEW c \in Controllers
  PROVE  /\ c.io \in IOs /\ c.index \in 1 .. Parts /\ c.infos \subseteq 1 .. Parts
         /\ c.io.part \in 1 .. Parts /\ c.io.at \in 0 .. Len(Keyframes) + 1
         /\ c.io.init \in BOOLEAN /\ c.io.there \in BOOLEAN /\ c.reporter \in BOOLEAN
BY DEF Controllers, IOs

\* Without an IO controller there is nothing for the rest of the invariant to say.
LEMMA NoIOPlaced ==
  ASSUME NEW c \in Controllers, c.io = NoIO, c.reporter => c.life = "started", c.life # "new"
  PROVE  Placed(c) /\ Resolved(c) /\ ~c.io.there /\ \A e : Aligned(c, e)
BY DEF Placed, Resolved, Aligned, NoIO

\* The invariant holds in the beginning.
LEMMA InitTInv == TransmuxingInit => TInv
<1> SUFFICES ASSUME TransmuxingInit PROVE TInv
  OBVIOUS
<1>1. ctl \in Controllers
  BY NoIOType, Table DEF TransmuxingInit, Controllers, None
<1>2. Keyframes[1] \in Nat /\ Keyframes[1] = TickOf(1, 1)
  BY Table DEF TickOf, Base
<1>3. TypeInv
  BY <1>1, <1>2 DEF TransmuxingInit, TypeInv
<1>4. /\ ctl.io = NoIO /\ ~ctl.io.there /\ ~ctl.reporter /\ ctl.life = "new" /\ ctl.infos = {}
      /\ ctl.pendingSeek = None /\ ctl.resolve = None /\ lapses = {} /\ expect = Keyframes[1]
      /\ ctl.index = 1
  BY DEF TransmuxingInit, NoIO
<1>5. StepInv
  BY <1>4 DEF StepInv, Placed, Resolved, Aligned
<1>6. QED
  BY <1>3, <1>5 DEF TInv

\* A step that leaves the history alone keeps the invariant if the controller
\* stays placed and aligned.
LEMMA Quiet ==
  ASSUME TInv, ctl' \in Controllers, UNCHANGED media, expect' \in Nat,
         lapses' \subseteq {"forgotten", "paused"}, lapses \subseteq lapses',
         Placed(ctl'), ctl'.life # "new",
         ctl'.life = "started" /\ media.notFlv = {} => ctl'.io.there,
         "paused" \notin lapses' => Resolved(ctl'),
         Orderly' => Aligned(ctl', expect')
  PROVE  TInv'
BY DEF TInv, TypeInv, StepInv, Placed, Resolved, Aligned

\* start.
LEMMA StartTInv == ASSUME TInv, Start PROVE TInv'
<1> DEFINE d == LoadSegment(ctl, 1, 0)
<1>1. ctl \in Controllers /\ 1 \in 1 .. Parts /\ 0 \in 0 .. Len(Keyframes)
  BY Table DEF TInv, TypeInv
<1>2. /\ ctl.pendingSeek = None /\ ctl.resolve = None /\ ctl.infos = {} /\ lapses = {}
      /\ expect = Keyframes[1] /\ ctl.life = "new"
  BY DEF TInv, StepInv, Placed, Start
<1> DEFINE io == [there |-> TRUE, part |-> 1, state |-> "working", init |-> TRUE, at |-> 0]
<1>3. io \in IOs
  BY Table DEF IOs
<1>4. /\ ctl' \in Controllers /\ ctl'.io = io /\ ctl'.index = 1 /\ ctl'.infos = ctl.infos
      /\ ctl'.pendingSeek = ctl.pendingSeek /\ ctl'.resolve = ctl.resolve
      /\ ctl'.life = "started" /\ ctl'.reporter
  BY <1>1, <1>3 DEF Start, LoadSegment, Controllers
<1>5. Placed(ctl')
  BY <1>2, <1>4 DEF Placed
<1>6. Resolved(ctl')
  BY <1>2, <1>4 DEF Resolved
<1>7. Aligned(ctl', expect')
  <2>1. Keyframes[1] = TickOf(1, 1)
    BY Table DEF TickOf, Base
  <2>2. QED
    BY <1>2, <1>4, <2>1 DEF Aligned, Following, Start
<1>8. QED
  BY <1>2, <1>4, <1>5, <1>6, <1>7, Quiet DEF Start, TInv, TypeInv

\* stop.
LEMMA StopTInv == ASSUME TInv, Stop PROVE TInv'
<1>1. /\ ctl' \in Controllers /\ ctl'.io = NoIO /\ ctl'.life = "stopped" /\ ~ctl'.reporter
  BY NoIOType DEF Stop, InternalAbort, Controllers, TInv, TypeInv
<1>2. QED
  BY <1>1, NoIOPlaced, Quiet DEF Stop, TInv, TypeInv

\* destroy.
LEMMA DestroyTInv == ASSUME TInv, Destroy PROVE TInv'
<1>a. None \in 0 .. Parts /\ {} \in SUBSET (1 .. Parts)
  BY Table DEF None
<1>1. /\ ctl' \in Controllers /\ ctl'.io = NoIO /\ ctl'.life = "destroyed" /\ ~ctl'.reporter
  BY <1>a, NoIOType DEF Destroy, Controllers, TInv, TypeInv
<1>2. QED
  BY <1>1, NoIOPlaced, Quiet DEF Destroy, TInv, TypeInv

\* A change of the state of the IO controller and of the reporter is none of
\* where it is.
LEMMA StateTInv ==
  ASSUME TInv, ctl.life = "started", NEW state \in {"working", "paused", "done", "failed"},
         NEW reporter \in BOOLEAN, ctl.io.there,
         ctl' = [ctl EXCEPT !.io.state = state, !.reporter = reporter],
         UNCHANGED <<media, expect, lapses>>
  PROVE  TInv'
<1>1. ctl \in Controllers /\ ctl.io \in IOs
  BY CtlTypes DEF TInv, TypeInv
<1> DEFINE io == [ctl.io EXCEPT !.state = state]
<1>2. /\ io \in IOs /\ io.there = ctl.io.there /\ io.part = ctl.io.part /\ io.state = state
      /\ io.init = ctl.io.init /\ io.at = ctl.io.at
  BY <1>1 DEF IOs
<1>3. ctl' = [ctl EXCEPT !.io = io, !.reporter = reporter]
  BY <1>1 DEF Controllers
<1> HIDE DEF io
<1>4. /\ ctl' \in Controllers /\ ctl'.io = io /\ ctl'.index = ctl.index /\ ctl'.infos = ctl.infos
      /\ ctl'.pendingSeek = ctl.pendingSeek /\ ctl'.resolve = ctl.resolve
      /\ ctl'.life = ctl.life /\ ctl'.demuxer = ctl.demuxer
  BY <1>1, <1>2, <1>3 DEF Controllers
<1>a. Placed(ctl) /\ state # "none"
  BY DEF TInv, StepInv
<1>5. Placed(ctl')
  <2>1. ctl'.io.there
    BY <1>2, <1>4
  <2>2. /\ ctl'.io.part = ctl'.index /\ ctl'.io.state # "none" /\ ctl'.life = "started"
        /\ ~ctl'.io.init => ctl'.demuxer = ctl'.index
        /\ ctl'.io.at = 0 => ctl'.io.init
        /\ ctl'.index \notin ctl'.infos => ctl'.io.at = 0
    BY <1>2, <1>4, <1>a DEF Placed
  <2>3. QED
    BY <2>1, <2>2 DEF Placed
<1>6. Resolved(ctl) => Resolved(ctl')
  BY <1>2, <1>4 DEF Resolved
<1>7. Aligned(ctl, expect) => Aligned(ctl', expect')
  BY <1>2, <1>4 DEF Aligned
<1>8. QED
  BY <1>2, <1>4, <1>5, <1>6, <1>7, Quiet DEF TInv, TypeInv, StepInv, Orderly

\* An IO controller that is in some state is there.
LEMMA StateThere ==
  ASSUME TInv, ctl.io.state # "none"
  PROVE  ctl.io.there
BY CtlTypes DEF TInv, TypeInv, StepInv, Placed, NoIO

\* pause.
LEMMA PauseTInv == ASSUME TInv, Pause PROVE TInv'
<1>1. CASE ctl.io.state = "working"
  <2>1. ctl' = [ctl EXCEPT !.io.state = "paused", !.reporter = FALSE]
    BY <1>1 DEF Pause
  <2>2. QED
    BY <1>1, <2>1, StateThere, StateTInv DEF Pause
<1>2. CASE ctl.io.state # "working"
  BY <1>2 DEF Pause, TInv, TypeInv, StepInv, Orderly
<1>3. QED
  BY <1>1, <1>2

\* resume.
LEMMA ResumeTInv == ASSUME TInv, Resume PROVE TInv'
<1>1. CASE ctl.io.state = "paused"
  <2>1. ctl' = [ctl EXCEPT !.io.state = "working", !.reporter = TRUE]
    BY <1>1 DEF Resume
  <2>2. QED
    BY <1>1, <2>1, StateThere, StateTInv DEF Resume
<1>2. CASE ctl.io.state # "paused"
  BY <1>2 DEF Resume, TInv, TypeInv, StepInv, Orderly
<1>3. QED
  BY <1>1, <1>2

\* A failure of the IO controller.
LEMMA OnIOExceptionTInv == ASSUME TInv, OnIOException PROVE TInv'
<1> DEFINE state == IF ctl.io.state = "paused" THEN "paused" ELSE "failed"
<1>1. ctl' = [ctl EXCEPT !.io.state = state, !.reporter = FALSE]
  BY CtlTypes DEF OnIOException, TInv, TypeInv, Controllers, IOs
<1>2. state \in {"working", "paused", "done", "failed"}
  OBVIOUS
<1> HIDE DEF state
<1>3. QED
  BY <1>1, <1>2, StateThere, StateTInv DEF OnIOException

\* seek, in each of its four cases.
LEMMA SeekTInv == ASSUME TInv, NEW tick \in Ticks, Seek(tick) PROVE TInv'
<1>1. CASE ~CanSeek(ctl)
  BY <1>1 DEF Seek, TInv, TypeInv, StepInv, Orderly
<1>2. CASE CanSeek(ctl)
  <2> DEFINE c == SeekTo(ctl, tick)
  <2>1. /\ ctl.life = "started" /\ (ctl.index \in ctl.infos => ctl.io.there)
        /\ ctl' = [c EXCEPT !.reporter = TRUE] /\ expect' = Target(tick)
        /\ lapses' = IF Forgotten(c) THEN lapses \cup {"forgotten"} ELSE lapses
        /\ UNCHANGED media
    BY <1>2 DEF Seek
  <2>2. ctl \in Controllers /\ Placed(ctl)
    BY DEF TInv, TypeInv, StepInv
  <2>3. /\ c \in Controllers /\ Placed(c)
        /\ c.life = "started" /\ c.infos = ctl.infos /\ c.reporter = ctl.reporter
        /\ ctl.io.there => c.io.there
        /\ \/ /\ c.pendingSeek = tick /\ c.resolve = ctl.resolve
              /\ c.index = SearchSegment(tick) /\ (c.io.there => c.io.at = 0)
           \/ /\ c.pendingSeek = ctl.pendingSeek /\ c.io.there
              /\ c.io.at \in DOMAIN Keyframes /\ c.resolve = TickOf(c.index, c.io.at)
              /\ c.resolve = Target(tick)
    BY <2>1, <2>2, SeekToPlaced
  <2> HIDE DEF c
  <2>4. /\ ctl' \in Controllers /\ ctl'.io = c.io /\ ctl'.index = c.index /\ ctl'.infos = c.infos
        /\ ctl'.pendingSeek = c.pendingSeek /\ ctl'.resolve = c.resolve
        /\ ctl'.life = c.life /\ ctl'.demuxer = c.demuxer
    BY <2>1, <2>3 DEF Controllers
  <2>5. Placed(ctl')
    BY <2>3, <2>4 DEF Placed
  <2>6. tick # None /\ Target(tick) \in Nat
    BY TicksAreNat, SeekRight DEF None
  <2>7. Resolved(ctl')
    BY <2>3, <2>4, <2>6 DEF Resolved
  <2>8. Orderly' => Aligned(ctl', expect')
    <3>1. SUFFICES ASSUME Orderly', c.io.there PROVE Aligned(ctl', expect')
      BY <2>4 DEF Aligned
    <3>2. ~Forgotten(c)
      BY <2>1, <3>1 DEF Orderly
    <3>3. c.io.at \in DOMAIN Keyframes => c.io.at # 0
      BY Table
    <3>4. CASE c.pendingSeek = tick /\ c.index = SearchSegment(tick) /\ c.io.at = 0
      BY <2>1, <2>4, <2>6, <3>4 DEF Aligned
    <3>5. CASE c.io.at \in DOMAIN Keyframes /\ c.resolve = TickOf(c.index, c.io.at)
               /\ c.resolve = Target(tick)
      BY <2>1, <2>4, <3>1, <3>2, <3>3, <3>5 DEF Aligned, Forgotten, Following
    <3>6. QED
      BY <2>3, <3>1, <3>4, <3>5
  <2>9. lapses \subseteq lapses' /\ lapses' \subseteq {"forgotten", "paused"}
    BY <2>1 DEF TInv, TypeInv
  <2>10. ctl.life = "started" /\ media.notFlv = {} => ctl.io.there
    BY DEF TInv, StepInv
  <2>11. QED
    BY <2>1, <2>3, <2>4, <2>5, <2>6, <2>7, <2>8, <2>9, <2>10, Quiet
<1>3. QED
  BY <1>1, <1>2

\* The head of a part that is not flv.
LEMMA OnInitChunkUnsupportedTInv == ASSUME TInv, OnInitChunkUnsupported PROVE TInv'
<1>1. /\ ctl' \in Controllers /\ ctl'.io = NoIO /\ ctl'.life = "started"
  BY NoIOType DEF OnInitChunkUnsupported, InternalAbort, Controllers, TInv, TypeInv
<1>2. media.notFlv # {}
  BY DEF OnInitChunkUnsupported
<1>3. QED
  BY <1>1, <1>2, NoIOPlaced, Quiet DEF OnInitChunkUnsupported, TInv, TypeInv

\* The head of a part, with a seek that waited for it or without.
LEMMA OnInitChunkArrivalTInv == ASSUME TInv, OnInitChunkArrival PROVE TInv'
<1> DEFINE read == [ctl EXCEPT !.demuxer = ctl.index, !.io.init = FALSE, !.io.at = 1,
                               !.infos = @ \cup {ctl.index}, !.pendingSeek = None]
           io   == [ctl.io EXCEPT !.init = FALSE, !.at = 1]
<1>1. /\ ctl.life = "started" /\ ctl.io.state = "working" /\ ctl.io.init /\ ctl.io.at = 0
      /\ UNCHANGED <<media, expect, lapses>>
      /\ ctl' = IF ctl.pendingSeek # None
                THEN [SeekTo(read, ctl.pendingSeek) EXCEPT !.reporter = TRUE] ELSE read
  BY DEF OnInitChunkArrival
<1>2. /\ ctl \in Controllers /\ ctl.io \in IOs /\ ctl.io.there /\ Placed(ctl)
      /\ ctl.index \in 1 .. Parts /\ ctl.infos \subseteq 1 .. Parts
      /\ ctl.io.part = ctl.index
  BY <1>1, CtlTypes, StateThere DEF TInv, TypeInv, StepInv, Placed
<1>b. 1 \in 0 .. Len(Keyframes) + 1
  BY Table
<1>3. /\ io \in IOs /\ io.at = 1 /\ ~io.init /\ io.there /\ io.part = ctl.index /\ io.state = "working"
  BY <1>1, <1>2, <1>b DEF IOs
<1>4. read = [ctl EXCEPT !.demuxer = ctl.index, !.io = io, !.infos = ctl.infos \cup {ctl.index},
                         !.pendingSeek = None]
  BY <1>2 DEF Controllers
<1>a. ctl.index \in 0 .. Parts /\ ctl.infos \cup {ctl.index} \in SUBSET (1 .. Parts)
  BY <1>2
<1> HIDE DEF io
<1>5. /\ read \in Controllers /\ read.io = io /\ read.index = ctl.index /\ read.demuxer = ctl.index
      /\ read.infos = ctl.infos \cup {ctl.index} /\ read.pendingSeek = None
      /\ read.resolve = ctl.resolve /\ read.life = "started" /\ read.reporter = ctl.reporter
  <2>1. None \in Ticks \cup {None}
    OBVIOUS
  <2>2. read \in Controllers
    BY <1>2, <1>3, <1>4, <1>a, <2>1 DEF Controllers
  <2>3. QED
    BY <1>1, <1>2, <1>4, <2>2 DEF Controllers
<1> HIDE DEF read
<1>6. Placed(read)
  BY <1>3, <1>5 DEF Placed
<1>7. CASE ctl.pendingSeek = None
  <2>1. ctl' = read
    BY <1>1, <1>7
  <2>2. Resolved(ctl) => Resolved(read)
    BY <1>1, <1>2, <1>5, <1>7, Table DEF Resolved
  <2>3. Aligned(ctl, expect) => Aligned(read, expect)
    <3>1. Following(ctl.index, 0) = Following(read.index, 1)
      BY <1>5, Table DEF Following
    <3>2. QED
      BY <1>1, <1>2, <1>3, <1>5, <1>7, <3>1 DEF Aligned
  <2>4. QED
    BY <1>1, <1>3, <1>5, <1>6, <2>1, <2>2, <2>3, Quiet DEF TInv, TypeInv, StepInv, Orderly
<1>8. CASE ctl.pendingSeek # None
  <2> DEFINE tick == ctl.pendingSeek
             c == SeekTo(read, tick)
  <2>1. tick \in Ticks
    BY <1>2, <1>8 DEF Controllers
  <2>2. ctl' = [c EXCEPT !.reporter = TRUE]
    BY <1>1, <1>8
  <2>3. /\ c \in Controllers /\ Placed(c)
        /\ c.life = "started" /\ c.infos = read.infos /\ c.reporter = read.reporter
        /\ c.io.there
        /\ \/ /\ c.pendingSeek = tick /\ c.resolve = read.resolve
              /\ c.index = SearchSegment(tick) /\ (c.io.there => c.io.at = 0)
           \/ /\ c.pendingSeek = read.pendingSeek /\ c.io.there
              /\ c.io.at \in DOMAIN Keyframes /\ c.resolve = TickOf(c.index, c.io.at)
              /\ c.resolve = Target(tick)
    BY <1>3, <1>5, <1>6, <2>1, SeekToPlaced
  <2> HIDE DEF c
  <2>4. /\ ctl' \in Controllers /\ ctl'.io = c.io /\ ctl'.index = c.index /\ ctl'.infos = c.infos
        /\ ctl'.pendingSeek = c.pendingSeek /\ ctl'.resolve = c.resolve
        /\ ctl'.life = c.life /\ ctl'.demuxer = c.demuxer
    BY <2>2, <2>3 DEF Controllers
  <2>5. Placed(ctl')
    BY <2>3, <2>4 DEF Placed
  <2>6. Resolved(ctl')
    BY <1>8, <2>3, <2>4 DEF Resolved
  <2>7. Aligned(ctl, expect) => Aligned(ctl', expect')
    <3>1. SUFFICES ASSUME Aligned(ctl, expect) PROVE Aligned(ctl', expect')
      OBVIOUS
    <3>2. expect' = Target(tick)
      BY <1>1, <1>2, <1>8, <3>1 DEF Aligned
    <3>3. c.io.at \in DOMAIN Keyframes => c.io.at # 0
      BY Table
    <3>4. CASE c.pendingSeek = tick /\ c.index = SearchSegment(tick) /\ c.io.at = 0
      BY <1>8, <2>4, <3>2, <3>4 DEF Aligned
    <3>5. CASE /\ c.pendingSeek = None /\ c.io.at \in DOMAIN Keyframes
               /\ c.resolve = TickOf(c.index, c.io.at) /\ c.resolve = Target(tick)
      BY <2>4, <3>2, <3>3, <3>5 DEF Aligned, Following
    <3>6. QED
      BY <1>5, <2>3, <3>4, <3>5
  <2>8. QED
    BY <1>1, <2>3, <2>4, <2>5, <2>6, <2>7, Quiet DEF TInv, TypeInv, StepInv, Orderly
<1>9. QED
  BY <1>7, <1>8

\* What follows a group is what is expected after it.
LEMMA AfterFollows ==
  ASSUME NEW part \in 1 .. Parts, NEW at \in 1 .. Len(Keyframes)
  PROVE  After(part, at) = Following(part, at + 1)
<1>1. /\ Len(Keyframes) \in Nat /\ DOMAIN Keyframes = 1 .. Len(Keyframes) /\ Parts \in Nat
      /\ at + 1 # 0
  BY Table
<1>2. CASE at < Len(Keyframes)
  BY <1>1, <1>2 DEF After, Following
<1>3. CASE at = Len(Keyframes)
  <2>1. at + 1 \notin DOMAIN Keyframes /\ ~(at < Len(Keyframes))
    BY <1>1, <1>3
  <2>2. QED
    BY <1>1, <1>3, <2>1 DEF After, Following
<1>4. at < Len(Keyframes) \/ at = Len(Keyframes)
  <2>1. Len(Keyframes) \in Nat
    BY <1>1
  <2>2. QED
    BY <2>1
<1>5. QED
  BY <1>2, <1>3, <1>4, Zenon

\* A group that arrives is that of the part the controller is at, and the next
\* one follows it.
LEMMA OnDataArrivalTInv == ASSUME TInv, OnDataArrival PROVE TInv'
<1> DEFINE demuxer == IF ctl.io.init THEN ctl.index ELSE ctl.demuxer
           next == [ctl EXCEPT !.demuxer = demuxer, !.io.init = FALSE, !.io.at = @ + 1]
           io   == [ctl.io EXCEPT !.init = FALSE, !.at = @ + 1]
<1>1. /\ ctl.life = "started" /\ ctl.io.state = "working" /\ ctl.io.at \in DOMAIN Keyframes
      /\ UNCHANGED <<media, lapses>>
      /\ \/ ctl.pendingSeek # None /\ ctl' = next /\ UNCHANGED expect
         \/ /\ ctl.pendingSeek = None /\ ctl' = [next EXCEPT !.resolve = None]
            /\ expect' = After(ctl.io.part, ctl.io.at)
  BY DEF OnDataArrival
<1>2. /\ ctl \in Controllers /\ ctl.io \in IOs /\ ctl.io.there /\ Placed(ctl)
      /\ ctl.index \in 1 .. Parts /\ ctl.io.part = ctl.index
      /\ ctl.io.at \in 1 .. Len(Keyframes) /\ ctl.io.at + 1 \in 0 .. Len(Keyframes) + 1
      /\ ctl.io.at + 1 # 0 /\ ctl.io.at # 0
  BY <1>1, CtlTypes, StateThere, Table DEF TInv, TypeInv, StepInv, Placed
<1>3. demuxer = ctl.index
  BY <1>2 DEF Placed
<1>4. /\ io \in IOs /\ io.at = ctl.io.at + 1 /\ ~io.init /\ io.there /\ io.part = ctl.index
      /\ io.state = "working"
  BY <1>1, <1>2 DEF IOs
<1>5. next = [ctl EXCEPT !.demuxer = ctl.index, !.io = io]
  BY <1>2, <1>3 DEF Controllers
<1>a. ctl.index \in 0 .. Parts
  BY <1>2
<1> HIDE DEF io
<1>6. /\ next \in Controllers /\ next.io = io /\ next.index = ctl.index /\ next.demuxer = ctl.index
      /\ next.infos = ctl.infos /\ next.pendingSeek = ctl.pendingSeek
      /\ next.resolve = ctl.resolve /\ next.life = "started" /\ next.reporter = ctl.reporter
  BY <1>1, <1>2, <1>4, <1>5, <1>a DEF Controllers
<1> HIDE DEF next
<1>7. Placed(next) /\ ctl.index \in ctl.infos
  BY <1>2, <1>4, <1>6 DEF Placed
<1>8. CASE ctl.pendingSeek # None
  <2>1. ctl' = next /\ UNCHANGED expect
    BY <1>1, <1>8
  <2>2. Resolved(next)
    BY <1>6, <1>8 DEF Resolved
  <2>3. ~Orderly
    BY <1>2, <1>8 DEF TInv, StepInv, Aligned
  <2>4. QED
    BY <1>1, <1>4, <1>6, <1>7, <2>1, <2>2, <2>3, Quiet DEF TInv, TypeInv, StepInv, Orderly
<1>9. CASE ctl.pendingSeek = None
  <2>1. ctl' = [next EXCEPT !.resolve = None] /\ expect' = After(ctl.io.part, ctl.io.at)
    BY <1>1, <1>9
  <2>2. /\ ctl' \in Controllers /\ ctl'.io = io /\ ctl'.index = ctl.index
        /\ ctl'.demuxer = ctl.index /\ ctl'.infos = ctl.infos /\ ctl'.pendingSeek = None
        /\ ctl'.resolve = None /\ ctl'.life = "started" /\ ctl'.reporter = ctl.reporter
    BY <1>6, <1>9, <2>1 DEF Controllers
  <2>3. Placed(ctl') /\ Resolved(ctl')
    <3>1. Placed(ctl')
      BY <1>4, <1>6, <1>7, <2>2 DEF Placed
    <3>2. Resolved(ctl')
      BY <2>2 DEF Resolved
    <3>3. QED
      BY <3>1, <3>2
  <2>4. After(ctl.io.part, ctl.io.at) = Following(ctl.index, ctl.io.at + 1)
    BY <1>2, AfterFollows
  <2>5. After(ctl.io.part, ctl.io.at) \in Nat
    <3>1. CASE ctl.io.at < Len(Keyframes)
      <4>1. ctl.io.at + 1 \in DOMAIN Keyframes
        BY <1>2, <3>1, Table
      <4>2. QED
        BY <1>2, <3>1, <4>1, KeyframeIsTick DEF After
    <3>2. CASE ~(ctl.io.at < Len(Keyframes)) /\ ctl.io.part < Parts
      <4>1. ctl.io.part + 1 \in 1 .. Parts /\ 1 \in DOMAIN Keyframes
        BY <1>2, <3>2, Table
      <4>2. ctl.io.at = Len(Keyframes)
        BY <1>2, <3>2, Table
      <4>3. QED
        BY <3>2, <4>1, <4>2, KeyframeIsTick DEF After
    <3>3. CASE ~(ctl.io.at < Len(Keyframes)) /\ ~(ctl.io.part < Parts)
      BY <3>3, Table DEF After, Done
    <3>4. QED
      BY <3>1, <3>2, <3>3
  <2>6. Aligned(ctl', expect')
    BY <1>4, <2>1, <2>2, <2>4 DEF Aligned
  <2>7. QED
    BY <1>1, <1>4, <2>1, <2>2, <2>3, <2>5, <2>6, Quiet DEF TInv, TypeInv
<1>10. QED
  BY <1>8, <1>9

\* The end of a part.
LEMMA OnIOCompleteTInv == ASSUME TInv, OnIOComplete PROVE TInv'
<1> DEFINE more == ctl.io.part + 1 <= Parts
           d == LoadSegment(ctl, ctl.io.part + 1, 0)
           state == IF ctl.io.state = "paused" THEN "paused" ELSE "done"
<1>1. /\ ctl.life = "started" /\ ctl.io.at # 0 /\ ctl.io.state \in {"working", "paused"}
      /\ ctl.io.at \in 0 .. Len(Keyframes) + 1
      /\ UNCHANGED <<media, expect>>
      /\ lapses \subseteq lapses' /\ lapses' \subseteq {"forgotten", "paused"}
      /\ "paused" \notin lapses' => ctl.io.at = Len(Keyframes) + 1 /\ lapses' = lapses
  BY CtlTypes, Table DEF OnIOComplete, TInv, TypeInv
<1>2. /\ ctl \in Controllers /\ ctl.io.there /\ Placed(ctl) /\ ctl.io.part \in 1 .. Parts
      /\ ctl.io.part = ctl.index /\ ctl.reporter \in BOOLEAN
  BY <1>1, CtlTypes, StateThere DEF TInv, TypeInv, StepInv, Placed
<1>3. "paused" \notin lapses' => ctl.pendingSeek # None \/ ctl.resolve = None
  BY <1>1, <1>2, Table DEF TInv, StepInv, Resolved
<1>4. Orderly' => ctl.pendingSeek = None /\ expect = Following(ctl.index, Len(Keyframes) + 1)
  BY <1>1, <1>2 DEF TInv, StepInv, Aligned, Orderly
<1>5. CASE more
  <2>1. ctl.io.part + 1 \in 1 .. Parts /\ 0 \in 0 .. Len(Keyframes) /\ ctl.io.part < Parts
    BY <1>2, <1>5, Table
  <2>2. ctl' = d
    BY <1>5 DEF OnIOComplete
  <2>3. /\ d \in Controllers /\ Placed(d) /\ d.io.there
        /\ d.index = ctl.io.part + 1 /\ d.io.at = 0 /\ d.life = "started"
        /\ d.pendingSeek = ctl.pendingSeek /\ d.resolve = ctl.resolve
    BY <1>1, <1>2, <2>1, LoadSegmentPlaced
  <2> HIDE DEF d
  <2>4. "paused" \notin lapses' => Resolved(d)
    BY <1>3, <2>3 DEF Resolved
  <2>5. Orderly' => Aligned(d, expect')
    <3>1. Following(ctl.index, Len(Keyframes) + 1) = Following(ctl.io.part + 1, 0)
      BY <1>2, <2>1, Table DEF Following
    <3>2. QED
      BY <1>1, <1>4, <2>3, <3>1 DEF Aligned
  <2>6. QED
    BY <1>1, <2>2, <2>3, <2>4, <2>5, Quiet DEF TInv, TypeInv
<1>6. CASE ~more
  <2>1. ctl' = [ctl EXCEPT !.reporter = FALSE, !.io.state = state]
    BY <1>6, CtlTypes DEF OnIOComplete, TInv, TypeInv, Controllers, IOs
  <2> DEFINE io == [ctl.io EXCEPT !.state = state]
  <2>2. ctl.io \in IOs
    BY <1>2, CtlTypes
  <2>3. /\ io \in IOs /\ io.there = ctl.io.there /\ io.part = ctl.io.part /\ io.state # "none"
        /\ io.init = ctl.io.init /\ io.at = ctl.io.at
    BY <2>2 DEF IOs
  <2>4. ctl' = [ctl EXCEPT !.io = io, !.reporter = FALSE]
    BY <1>2, <2>1 DEF Controllers
  <2> HIDE DEF io
  <2>5. /\ ctl' \in Controllers /\ ctl'.io = io /\ ctl'.index = ctl.index
        /\ ctl'.infos = ctl.infos /\ ctl'.pendingSeek = ctl.pendingSeek
        /\ ctl'.resolve = ctl.resolve /\ ctl'.life = ctl.life /\ ctl'.demuxer = ctl.demuxer
        /\ ~ctl'.reporter
    BY <1>2, <2>3, <2>4 DEF Controllers
  <2>6. Placed(ctl')
    BY <1>1, <1>2, <2>3, <2>5 DEF Placed
  <2>7. "paused" \notin lapses' => Resolved(ctl')
    BY <1>3, <2>5 DEF Resolved
  <2>8. Orderly' => Aligned(ctl', expect')
    BY <1>1, <1>4, <2>3, <2>5 DEF Aligned, Orderly
  <2>9. QED
    BY <1>1, <1>2, <2>3, <2>5, <2>6, <2>7, <2>8, Quiet DEF TInv, TypeInv
<1>7. QED
  BY <1>5, <1>6

\* Every step keeps the invariant.
LEMMA NextTInv == TInv /\ [TransmuxingNext]_tvars => TInv'
<1>1. ASSUME TInv, TransmuxingNext PROVE TInv'
  BY <1>1, OnInitChunkArrivalTInv, OnInitChunkUnsupportedTInv, OnDataArrivalTInv, OnIOCompleteTInv,
     OnIOExceptionTInv, StartTInv, StopTInv, PauseTInv, ResumeTInv, DestroyTInv, SeekTInv
     DEF TransmuxingNext, Data
<1>2. ASSUME TInv, UNCHANGED tvars PROVE TInv'
  BY <1>2 DEF TInv, TypeInv, StepInv, Placed, Resolved, Orderly, Aligned, tvars
<1>3. QED
  BY <1>1, <1>2

\* The invariant holds in every state of the controller.
LEMMA TransmuxingInvariant == TransmuxingSpec => []TInv
BY InitTInv, NextTInv, PTL DEF TransmuxingSpec

-----------------------------------------------------------------------------
(* What follows from it. *)

\* The invariant has the types.
LEMMA TInvTypeOK == TInv => TransmuxingTypeOK
<1> SUFFICES ASSUME TInv PROVE TransmuxingTypeOK
  OBVIOUS
<1>1. ctl \in Controllers /\ (ctl.io.there => ctl.io.part = ctl.index)
  BY DEF TInv, TypeInv, StepInv, Placed
<1>2. QED
  BY <1>1, CtlTypes DEF TransmuxingTypeOK, Controllers, IOs

\* The controller is at a part of the source and at a group of it or its head,
\* whatever seeks are made, and its positions are ticks of the source.
THEOREM TransmuxingTypeCorrect == TransmuxingSpec => []TransmuxingTypeOK
BY TransmuxingInvariant, TInvTypeOK, PTL

\* The statistics reporter, whose interval asks the IO controller for its speed,
\* runs only while there is one, if all parts are flv.
THEOREM ReporterHasIO == TransmuxingSpec => []ReporterSafe
<1>1. TInv => ReporterSafe
  BY DEF TInv, StepInv, Placed, ReporterSafe
<1>2. QED
  BY <1>1, TransmuxingInvariant, PTL

\* A group that arrives with nothing pending is the one that is to be announced.
LEMMA GroupAnnounced ==
  ASSUME TInv, OnDataArrival, ctl.pendingSeek = None
  PROVE  LET demuxer == IF ctl.io.init THEN ctl.index ELSE ctl.demuxer
         IN  /\ out' = IF ctl.resolve # None
                      THEN <<Media(TickOf(demuxer, ctl.io.at)), SeekPoint(ctl.resolve)>>
                      ELSE <<Media(TickOf(demuxer, ctl.io.at))>>
             /\ "paused" \notin lapses /\ ctl.resolve # None =>
                  ctl.resolve = TickOf(demuxer, ctl.io.at)
             /\ Orderly => expect = TickOf(demuxer, ctl.io.at)
<1> DEFINE demuxer == IF ctl.io.init THEN ctl.index ELSE ctl.demuxer
<1>1. /\ ctl.io.there /\ ctl.io.at \in DOMAIN Keyframes /\ ctl.io.at # 0
  BY StateThere, Table DEF OnDataArrival
<1>2. demuxer = ctl.index
  BY <1>1 DEF TInv, StepInv, Placed
<1>3. Orderly => expect = TickOf(ctl.index, ctl.io.at)
  BY <1>1 DEF TInv, StepInv, Aligned, Following
<1>4. "paused" \notin lapses /\ ctl.resolve # None => ctl.resolve = TickOf(ctl.index, ctl.io.at)
  BY <1>1 DEF TInv, StepInv, Resolved
<1> HIDE DEF demuxer
<1>5. out' = IF ctl.resolve # None THEN <<Media(TickOf(demuxer, ctl.io.at)), SeekPoint(ctl.resolve)>>
             ELSE <<Media(TickOf(demuxer, ctl.io.at))>>
  BY DEF OnDataArrival, demuxer
<1>6. QED
  BY <1>2, <1>3, <1>4, <1>5 DEF demuxer

\* The other steps emit neither groups nor positions.
LEMMA OthersSilent ==
  ASSUME TransmuxingNext, ~(OnDataArrival /\ ctl.pendingSeek = None)
  PROVE  \A i \in DOMAIN out' : out'[i].msg # "media" /\ out'[i].msg # "seekpoint"
<1>1. CASE out' = <<>>
  BY <1>1
<1>2. CASE \E msg \in {"demux_error", "io_error", "complete"} : out' = <<Event(msg)>>
  BY <1>2 DEF Event
<1>3. CASE out' = <<Event("mediainfo"), Event("init")>>
  BY <1>3 DEF Event
<1>4. QED
  BY <1>1, <1>2, <1>3 DEF TransmuxingNext, Data, Start, Stop, Pause, Resume, Destroy, Seek,
     OnInitChunkArrival, OnInitChunkUnsupported, OnDataArrival, OnIOComplete, OnIOException

\* The position the player is told to go to is always the start of the segment
\* that has been emitted just before, not that of an earlier seek, as long as no
\* completion has arrived in a pause.
THEOREM SeekPointsTrue == TransmuxingSpec => []SeekPointTrue
<1>1. TransmuxingInit => SeekPointTrue
  BY DEF TransmuxingInit, SeekPointTrue
<1>2. ASSUME TInv, SeekPointTrue, [TransmuxingNext]_tvars PROVE SeekPointTrue'
  <2>1. CASE UNCHANGED tvars
    BY <1>2, <2>1 DEF SeekPointTrue, tvars
  <2>2. CASE OnDataArrival /\ ctl.pendingSeek = None
    <3> DEFINE tick == TickOf(IF ctl.io.init THEN ctl.index ELSE ctl.demuxer, ctl.io.at)
    <3>1. /\ out' = IF ctl.resolve # None THEN <<Media(tick), SeekPoint(ctl.resolve)>> ELSE <<Media(tick)>>
          /\ "paused" \notin lapses /\ ctl.resolve # None => ctl.resolve = tick
      BY <1>2, <2>2, GroupAnnounced
    <3>2. lapses' = lapses
      BY <2>2 DEF OnDataArrival
    <3> HIDE DEF tick
    <3>3. QED
      BY <3>1, <3>2 DEF SeekPointTrue, Media, SeekPoint
  <2>3. CASE TransmuxingNext /\ ~(OnDataArrival /\ ctl.pendingSeek = None)
    BY <2>3, OthersSilent DEF SeekPointTrue
  <2>4. QED
    BY <1>2, <2>1, <2>2, <2>3
<1>3. QED
  BY <1>1, <1>2, TransmuxingInvariant, PTL DEF TransmuxingSpec

\* However parts are opened, re-opened and sought in, the groups that reach the
\* player after a seek are those of the source from the keyframe of the last
\* seek on, in order and with the times of their part, and completion comes
\* after the last, unless a pending seek has been forgotten or a completion has
\* arrived in a pause.
THEOREM GroupsInOrder == TransmuxingSpec => InOrder
<1> DEFINE Step == Orderly' => \A i \in DOMAIN out' :
                     /\ out'[i].msg = "media" => out'[i].tick = expect
                     /\ out'[i].msg = "complete" => expect = Done
<1>1. ASSUME TInv, TransmuxingNext PROVE Step
  <2>1. lapses \subseteq lapses'
    BY <1>1 DEF TransmuxingNext, Data, Start, Stop, Pause, Resume, Destroy, Seek,
       OnInitChunkArrival, OnInitChunkUnsupported, OnDataArrival, OnIOComplete, OnIOException
  <2>2. CASE OnDataArrival /\ ctl.pendingSeek = None
    <3> DEFINE tick == TickOf(IF ctl.io.init THEN ctl.index ELSE ctl.demuxer, ctl.io.at)
    <3>1. /\ out' = IF ctl.resolve # None THEN <<Media(tick), SeekPoint(ctl.resolve)>> ELSE <<Media(tick)>>
          /\ Orderly => expect = tick
      BY <1>1, <2>2, GroupAnnounced
    <3> HIDE DEF tick
    <3>2. QED
      BY <2>1, <3>1 DEF Media, SeekPoint, Orderly
  <2>3. CASE OnIOComplete
    <3>1. SUFFICES ASSUME Orderly', ~(ctl.io.part + 1 <= Parts) PROVE expect = Done
      BY <2>3 DEF OnIOComplete, Event
    <3>2. ctl.io.there /\ ctl.io.at = Len(Keyframes) + 1 /\ Orderly
      <4>1. ctl.io.state \in {"working", "paused"} /\ ctl.io.at \in 0 .. Len(Keyframes) + 1
        BY <1>1, <2>3, CtlTypes DEF OnIOComplete, TInv, TypeInv
      <4>2. ctl.io.there /\ Orderly
        BY <1>1, <2>1, <3>1, <4>1, StateThere DEF Orderly
      <4>3. ctl.io.at = Len(Keyframes) + 1 \/ "paused" \in lapses'
        BY <2>3, <4>1, Table DEF OnIOComplete
      <4>4. QED
        BY <3>1, <4>2, <4>3 DEF Orderly
    <3>3. expect = Following(ctl.index, Len(Keyframes) + 1) /\ ctl.io.part = ctl.index
          /\ ctl.index \in 1 .. Parts
      BY <1>1, <3>2, CtlTypes, Table DEF TInv, TypeInv, StepInv, Aligned, Placed
    <3>4. QED
      BY <3>1, <3>3, Table DEF Following
  <2>4. CASE ~(OnDataArrival /\ ctl.pendingSeek = None) /\ ~OnIOComplete
    <3>1. \A i \in DOMAIN out' : out'[i].msg # "media"
      BY <1>1, <2>4, OthersSilent
    <3>2. \A i \in DOMAIN out' : out'[i].msg # "complete"
      BY <1>1, <2>4 DEF TransmuxingNext, Data, Start, Stop, Pause, Resume, Destroy, Seek, Event,
         OnInitChunkArrival, OnInitChunkUnsupported, OnDataArrival, OnIOException
    <3>3. QED
      BY <3>1, <3>2
  <2>5. QED
    BY <2>2, <2>3, <2>4
<1>2. TInv /\ [TransmuxingNext]_tvars => [Step]_tvars
  BY <1>1
<1> HIDE DEF Step
<1>3. TransmuxingSpec => [][Step]_tvars
  BY <1>2, TransmuxingInvariant, PTL DEF TransmuxingSpec
<1>4. QED
  BY <1>3 DEF InOrder, Step

(***************************************************************************)
(* FlvPlayer.                                                              *)
(***************************************************************************)

\* The commands, and the events with the places they tell of.
Commands ==
  {<<"start", None>>, <<"pause", None>>, <<"resume", None>>} \cup {<<"seek", t>> : t \in Ticks}

Events ==
  [msg: {"mediainfo", "init", "demux_error", "io_error", "complete"}, tick: {None}]
    \cup [msg: {"media"}, tick: Starts] \cup [msg: {"seekpoint"}, tick: Ticks]

Players ==
  [attached: BOOLEAN, sourceOpened: BOOLEAN, pendingLoad: BOOLEAN, transmuxer: BOOLEAN,
   checker: BOOLEAN, requestSetTime: BOOLEAN, record: Ticks \cup {None},
   pendingSeek: Ticks \cup {None}, loads: Nat, seeks: Nat]

\* Places that a group covers.
Loadable == {u \in Ticks : \E k \in Starts : k <= u}

Elements ==
  [now: Ticks, seekings: 0 .. MaxEvents, ready: BOOLEAN, start: BOOLEAN,
   buffered: SUBSET Loadable]

PlayerTypes ==
  /\ player \in Players /\ element \in Elements /\ setting \in Settings
  /\ cmds \in Seq(Commands) /\ evts \in Seq(Events)

\* Without a transmuxer nothing is on its way, and the controller is a new one;
\* it is made for an element, when its source is open.
LinkInv ==
  /\ player.transmuxer => player.attached /\ player.sourceOpened
  /\ ~player.transmuxer => cmds = <<>> /\ evts = <<>> /\ ctl.life = "new" /\ element.buffered = {}
  /\ element.ready => player.sourceOpened

\* The flag is not left up without an element either.
FlagInv ==
  player.requestSetTime /\ "flag" \notin faults =>
    player.attached /\ (element.seekings > 0 \/ element.start)

\* A suspension is only asked for when something has been read.
ReadInv ==
  \/ ctl.infos # {}
  \/ /\ ctl.io.state # "paused" /\ element.buffered = {}
     /\ \A i \in DOMAIN cmds : cmds[i][1] # "pause"
     /\ \A i \in DOMAIN evts : evts[i].msg # "media"

GoesOn(c) == c[1] \in {"resume", "seek"}

\* While no check of the progress runs, a command to go on follows each
\* suspension that is on its way, and one is on its way to a controller that is
\* suspended, unless a seek waits for the part at whose head that is.
ResumeInv ==
  media.indexed /\ player.transmuxer /\ ~player.checker =>
    /\ \A i \in DOMAIN cmds : cmds[i][1] = "pause" => \E j \in DOMAIN cmds : j > i /\ GoesOn(cmds[j])
    /\ ctl.io.state = "paused" /\ ~Waiting => \E j \in DOMAIN cmds : GoesOn(cmds[j])

PInv == PlayerTypes /\ LinkInv /\ FlagInv /\ ReadInv /\ ResumeInv

IInv == TInv /\ PInv

-----------------------------------------------------------------------------
(* Data. *)

\* A queue that is longer by a command, and one whose head has been taken.
LEMMA Pushed ==
  ASSUME NEW S, NEW s \in Seq(S), NEW c \in S
  PROVE  /\ s \o <<c>> \in Seq(S) /\ Len(s \o <<c>>) = Len(s) + 1
         /\ (s \o <<c>>)[Len(s) + 1] = c
         /\ \A i \in DOMAIN s : i \in DOMAIN (s \o <<c>>) /\ (s \o <<c>>)[i] = s[i]
         /\ DOMAIN (s \o <<c>>) = DOMAIN s \cup {Len(s) + 1}
OBVIOUS

\* Nothing added.
LEMMA Unpushed == ASSUME NEW S, NEW s \in Seq(S) PROVE s \o <<>> = s
OBVIOUS

\* A queue whose head has been taken.
LEMMA Popped ==
  ASSUME NEW S, NEW s \in Seq(S), s # <<>>
  PROVE  /\ Tail(s) \in Seq(S) /\ Head(s) = s[1] /\ s[1] \in S /\ 1 \in DOMAIN s
         /\ \A i \in DOMAIN Tail(s) : i + 1 \in DOMAIN s /\ Tail(s)[i] = s[i + 1]
         /\ \A i \in DOMAIN s : i # 1 => i - 1 \in DOMAIN Tail(s) /\ Tail(s)[i - 1] = s[i]
OBVIOUS

\* Keyframes and buffered places are ticks.
LEMMA PlacesAreTicks ==
  /\ Starts \subseteq Ticks /\ Loadable \subseteq Ticks /\ Ticks \subseteq Nat \ {0}
  /\ 1 \in Ticks /\ MaxEvents \in Nat /\ Parts * PartLength \in Nat
<1>1. Starts \subseteq Ticks
  BY KeyframeIsTick DEF Starts
<1>2. 1 \in Ticks
  <2>1. Base(1) \in Nat /\ Base(1) + PartLength <= Parts * PartLength /\ PartLength \in Nat \ {0}
        /\ Parts * PartLength \in Nat
    BY PartInSource, Table
  <2>2. QED
    BY <2>1 DEF Ticks
<1>3. QED
  BY <1>1, <1>2, TicksAreNat, Table, PlayerAssumption DEF Loadable

\* What a group covers can be loaded.
LEMMA GroupLoadable == ASSUME NEW k \in Starts PROVE Covers(k) \subseteq Loadable
BY PlacesAreTicks DEF Covers, Loadable

\* A nonempty set of ticks has a least one.
LEMMA MinTick ==
  ASSUME NEW S, S \subseteq Ticks, S # {}
  PROVE  Min(S) \in S
BY PlacesAreTicks, MinNat

\* A nonempty bounded set of naturals has a greatest element.
LEMMA GreatestNat ==
  ASSUME NEW n \in Nat, NEW S, S \subseteq 0 .. n, S # {}
  PROVE  Max(S) \in S /\ \A v \in S : v <= Max(S)
<1> DEFINE T == {n - u : u \in S}
<1>1. \A u \in S : u \in Nat /\ u <= n
  OBVIOUS
<1>2. T \subseteq Nat /\ T # {}
  <2>1. \A u \in S : n - u \in Nat
    BY <1>1
  <2>2. QED
    BY <2>1
<1>3. PICK x \in T : \A y \in T : x <= y
  BY <1>2, LeastNat
<1>4. PICK u \in S : x = n - u
  BY <1>3
<1>5. ASSUME NEW v \in S PROVE v <= u
  <2>1. n - v \in T
    OBVIOUS
  <2>2. n - u <= n - v
    BY <1>3, <1>4, <2>1
  <2> HIDE DEF T
  <2>3. QED
    BY <1>1, <2>2
<1>6. Max(S) = u
  BY <1>1, <1>5, MaxNat
<1>7. QED
  BY <1>5, <1>6

\* So has a nonempty set of ticks.
LEMMA MaxTick ==
  ASSUME NEW S, S \subseteq Ticks, S # {}
  PROVE  Max(S) \in S /\ \A v \in S : v <= Max(S)
<1>1. Parts * PartLength \in Nat /\ S \subseteq 0 .. Parts * PartLength
  BY PlacesAreTicks DEF Ticks
<1>2. QED
  BY <1>1, GreatestNat

\* The keyframe of a buffered place is a tick.
LEMMA IdrIsTick == ASSUME NEW tick \in Loadable PROVE Idr(tick) \in Ticks
<1>1. {k \in Starts : k <= tick} # {} /\ {k \in Starts : k <= tick} \subseteq Ticks
  BY PlacesAreTicks DEF Loadable
<1>2. QED
  BY <1>1, MaxTick DEF Idr

-----------------------------------------------------------------------------
(* The parts of the handlers. *)

\* What a handler has made of the player, the element and the commands, where it
\* has left the links between them alone.
Situations == [q: Players, e: Elements, cmds: Seq(Commands)]

Links(s) ==
  /\ s \in Situations
  /\ s.q.attached = player.attached /\ s.q.transmuxer = player.transmuxer
  /\ player.sourceOpened => s.q.sourceOpened
  /\ s.e.ready => player.sourceOpened

Answered(e) == e.seekings > 0 \/ e.start

\* Before there is metadata, a flag that no event answers is noted.
Expected(e) == Answered(e) \/ ~e.ready

\* Setting the position: its event is to come.
LEMMA SetTimeLeaves ==
  ASSUME NEW s, Links(s), NEW tick \in Ticks, s.e.ready => s.e.seekings < MaxEvents
  PROVE  LET t == SetTime(s, tick)
         IN  /\ Links(t) /\ t.cmds = s.cmds /\ Expected(t.e)
             /\ t.q.checker = s.q.checker /\ t.e.buffered = s.e.buffered
             /\ t.q.loads = s.q.loads
<1> DEFINE n == IF s.e.ready THEN s.e.seekings + 1 ELSE s.e.seekings
           q == [s.q EXCEPT !.requestSetTime = TRUE]
           b == ~s.e.ready /\ tick # 1
           e == [s.e EXCEPT !.now = tick, !.seekings = n, !.start = b]
<1>1. s.q \in Players /\ s.e \in Elements /\ s.cmds \in Seq(Commands) /\ s \in Situations
  BY DEF Links, Situations
<1>2. /\ s.e.seekings \in 0 .. MaxEvents /\ s.e.ready \in BOOLEAN /\ MaxEvents \in Nat
  BY <1>1, PlacesAreTicks DEF Elements
<1>3. n \in 0 .. MaxEvents /\ (s.e.ready => n > 0) /\ b \in BOOLEAN
  BY <1>2
<1>4. SetTime(s, tick) = [s EXCEPT !.q = q, !.e = e]
  BY <1>1 DEF SetTime, Situations, Players, Elements
<1> HIDE DEF n, b
<1>5. /\ q \in Players /\ q.attached = s.q.attached /\ q.transmuxer = s.q.transmuxer
      /\ q.sourceOpened = s.q.sourceOpened /\ q.checker = s.q.checker /\ q.loads = s.q.loads
  BY <1>1 DEF Players
<1>6. /\ e \in Elements /\ e.ready = s.e.ready /\ e.buffered = s.e.buffered
      /\ e.seekings = n
  BY <1>1, <1>2, <1>3 DEF Elements
<1> HIDE DEF q, e
<1>7. QED
  BY <1>1, <1>2, <1>3, <1>4, <1>5, <1>6 DEF Links, Situations, Answered, Expected

\* Checking the progress: nothing, or a resumption that ends the check.
LEMMA CheckLeaves ==
  ASSUME NEW s, Links(s), s.cmds = <<>>
  PROVE  LET t == CheckProgress(s)
         IN  \/ t = s
             \/ /\ Links(t) /\ t.cmds = <<<<"resume", None>>>> /\ t.e = s.e
                /\ t.q = [s.q EXCEPT !.checker = FALSE] /\ s.e.buffered # {}
<1>1. s \in Situations /\ s.q \in Players
  BY DEF Links, Situations
<1> DEFINE q == [s.q EXCEPT !.checker = FALSE]
           c == <<<<"resume", None>>>>
<1>2. CheckProgress(s) # s =>
        CheckProgress(s) = [s EXCEPT !.q = q, !.cmds = c] /\ s.e.buffered # {}
  <2>1. Append(s.cmds, <<"resume", None>>) = c
    OBVIOUS
  <2>2. [s EXCEPT !.cmds = Append(@, <<"resume", None>>), !.q.checker = FALSE]
          = [s EXCEPT !.q = q, !.cmds = c]
    BY <1>1, <2>1 DEF Situations, Players
  <2>3. QED
    BY <2>2, Zenon DEF CheckProgress
<1>3. q \in Players /\ q.attached = s.q.attached /\ q.transmuxer = s.q.transmuxer
      /\ q.sourceOpened = s.q.sourceOpened
  BY <1>1 DEF Players
<1>4. c \in Seq(Commands)
  BY DEF Commands
<1> HIDE DEF q, c
<1>5. QED
  BY <1>1, <1>2, <1>3, <1>4 DEF Links, Situations, q, c

\* Suspending: nothing, or a pause and a check of the progress.
LEMMA SuspendLeaves ==
  ASSUME NEW s, Links(s), s.cmds = <<>>
  PROVE  LET t == Suspend(s)
         IN  \/ t = s
             \/ /\ Links(t) /\ t.cmds = <<<<"pause", None>>>> /\ t.e = s.e
                /\ t.q = [s.q EXCEPT !.checker = TRUE] /\ s.q.transmuxer
<1>1. s \in Situations /\ s.q \in Players
  BY DEF Links, Situations
<1> DEFINE q == [s.q EXCEPT !.checker = TRUE]
           c == <<<<"pause", None>>>>
<1>2. Suspend(s) # s => Suspend(s) = [s EXCEPT !.q = q, !.cmds = c] /\ s.q.transmuxer
  <2>1. Append(s.cmds, <<"pause", None>>) = c
    OBVIOUS
  <2>2. [s EXCEPT !.cmds = Append(@, <<"pause", None>>), !.q.checker = TRUE]
          = [s EXCEPT !.q = q, !.cmds = c]
    BY <1>1, <2>1 DEF Situations, Players
  <2>3. QED
    BY <2>2, Zenon DEF Suspend
<1>3. q \in Players /\ q.attached = s.q.attached /\ q.transmuxer = s.q.transmuxer
      /\ q.sourceOpened = s.q.sourceOpened
  BY <1>1 DEF Players
<1>4. c \in Seq(Commands)
  BY DEF Commands
<1> HIDE DEF q, c
<1>5. QED
  BY <1>1, <1>2, <1>3, <1>4 DEF Links, Situations, q, c

\* Seeking where nothing is buffered: the controller will go on.
LEMMA UnbufferedSeekLeaves ==
  ASSUME NEW s, Links(s), s.cmds = <<>>, NEW tick \in Ticks,
         s.e.ready => s.e.seekings < MaxEvents
  PROVE  LET t == UnbufferedSeek(s, tick)
         IN  /\ Links(t) /\ t.cmds = <<<<"seek", tick>>>> /\ ~t.q.checker /\ t.e.buffered = {}
             /\ \/ t.q.requestSetTime = s.q.requestSetTime /\ (Expected(s.e) => Expected(t.e))
                \/ Expected(t.e)
<1> DEFINE q == [s.q EXCEPT !.checker = FALSE]
           e == [s.e EXCEPT !.buffered = {}]
           c == <<<<"seek", tick>>>>
           u == [s EXCEPT !.q = q, !.e = e, !.cmds = c]
<1>1. s \in Situations /\ s.q \in Players /\ s.e \in Elements
  BY DEF Links, Situations
<1>2. UnbufferedSeek(s, tick) = IF setting.accurateSeek THEN SetTime(u, tick) ELSE u
  BY <1>1 DEF UnbufferedSeek, Situations, Players, Elements
<1>3. q \in Players /\ q.attached = s.q.attached /\ q.transmuxer = s.q.transmuxer
      /\ q.sourceOpened = s.q.sourceOpened /\ ~q.checker /\ q.requestSetTime = s.q.requestSetTime
  BY <1>1 DEF Players
<1>4. c \in Seq(Commands)
  BY DEF Commands
<1>5. e \in Elements /\ e.ready = s.e.ready /\ e.seekings = s.e.seekings /\ e.start = s.e.start
      /\ e.buffered = {}
  BY <1>1 DEF Elements
<1> HIDE DEF q, e, c
<1>6. Links(u) /\ u.q = q /\ u.e = e /\ u.cmds = c
  BY <1>1, <1>3, <1>4, <1>5 DEF Links, Situations
<1> HIDE DEF u
<1>7. LET t == SetTime(u, tick)
      IN  /\ Links(t) /\ t.cmds = u.cmds /\ Expected(t.e)
          /\ t.q.checker = u.q.checker /\ t.e.buffered = u.e.buffered
  BY <1>5, <1>6, SetTimeLeaves
<1>8. QED
  BY <1>2, <1>3, <1>5, <1>6, <1>7 DEF Answered, Expected, c

\* Such a result keeps the invariant if it agrees with what is known of the flag,
\* of what has been read, and of the going on of the controller.
Moves == {<<>>} \cup {<<x>> : x \in Commands}

Fits(t) ==
  /\ Links(t) /\ t.cmds \in Moves
  /\ ~player.transmuxer => t.cmds = <<>> /\ t.e.buffered = {}
  /\ t.q.requestSetTime /\ "flag" \notin faults => t.q.attached /\ Expected(t.e)
  /\ ctl.infos = {} => t.e.buffered = {} /\ t.cmds # <<<<"pause", None>>>>
  /\ player.transmuxer /\ ~t.q.checker =>
       \/ ~player.checker /\ t.cmds = <<>>
       \/ \E x \in Commands : t.cmds = <<x>> /\ GoesOn(x)

\* A step that leaves the controller still keeps its invariant.
LEMMA StillTInv == ASSUME TInv, Still PROVE TInv'
BY DEF Still, TInv, TypeInv, StepInv, Orderly

\* A result that fits keeps the invariant.
LEMMA Kept ==
  ASSUME IInv, NEW t, Fits(t), player' = t.q, element' = t.e, cmds' = cmds \o t.cmds,
         \/ evts' = evts
         \/ evts # <<>> /\ evts' = Tail(evts),
         Still, UNCHANGED setting, faults \subseteq faults',
         t.q.requestSetTime /\ "flag" \notin faults' => Answered(t.e)
  PROVE  IInv'
<1>1. PlayerTypes /\ LinkInv /\ FlagInv /\ ReadInv /\ ResumeInv /\ TInv /\ cmds \in Seq(Commands)
      /\ evts \in Seq(Events)
  BY DEF IInv, PInv, PlayerTypes
<1>2. TInv'
  BY <1>1, StillTInv
<1>3. /\ evts' \in Seq(Events) /\ (evts = <<>> => evts' = <<>>)
      /\ \A i \in DOMAIN evts' : \E j \in DOMAIN evts : evts'[i] = evts[j]
  <2>1. CASE evts' = evts
    BY <1>1, <2>1
  <2>2. CASE evts # <<>> /\ evts' = Tail(evts)
    <3>1. /\ Tail(evts) \in Seq(Events)
          /\ \A i \in DOMAIN Tail(evts) : i + 1 \in DOMAIN evts /\ Tail(evts)[i] = evts[i + 1]
      BY <1>1, <2>2, Popped
    <3>2. QED
      BY <2>2, <3>1
  <2>3. QED
    BY <2>1, <2>2
<1>4. /\ cmds' \in Seq(Commands)
      /\ t.cmds = <<>> => cmds' = cmds
      /\ \A i \in DOMAIN cmds : i \in DOMAIN cmds' /\ cmds'[i] = cmds[i]
      /\ \A x \in Commands : t.cmds = <<x>> =>
           /\ Len(cmds) + 1 \in DOMAIN cmds' /\ cmds'[Len(cmds) + 1] = x
           /\ DOMAIN cmds' = DOMAIN cmds \cup {Len(cmds) + 1}
  <2>1. CASE t.cmds = <<>>
    <3>1. cmds' = cmds
      BY <2>1, <1>1, Unpushed
    <3>2. QED
      BY <2>1, <3>1, <1>1
  <2>2. CASE t.cmds # <<>>
    <3>1. PICK x \in Commands : t.cmds = <<x>>
      BY <2>2 DEF Fits, Moves
    <3>2. \A y \in Commands : t.cmds = <<y>> => y = x
      BY <3>1
    <3>3. QED
      BY <2>2, <3>1, <3>2, <1>1, Pushed
  <2>3. QED
    BY <2>1, <2>2
<1>5. PlayerTypes'
  BY <1>1, <1>3, <1>4 DEF PlayerTypes, Fits, Links, Situations
<1>6. LinkInv'
  BY <1>1, <1>3, <1>4 DEF LinkInv, Fits, Links, Still
<1>7. FlagInv'
  BY DEF FlagInv, Fits, Answered
<1>8. ReadInv'
  <2>1. CASE ctl.infos # {}
    BY <2>1 DEF ReadInv, Still
  <2>2. CASE ctl.infos = {}
    <3>1. /\ ctl'.io.state # "paused" /\ element'.buffered = {}
          /\ \A i \in DOMAIN evts' : evts'[i].msg # "media"
      BY <1>1, <1>3, <2>2 DEF ReadInv, Still, Fits
    <3>2. ASSUME NEW i \in DOMAIN cmds' PROVE cmds'[i][1] # "pause"
      <4>1. CASE i \in DOMAIN cmds
        BY <1>1, <1>4, <2>2, <4>1 DEF ReadInv
      <4>2. CASE i \notin DOMAIN cmds
        <5>1. PICK x \in Commands : t.cmds = <<x>>
          BY <1>4, <4>2 DEF Fits, Moves
        <5>2. x # <<"pause", None>>
          BY <5>1, <2>2 DEF Fits
        <5>3. x[1] # "pause"
          BY <5>2 DEF Commands
        <5>4. QED
          BY <1>4, <4>2, <5>1, <5>3
      <4>3. QED
        BY <4>1, <4>2
    <3>3. QED
      BY <3>1, <3>2 DEF ReadInv
  <2>3. QED
    BY <2>1, <2>2
<1>9. ResumeInv'
  <2> SUFFICES ASSUME media'.indexed, player'.transmuxer, ~player'.checker
               PROVE  /\ \A i \in DOMAIN cmds' : cmds'[i][1] = "pause" =>
                            \E j \in DOMAIN cmds' : j > i /\ GoesOn(cmds'[j])
                      /\ ctl'.io.state = "paused" /\ ~Waiting' =>
                            \E j \in DOMAIN cmds' : GoesOn(cmds'[j])
    BY DEF ResumeInv
  <2>1. Waiting' = Waiting /\ ctl' = ctl /\ media' = media /\ player.transmuxer
    BY DEF Waiting, Still, Fits, Links
  <2>2. CASE ~player.checker /\ t.cmds = <<>>
    BY <1>1, <1>4, <2>1, <2>2 DEF ResumeInv
  <2>3. ASSUME NEW x \in Commands, t.cmds = <<x>>, GoesOn(x)
        PROVE  \A i \in DOMAIN cmds' : \/ i = Len(cmds) + 1 /\ GoesOn(cmds'[i])
                                       \/ Len(cmds) + 1 > i
    BY <1>1, <1>4, <2>3
  <2>4. CASE \E x \in Commands : t.cmds = <<x>> /\ GoesOn(x)
    BY <1>4, <2>3, <2>4 DEF GoesOn
  <2>5. QED
    BY <2>1, <2>2, <2>4 DEF Fits
<1>10. QED
  BY <1>2, <1>5, <1>6, <1>7, <1>8, <1>9 DEF IInv, PInv

-----------------------------------------------------------------------------
(* The parts of the handlers keep the invariant. *)

\* What has only changed the position, the seeking events and the flag.
Begins(s) ==
  /\ Links(s) /\ s.cmds = <<>>
  /\ s.e.buffered = element.buffered /\ s.q.checker = player.checker

Flagged(s) == s.q.requestSetTime /\ "flag" \notin faults => s.q.attached /\ Expected(s.e)

\* No command is a move, and not a suspension.
LEMMA NoCommand == <<>> \in Moves /\ <<>> # <<<<"pause", None>>>>
BY DEF Moves

\* One command is a move.
LEMMA OneCommand ==
  ASSUME NEW x \in Commands
  PROVE  <<x>> \in Moves /\ \A y \in Commands : <<x>> = <<y>> => x = y
BY DEF Moves

\* A result that says nothing fits.
LEMMA BeginsFits == ASSUME IInv, NEW s, Begins(s), Flagged(s) PROVE Fits(s)
BY NoCommand DEF IInv, PInv, LinkInv, ReadInv, Begins, Flagged, Fits

\* Setting the position is such a result.
LEMMA SetTimeBegins ==
  ASSUME NEW s, Begins(s), player.attached, NEW tick \in Ticks,
         s.e.ready => s.e.seekings < MaxEvents
  PROVE  Begins(SetTime(s, tick)) /\ Flagged(SetTime(s, tick))
BY SetTimeLeaves DEF Begins, Flagged, Links

\* A check of the progress fits: it resumes only what there is.
LEMMA CheckFits == ASSUME IInv, NEW s, Begins(s), Flagged(s) PROVE Fits(CheckProgress(s))
<1> DEFINE t == CheckProgress(s)
<1>1. Links(s) /\ s.cmds = <<>>
  BY DEF Begins
<1>2. \/ t = s
      \/ /\ Links(t) /\ t.cmds = <<<<"resume", None>>>> /\ t.e = s.e
         /\ t.q = [s.q EXCEPT !.checker = FALSE] /\ s.e.buffered # {}
  BY <1>1, CheckLeaves
<1>6. SUFFICES Fits(t)
  OBVIOUS
<1> HIDE DEF t
<1>3. CASE t = s
  BY <1>3, BeginsFits
<1>4. CASE /\ Links(t) /\ t.cmds = <<<<"resume", None>>>> /\ t.e = s.e
           /\ t.q = [s.q EXCEPT !.checker = FALSE] /\ s.e.buffered # {}
  <2>1. s.q \in Players
    BY <1>1 DEF Links, Situations
  <2>2. t.q.attached = s.q.attached /\ t.q.requestSetTime = s.q.requestSetTime
    BY <1>4, <2>1 DEF Players
  <2>3. player.transmuxer /\ ctl.infos # {}
    BY <1>4 DEF Begins, IInv, PInv, LinkInv, ReadInv
  <2>4. <<"resume", None>> \in Commands /\ GoesOn(<<"resume", None>>)
    BY DEF Commands, GoesOn
  <2>5. QED
    BY <1>4, <2>2, <2>3, <2>4, OneCommand DEF Fits, Flagged
<1>5. QED
  BY <1>2, <1>3, <1>4

\* So does a check that is only made if one is running.
LEMMA CheckedFits == ASSUME IInv, NEW s, Begins(s), Flagged(s) PROVE Fits(Checked(s))
BY CheckFits, BeginsFits DEF Checked

\* A suspension may come with what has just been buffered.
LEMMA SuspendFits ==
  ASSUME IInv, NEW s, Links(s), s.cmds = <<>>, Flagged(s), s.q.checker = player.checker,
         ctl.infos # {}, player.transmuxer \/ s.e.buffered = {}
  PROVE  Fits(Suspend(s))
<1> DEFINE t == Suspend(s)
<1>1. \/ t = s
      \/ /\ Links(t) /\ t.cmds = <<<<"pause", None>>>> /\ t.e = s.e
         /\ t.q = [s.q EXCEPT !.checker = TRUE] /\ s.q.transmuxer
  BY SuspendLeaves
<1>5. SUFFICES Fits(t)
  OBVIOUS
<1> HIDE DEF t
<1>2. CASE t = s
  BY <1>2, NoCommand DEF Fits, Flagged
<1>3. CASE /\ Links(t) /\ t.cmds = <<<<"pause", None>>>> /\ t.e = s.e
           /\ t.q = [s.q EXCEPT !.checker = TRUE] /\ s.q.transmuxer
  <2>1. s.q \in Players /\ player.transmuxer
    BY <1>3 DEF Links, Situations
  <2>2. /\ t.q.attached = s.q.attached /\ t.q.requestSetTime = s.q.requestSetTime
        /\ t.q.checker
    BY <1>3, <2>1 DEF Players
  <2>3. <<"pause", None>> \in Commands
    BY DEF Commands
  <2>4. QED
    BY <1>3, <2>1, <2>2, <2>3, OneCommand DEF Fits, Flagged
<1>4. QED
  BY <1>1, <1>2, <1>3

\* A seek to an unbuffered place fits: the controller will go on.
LEMMA UnbufferedSeekFits ==
  ASSUME IInv, NEW s, Begins(s), Flagged(s), player.transmuxer, NEW tick \in Ticks,
         s.e.ready => s.e.seekings < MaxEvents
  PROVE  Fits(UnbufferedSeek(s, tick))
<1> DEFINE t == UnbufferedSeek(s, tick)
<1>1. /\ Links(t) /\ t.cmds = <<<<"seek", tick>>>> /\ ~t.q.checker /\ t.e.buffered = {}
      /\ \/ t.q.requestSetTime = s.q.requestSetTime /\ (Expected(s.e) => Expected(t.e))
         \/ Expected(t.e)
  BY UnbufferedSeekLeaves DEF Begins
<1> HIDE DEF t
<1>2. player.attached
  BY DEF IInv, PInv, LinkInv
<1>3. <<"seek", tick>> \in Commands /\ GoesOn(<<"seek", tick>>) /\ <<"seek", tick>> # <<"pause", None>>
  BY DEF Commands, GoesOn
<1>4. <<"pause", None>> \in Commands
  BY DEF Commands
<1>5. QED
  BY <1>1, <1>2, <1>3, <1>4, OneCommand DEF Fits, Flagged, Links, t

\* The state itself, and with one seek more.
LEMMA StateBegins == ASSUME IInv PROVE Begins(State) /\ Flagged(State)
<1>1. player \in Players /\ element \in Elements /\ (element.ready => player.sourceOpened)
  BY DEF IInv, PInv, PlayerTypes, LinkInv
<1>2. State \in Situations
  BY <1>1 DEF State, Situations
<1>3. State.q = player /\ State.e = element /\ State.cmds = <<>>
  BY DEF State
<1>4. QED
  BY <1>1, <1>2, <1>3 DEF Begins, Flagged, Links, IInv, PInv, FlagInv, Answered, Expected

\* The state with one seek more.
LEMMA CountedBegins ==
  ASSUME IInv
  PROVE  LET s == [State EXCEPT !.q.seeks = @ + 1]
         IN  Begins(s) /\ Flagged(s) /\ s.e = element
<1> DEFINE q == [player EXCEPT !.seeks = @ + 1]
           s == [State EXCEPT !.q.seeks = @ + 1]
<1>1. player \in Players /\ State \in Situations /\ Begins(State) /\ Flagged(State)
  BY StateBegins DEF Begins, Links, IInv, PInv, PlayerTypes
<1>2. State.q = player /\ State.e = element /\ State.cmds = <<>>
  BY DEF State
<1>3. s.q = q /\ s.e = element /\ s.cmds = <<>> /\ s = [State EXCEPT !.q = q]
  BY <1>1, <1>2 DEF Situations
<1>4. /\ q \in Players /\ q.attached = player.attached /\ q.transmuxer = player.transmuxer
      /\ q.sourceOpened = player.sourceOpened /\ q.checker = player.checker
      /\ q.requestSetTime = player.requestSetTime
  BY <1>1 DEF Players
<1> HIDE DEF q
<1>5. s \in Situations
  BY <1>1, <1>3, <1>4 DEF Situations
<1> HIDE DEF s
<1>6. Begins(s) /\ Flagged(s) /\ s.e = element
  BY <1>1, <1>2, <1>3, <1>4, <1>5 DEF Begins, Flagged, Links
<1>7. QED
  BY <1>6 DEF s

-----------------------------------------------------------------------------
(* The handlers keep the invariant. *)

\* The positions a handler may go to are ticks.
LEMMA Positions ==
  ASSUME IInv
  PROVE  /\ element.now \in Ticks /\ element.buffered \subseteq Ticks
         /\ element.buffered # {} => Min(element.buffered) \in Ticks
         /\ \A u \in element.buffered : Idr(u) \in Ticks
         /\ element.seekings \in 0 .. MaxEvents /\ MaxEvents \in Nat
<1>1. /\ element.now \in Ticks /\ element.buffered \subseteq Loadable
      /\ element.seekings \in 0 .. MaxEvents
  BY DEF IInv, PInv, PlayerTypes, Elements
<1>2. QED
  BY <1>1, PlacesAreTicks, MinTick, IdrIsTick

\* A handler that becomes a result that fits.
LEMMA BecomesKept ==
  ASSUME IInv, NEW t, Fits(t), NEW noted, Becomes(t, noted), Still, UNCHANGED setting,
         \/ evts' = evts
         \/ evts # <<>> /\ evts' = Tail(evts)
  PROVE  IInv'
<1>1. t.q.requestSetTime /\ "flag" \notin faults' => Answered(t.e)
  BY DEF Becomes, Unanswered, Fits, Answered, Expected
<1>2. QED
  BY <1>1, Kept DEF Becomes

\* _internalSeek.
LEMMA InternalSeekKept == ASSUME IInv, NEW tick \in Ticks, InternalSeek(tick) PROVE IInv'
<1> DEFINE s == [State EXCEPT !.q.seeks = @ + 1]
           t == CASE AtBegin(s, tick) -> SetTime(s, Min(s.e.buffered))
                  [] ~AtBegin(s, tick) /\ tick \in s.e.buffered ->
                       Checked(SetTime(s, IF setting.alwaysSeekKeyframe THEN Idr(tick) ELSE tick))
                  [] OTHER -> UnbufferedSeek(s, tick)
<1>1. Begins(s) /\ Flagged(s) /\ s.e = element
  BY CountedBegins
<1>2. Becomes(t, {}) /\ Still /\ UNCHANGED <<evts, setting>>
  BY DEF InternalSeek
<1>3. player.transmuxer /\ player.attached /\ element.seekings < MaxEvents
  BY DEF InternalSeek, IInv, PInv, LinkInv
<1> HIDE DEF s
<1>4. CASE AtBegin(s, tick)
  <2>1. t = SetTime(s, Min(s.e.buffered)) /\ Min(s.e.buffered) \in Ticks
    BY <1>1, <1>4, Positions DEF AtBegin
  <2>2. Fits(t)
    BY <1>1, <1>3, <2>1, SetTimeBegins, BeginsFits
  <2>3. QED
    BY <1>2, <2>2, BecomesKept
<1>5. CASE ~AtBegin(s, tick) /\ tick \in s.e.buffered
  <2> DEFINE to == IF setting.alwaysSeekKeyframe THEN Idr(tick) ELSE tick
  <2>1. t = Checked(SetTime(s, to)) /\ to \in Ticks
    BY <1>1, <1>5, Positions
  <2>2. Fits(t)
    BY <1>1, <1>3, <2>1, SetTimeBegins, CheckedFits
  <2>3. QED
    BY <1>2, <2>2, BecomesKept
<1>6. CASE ~AtBegin(s, tick) /\ tick \notin s.e.buffered
  <2>1. t = UnbufferedSeek(s, tick)
    BY <1>6
  <2>2. Fits(t)
    BY <1>1, <1>3, <2>1, UnbufferedSeekFits
  <2>3. QED
    BY <1>2, <2>2, BecomesKept
<1>7. QED
  BY <1>4, <1>5, <1>6

\* _onvSeeking.
LEMMA OnvSeekingKept == ASSUME IInv, OnvSeeking PROVE IInv'
<1> DEFINE s == [State EXCEPT !.e.seekings = @ - 1]
           e == [element EXCEPT !.seekings = @ - 1]
           tick == element.now
           t == CASE player.requestSetTime -> [s EXCEPT !.q.requestSetTime = FALSE]
                  [] ~player.requestSetTime /\ AtBegin(s, tick) -> SetTime(s, Min(s.e.buffered))
                  [] ~player.requestSetTime /\ ~AtBegin(s, tick) /\ tick \in s.e.buffered ->
                       Checked(IF setting.alwaysSeekKeyframe THEN SetTime(s, Idr(tick)) ELSE s)
                  [] OTHER -> [s EXCEPT !.q.record = tick]
<1>1. Becomes(t, {}) /\ Still /\ UNCHANGED <<evts, setting>> /\ player.attached
      /\ element.seekings > 0
  BY DEF OnvSeeking
<1>2. /\ State \in Situations /\ State.q = player /\ State.e = element /\ State.cmds = <<>>
      /\ player \in Players /\ element \in Elements /\ Begins(State)
  BY StateBegins DEF State, IInv, PInv, PlayerTypes, Begins, Links
<1>3. s.q = player /\ s.e = e /\ s.cmds = <<>> /\ s = [State EXCEPT !.e = e]
  BY <1>2 DEF Situations
<1>4. element.seekings - 1 \in 0 .. MaxEvents /\ element.seekings - 1 < MaxEvents
  BY <1>1, Positions
<1>5. /\ e \in Elements /\ e.ready = element.ready /\ e.seekings < MaxEvents
      /\ e.buffered = element.buffered
  BY <1>2, <1>4 DEF Elements
<1> HIDE DEF e
<1>6. s \in Situations
  BY <1>2, <1>3, <1>5 DEF Situations
<1> HIDE DEF s
<1>7. Begins(s) /\ s.e.seekings < MaxEvents /\ s.q = player /\ s.e.buffered = element.buffered
  BY <1>2, <1>3, <1>5, <1>6 DEF Begins, Links
<1>8. SUFFICES Fits(t)
  BY <1>1, BecomesKept
<1>9. CASE player.requestSetTime
  <2> DEFINE q == [player EXCEPT !.requestSetTime = FALSE]
  <2>1. t = [s EXCEPT !.q = q]
    BY <1>6, <1>7, <1>9 DEF Situations
  <2>2. /\ q \in Players /\ q.attached = player.attached /\ q.transmuxer = player.transmuxer
        /\ q.sourceOpened = player.sourceOpened /\ q.checker = player.checker
        /\ ~q.requestSetTime
    BY <1>2 DEF Players
  <2> HIDE DEF q
  <2>3. t \in Situations /\ t.q = q /\ t.e = s.e /\ t.cmds = s.cmds
    BY <1>6, <2>1, <2>2 DEF Situations
  <2> HIDE DEF t
  <2>4. Begins(t) /\ Flagged(t)
    BY <1>7, <2>2, <2>3 DEF Begins, Links, Flagged
  <2>5. QED
    BY <2>4, BeginsFits
<1>10. CASE ~player.requestSetTime /\ AtBegin(s, tick)
  <2>1. t = SetTime(s, Min(s.e.buffered)) /\ Min(s.e.buffered) \in Ticks
    BY <1>7, <1>10, Positions DEF AtBegin
  <2>2. QED
    BY <1>1, <1>7, <2>1, SetTimeBegins, BeginsFits
<1>11. CASE ~player.requestSetTime /\ ~AtBegin(s, tick) /\ tick \in s.e.buffered
  <2> DEFINE u == IF setting.alwaysSeekKeyframe THEN SetTime(s, Idr(tick)) ELSE s
  <2>1. t = Checked(u) /\ Idr(tick) \in Ticks
    BY <1>7, <1>11, Positions
  <2>2. Begins(u) /\ Flagged(u)
    BY <1>1, <1>7, <1>11, <2>1, SetTimeBegins DEF Flagged
  <2>3. QED
    BY <2>1, <2>2, CheckedFits
<1>12. CASE ~player.requestSetTime /\ ~AtBegin(s, tick) /\ tick \notin s.e.buffered
  <2> DEFINE q == [player EXCEPT !.record = tick]
  <2>1. t = [s EXCEPT !.q = q]
    BY <1>6, <1>7, <1>12 DEF Situations
  <2>2. /\ q \in Players /\ q.attached = player.attached /\ q.transmuxer = player.transmuxer
        /\ q.sourceOpened = player.sourceOpened /\ q.checker = player.checker
        /\ ~q.requestSetTime
    BY <1>2, <1>12, Positions DEF Players
  <2> HIDE DEF q
  <2>3. t \in Situations /\ t.q = q /\ t.e = s.e /\ t.cmds = s.cmds
    BY <1>6, <2>1, <2>2 DEF Situations
  <2> HIDE DEF t
  <2>4. Begins(t) /\ Flagged(t)
    BY <1>7, <2>2, <2>3 DEF Begins, Links, Flagged
  <2>5. QED
    BY <2>4, BeginsFits
<1>13. QED
  BY <1>9, <1>10, <1>11, <1>12

\* _checkAndApplyUnbufferedSeekpoint, with a transmuxer or without.
LEMMA ApplyUnbufferedSeekpointKept == ASSUME IInv, ApplyUnbufferedSeekpoint PROVE IInv'
<1> DEFINE s == [State EXCEPT !.q.record = None]
           q == [player EXCEPT !.record = None]
           t == CASE element.now \in element.buffered -> s
                  [] element.now \notin element.buffered /\ player.transmuxer
                       -> UnbufferedSeek(s, element.now)
                  [] OTHER -> [s EXCEPT !.q.checker = FALSE, !.e.buffered = {}]
<1>1. Becomes(t, {}) /\ Still /\ UNCHANGED <<evts, setting>> /\ player.attached
      /\ element.seekings < MaxEvents
  BY DEF ApplyUnbufferedSeekpoint
<1>2. /\ State \in Situations /\ State.q = player /\ State.e = element /\ State.cmds = <<>>
      /\ player \in Players /\ element \in Elements /\ Begins(State) /\ Flagged(State)
  BY StateBegins DEF State, IInv, PInv, PlayerTypes, Begins, Links
<1>3. s.q = q /\ s.e = element /\ s.cmds = <<>> /\ s = [State EXCEPT !.q = q]
  BY <1>2 DEF Situations
<1>4. /\ q \in Players /\ q.attached = player.attached /\ q.transmuxer = player.transmuxer
      /\ q.sourceOpened = player.sourceOpened /\ q.checker = player.checker
      /\ q.requestSetTime = player.requestSetTime
  BY <1>2 DEF Players, None
<1> HIDE DEF q
<1>5. s \in Situations
  BY <1>2, <1>3, <1>4 DEF Situations
<1> HIDE DEF s
<1>6. Begins(s) /\ Flagged(s) /\ s.e = element
  BY <1>2, <1>3, <1>4, <1>5 DEF Begins, Links, Flagged
<1>7. SUFFICES Fits(t)
  BY <1>1, BecomesKept
<1>8. CASE element.now \in element.buffered
  BY <1>6, <1>8, BeginsFits
<1>9. CASE element.now \notin element.buffered /\ player.transmuxer
  BY <1>1, <1>6, <1>9, UnbufferedSeekFits, Positions
<1>10. CASE element.now \notin element.buffered /\ ~player.transmuxer
  <2> DEFINE r == [q EXCEPT !.checker = FALSE]
             e == [element EXCEPT !.buffered = {}]
  <2>1. t = [s EXCEPT !.q = r, !.e = e]
    BY <1>3, <1>5, <1>10 DEF Situations
  <2>2. /\ r \in Players /\ r.attached = player.attached /\ r.transmuxer = player.transmuxer
        /\ r.sourceOpened = player.sourceOpened /\ r.requestSetTime = player.requestSetTime
    BY <1>4 DEF Players
  <2>3. /\ e \in Elements /\ e.ready = element.ready /\ e.seekings = element.seekings
        /\ e.start = element.start /\ e.buffered = {}
    BY <1>2 DEF Elements
  <2> HIDE DEF r, e
  <2>4. t \in Situations /\ t.q = r /\ t.e = e /\ t.cmds = <<>>
    BY <1>3, <1>5, <2>1, <2>2, <2>3 DEF Situations
  <2> HIDE DEF t
  <2>5. Links(t) /\ Flagged(t) /\ ~t.q.transmuxer
    BY <1>2, <1>10, <2>2, <2>3, <2>4 DEF Begins, Links, Flagged, Answered, Expected
  <2>6. QED
    BY <1>10, <2>3, <2>4, <2>5, NoCommand DEF Fits, Flagged
<1>11. QED
  BY <1>8, <1>9, <1>10

\* _checkProgressAndResume.
LEMMA ProgressTimerKept == ASSUME IInv, ProgressTimer PROVE IInv'
<1> DEFINE t == IF player.transmuxer THEN CheckProgress(State)
                ELSE [CheckProgress(State) EXCEPT !.cmds = <<>>]
<1>1. Becomes(t, {}) /\ Still /\ UNCHANGED <<evts, setting>>
  BY DEF ProgressTimer
<1>2. /\ State \in Situations /\ State.e = element /\ State.cmds = <<>>
      /\ Begins(State) /\ Flagged(State) /\ Links(State)
  BY StateBegins DEF State, Begins, Links
<1>3. SUFFICES Fits(t)
  BY <1>1, BecomesKept
<1>4. CASE player.transmuxer
  BY <1>2, <1>4, CheckFits
<1>5. CASE ~player.transmuxer
  <2>1. element.buffered = {}
    BY <1>5 DEF IInv, PInv, LinkInv
  <2>2. CheckProgress(State) = State
    BY <1>2, <2>1, CheckLeaves
  <2>3. [State EXCEPT !.cmds = <<>>] = State
    BY <1>2 DEF Situations
  <2>4. QED
    BY <1>2, <1>5, <2>2, <2>3, BeginsFits
<1>6. QED
  BY <1>4, <1>5

\* _onmseUpdateEnd.
LEMMA OnmseUpdateEndKept == ASSUME IInv, OnmseUpdateEnd PROVE IInv'
<1>1. /\ Becomes(Suspend(State), Overtaken(Suspend(State))) /\ Still /\ UNCHANGED <<evts, setting>>
      /\ element.buffered # {}
  BY DEF OnmseUpdateEnd
<1>2. Begins(State) /\ Flagged(State) /\ State.e = element
  BY StateBegins DEF State
<1>3. ctl.infos # {} /\ player.transmuxer
  BY <1>1 DEF IInv, PInv, LinkInv, ReadInv
<1>4. Fits(Suspend(State))
  BY <1>2, <1>3, SuspendFits DEF Begins
<1>5. QED
  BY <1>1, <1>4, BecomesKept

\* _checkAndResumeStuckPlayback.
LEMMA ResumeStuckPlaybackKept == ASSUME IInv, ResumeStuckPlayback PROVE IInv'
<1> DEFINE t == SetTime(State, Min(element.buffered))
<1>1. /\ Becomes(t, {}) /\ Still /\ UNCHANGED <<evts, setting>> /\ player.attached
      /\ element.buffered # {} /\ element.seekings < MaxEvents
  BY DEF ResumeStuckPlayback
<1>2. Begins(State) /\ State.e = element
  BY StateBegins DEF State
<1>3. Begins(t) /\ Flagged(t)
  BY <1>1, <1>2, SetTimeBegins, Positions
<1>4. QED
  BY <1>1, <1>3, BeginsFits, BecomesKept

\* A handler that sets the player and the element itself and says nothing.
LEMMA SilentKept ==
  ASSUME IInv, player' \in Players, element' \in Elements, UNCHANGED <<cmds, setting, faults>>,
         player'.attached = player.attached, player'.transmuxer = player.transmuxer,
         player'.checker = player.checker, player'.sourceOpened = player.sourceOpened,
         player'.requestSetTime = player.requestSetTime,
         element'.buffered = element.buffered, Answered(element) => Answered(element'),
         element'.ready => player.sourceOpened,
         \/ evts' = evts
         \/ evts # <<>> /\ evts' = Tail(evts),
         Still
  PROVE  IInv'
<1> DEFINE t == [q |-> player', e |-> element', cmds |-> <<>>]
<1>1. t \in Situations /\ t.q = player' /\ t.e = element' /\ t.cmds = <<>>
  BY DEF Situations
<1>2. cmds' = cmds \o t.cmds
  <2>1. cmds \in Seq(Commands)
    BY DEF IInv, PInv, PlayerTypes
  <2>2. QED
    BY <1>1, <2>1, Unpushed
<1> HIDE DEF t
<1>3. Begins(t) /\ Flagged(t)
  BY <1>1 DEF Begins, Links, Flagged, Answered, Expected, IInv, PInv, FlagInv
<1>4. Fits(t)
  BY <1>3, BeginsFits
<1>5. t.q.requestSetTime /\ "flag" \notin faults' => Answered(t.e)
  BY <1>1 DEF Answered, IInv, PInv, FlagInv
<1>6. QED
  BY <1>1, <1>2, <1>4, <1>5, Kept

\* A seek before there is an element.
LEMMA SeekUnattachedKept ==
  ASSUME IInv, NEW tick \in Ticks, SeekUnattached(tick) PROVE IInv'
<1>1. /\ player' = [player EXCEPT !.pendingSeek = tick, !.seeks = @ + 1]
      /\ Still /\ UNCHANGED <<element, cmds, evts, setting, faults>>
  BY DEF SeekUnattached
<1>2. player \in Players /\ element \in Elements /\ (element.ready => player.sourceOpened)
  BY DEF IInv, PInv, PlayerTypes, LinkInv
<1> DEFINE q == [player EXCEPT !.pendingSeek = tick, !.seeks = @ + 1]
<1>3. /\ q \in Players /\ q.attached = player.attached
      /\ q.transmuxer = player.transmuxer /\ q.checker = player.checker
      /\ q.sourceOpened = player.sourceOpened /\ q.requestSetTime = player.requestSetTime
  <2> DEFINE p == [player EXCEPT !.pendingSeek = tick]
  <2>1. p \in Players
    BY <1>2 DEF Players
  <2>2. q = [p EXCEPT !.seeks = player.seeks + 1] /\ player.seeks + 1 \in Nat
    BY <1>2 DEF Players
  <2>3. /\ p.attached = player.attached /\ p.transmuxer = player.transmuxer
        /\ p.checker = player.checker /\ p.sourceOpened = player.sourceOpened
        /\ p.requestSetTime = player.requestSetTime
    BY <1>2 DEF Players
  <2> HIDE DEF p, q
  <2>4. QED
    BY <2>1, <2>2, <2>3 DEF Players
<1> HIDE DEF q
<1>4. QED
  BY <1>1, <1>2, <1>3, SilentKept DEF q

\* A seek on the element's own controls.
LEMMA ProgressBarKept ==
  ASSUME IInv, NEW tick \in Ticks, ProgressBar(tick) PROVE IInv'
<1>1. /\ player' = [player EXCEPT !.seeks = @ + 1]
      /\ element' = [element EXCEPT !.now = tick, !.seekings = @ + 1]
      /\ Still /\ UNCHANGED <<cmds, evts, setting, faults>> /\ element.seekings < MaxEvents
  BY DEF ProgressBar
<1>2. player \in Players /\ element \in Elements /\ (element.ready => player.sourceOpened)
  BY DEF IInv, PInv, PlayerTypes, LinkInv
<1>3. /\ player' \in Players /\ player'.attached = player.attached
      /\ player'.transmuxer = player.transmuxer /\ player'.checker = player.checker
      /\ player'.sourceOpened = player.sourceOpened
      /\ player'.requestSetTime = player.requestSetTime
  BY <1>1, <1>2 DEF Players
<1>4. element.seekings + 1 \in 0 .. MaxEvents /\ element.seekings + 1 > 0
  BY <1>1, Positions
<1>5. /\ element' \in Elements /\ element'.ready = element.ready
      /\ element'.buffered = element.buffered /\ element'.seekings > 0
  BY <1>1, <1>2, <1>4 DEF Elements
<1>6. QED
  BY <1>1, <1>2, <1>3, <1>5, SilentKept DEF Answered

\* Playing on, within what is buffered.
LEMMA PlayKept == ASSUME IInv, Play PROVE IInv'
<1>1. /\ element' = [element EXCEPT !.now = @ + 1] /\ element.now + 1 \in element.buffered
      /\ Still /\ UNCHANGED <<player, cmds, evts, setting, faults>>
  BY DEF Play
<1>2. player \in Players /\ element \in Elements /\ (element.ready => player.sourceOpened)
  BY DEF IInv, PInv, PlayerTypes, LinkInv
<1>3. element.now + 1 \in Ticks
  BY <1>1, Positions
<1>4. /\ element' \in Elements /\ element'.ready = element.ready
      /\ element'.buffered = element.buffered /\ element'.seekings = element.seekings
      /\ element'.start = element.start
  BY <1>1, <1>2, <1>3 DEF Elements
<1>5. QED
  BY <1>1, <1>2, <1>4, SilentKept DEF Answered

\* What the player hears comes from a transmuxer.
LEMMA HearsFrom ==
  ASSUME IInv, NEW msg, Hears(msg)
  PROVE  /\ Head(evts) \in Events /\ Head(evts).msg = msg /\ evts # <<>> /\ evts' = Tail(evts)
         /\ Still /\ UNCHANGED setting
         /\ player.transmuxer /\ player.attached /\ player.sourceOpened
         /\ msg = "media" => ctl.infos # {}
<1>1. evts \in Seq(Events) /\ LinkInv /\ ReadInv
  BY DEF IInv, PInv, PlayerTypes
<1>2. /\ Head(evts).msg = msg /\ evts # <<>> /\ evts' = Tail(evts) /\ Still
      /\ UNCHANGED setting
  BY DEF Hears
<1>3. Head(evts) = evts[1] /\ evts[1] \in Events /\ 1 \in DOMAIN evts
  BY <1>1, <1>2, Popped
<1>4. QED
  BY <1>1, <1>2, <1>3 DEF LinkInv, ReadInv

\* The element gets its metadata.
LEMMA OnInitSegmentKept == ASSUME IInv, OnInitSegment PROVE IInv'
<1> DEFINE n == IF element.start THEN element.seekings + 1 ELSE element.seekings
<1>1. /\ evts # <<>> /\ evts' = Tail(evts) /\ Still /\ player.sourceOpened
      /\ UNCHANGED <<player, cmds, setting, faults>> /\ element.seekings < MaxEvents
      /\ element' = [element EXCEPT !.ready = TRUE, !.start = FALSE,
                                     !.seekings = IF element.start THEN @ + 1 ELSE @]
  BY HearsFrom DEF OnInitSegment
<1>2. player \in Players /\ element \in Elements
  BY DEF IInv, PInv, PlayerTypes
<1>3. n \in 0 .. MaxEvents /\ (element.seekings > 0 \/ element.start => n > 0)
  BY <1>1, Positions
<1>4. element' = [element EXCEPT !.ready = TRUE, !.start = FALSE, !.seekings = n]
  BY <1>1, <1>2 DEF Elements
<1> HIDE DEF n
<1>5. /\ element' \in Elements /\ element'.buffered = element.buffered /\ element'.seekings = n
  BY <1>2, <1>3, <1>4 DEF Elements
<1>6. QED
  BY <1>1, <1>2, <1>3, <1>5, SilentKept DEF Answered

\* Events that are passed on.
LEMMA OnOtherEventKept == ASSUME IInv, OnOtherEvent PROVE IInv'
<1>1. /\ evts # <<>> /\ evts' = Tail(evts) /\ Still
      /\ UNCHANGED <<player, element, cmds, setting, faults>>
  BY HearsFrom DEF OnOtherEvent
<1>2. player \in Players /\ element \in Elements /\ (element.ready => player.sourceOpened)
  BY DEF IInv, PInv, PlayerTypes, LinkInv
<1>3. QED
  BY <1>1, <1>2, SilentKept

\* The seek point is told.
LEMMA OnRecommendSeekpointKept == ASSUME IInv, OnRecommendSeekpoint PROVE IInv'
<1> DEFINE t == IF setting.accurateSeek THEN State ELSE SetTime(State, Head(evts).tick)
<1>1. /\ evts # <<>> /\ evts' = Tail(evts) /\ Still /\ UNCHANGED setting
      /\ Head(evts) \in Events /\ Head(evts).msg = "seekpoint" /\ player.attached
      /\ element.seekings < MaxEvents /\ Becomes(t, {})
  BY HearsFrom DEF OnRecommendSeekpoint
<1>2. Head(evts).tick \in Ticks
  BY <1>1 DEF Events
<1>3. Begins(State) /\ Flagged(State) /\ State.e = element
  BY StateBegins DEF State
<1>4. Begins(t) /\ Flagged(t)
  BY <1>1, <1>2, <1>3, SetTimeBegins
<1>5. Fits(t)
  BY <1>4, BeginsFits
<1>6. QED
  BY <1>1, <1>5, BecomesKept

\* A group is buffered, and may be enough.
LEMMA OnMediaSegmentKept == ASSUME IInv, OnMediaSegment PROVE IInv'
<1> DEFINE covers == Covers(Head(evts).tick)
           s == [State EXCEPT !.e.buffered = @ \cup covers]
           e == [element EXCEPT !.buffered = @ \cup covers]
<1>1. /\ evts # <<>> /\ evts' = Tail(evts) /\ Still /\ UNCHANGED setting
      /\ Head(evts) \in Events /\ Head(evts).msg = "media" /\ player.transmuxer
      /\ ctl.infos # {}
  BY HearsFrom DEF OnMediaSegment
<1> DEFINE far == Max(covers) + 1 >= element.now + LazyMax
<1>2. PICK full \in BOOLEAN :
        LET t == IF full \/ far THEN Suspend(s) ELSE s
        IN  Becomes(t, Overtaken(t) \cup (IF far THEN {} ELSE FullEarly(t)))
  BY DEF OnMediaSegment
<1> DEFINE t == IF full \/ far THEN Suspend(s) ELSE s
<1>3. Becomes(t, Overtaken(t) \cup (IF far THEN {} ELSE FullEarly(t)))
  BY <1>2
<1>4. covers \subseteq Loadable
  <2>1. Head(evts).tick \in Starts
    BY <1>1 DEF Events
  <2>2. QED
    BY <2>1, GroupLoadable
<1> HIDE DEF covers
<1>5. /\ State \in Situations /\ State.q = player /\ State.e = element /\ State.cmds = <<>>
      /\ element \in Elements /\ Begins(State) /\ Flagged(State)
  BY StateBegins DEF State, IInv, PInv, PlayerTypes, Begins, Links
<1>6. s.q = player /\ s.e = e /\ s.cmds = <<>> /\ s = [State EXCEPT !.e = e]
  BY <1>5 DEF Situations, Elements
<1>7. /\ e \in Elements /\ e.ready = element.ready /\ e.seekings = element.seekings
      /\ e.start = element.start
  BY <1>4, <1>5 DEF Elements
<1> HIDE DEF e
<1>8. s \in Situations
  BY <1>5, <1>6, <1>7 DEF Situations
<1> HIDE DEF s
<1>9. Links(s) /\ Flagged(s) /\ s.q = player /\ s.cmds = <<>>
  BY <1>5, <1>6, <1>7, <1>8 DEF Begins, Links, Flagged, Answered, Expected
<1>10. Fits(s)
  BY <1>1, <1>9, NoCommand DEF Fits, Flagged
<1>11. Fits(Suspend(s))
  BY <1>1, <1>9, SuspendFits
<1>12. Fits(t)
  BY <1>10, <1>11
<1>13. QED
  BY <1>1, <1>3, <1>12, BecomesKept

-----------------------------------------------------------------------------
(* Attaching, loading and unloading. *)

\* Without a transmuxer nothing is on its way and nothing has been read.
LEMMA Unloaded ==
  ASSUME IInv, ~player.transmuxer
  PROVE  /\ cmds = <<>> /\ evts = <<>> /\ element.buffered = {}
         /\ ctl.infos = {} /\ ctl.io.state # "paused"
BY DEF IInv, PInv, LinkInv, TInv, StepInv, Placed, NoIO

\* And it stays so.
LEMMA UnloadedKept ==
  ASSUME IInv, ~player.transmuxer, player' \in Players, element' \in Elements,
         ~player'.transmuxer, element'.buffered = {}, element'.ready => player'.sourceOpened,
         FlagInv', UNCHANGED <<cmds, evts, setting>>, Still
  PROVE  IInv'
<1>1. /\ cmds = <<>> /\ evts = <<>> /\ element.buffered = {}
      /\ ctl.infos = {} /\ ctl.io.state # "paused"
  BY Unloaded
<1>2. TInv' /\ ctl'.life = "new"
  BY StillTInv DEF IInv, PInv, LinkInv, Still
<1>3. PlayerTypes' /\ LinkInv'
  BY <1>1, <1>2 DEF PlayerTypes, LinkInv, IInv, PInv
<1>4. ReadInv' /\ ResumeInv'
  BY <1>1 DEF ReadInv, ResumeInv, Still
<1>5. QED
  BY <1>2, <1>3, <1>4 DEF IInv, PInv

\* attachMediaElement.
LEMMA AttachMediaElementKept == ASSUME IInv, AttachMediaElement PROVE IInv'
<1>1. /\ ~player.attached /\ ~player.transmuxer
      /\ player' = [player EXCEPT !.attached = TRUE, !.pendingSeek = None]
      /\ element' = IF player.pendingSeek = None THEN NewElement
                    ELSE [NewElement EXCEPT !.now = player.pendingSeek, !.start = player.pendingSeek # 1]
      /\ Still /\ UNCHANGED <<cmds, evts, setting, faults>>
  BY DEF AttachMediaElement
<1>2. player \in Players
  BY DEF IInv, PInv, PlayerTypes
<1>3. /\ player' \in Players /\ ~player'.transmuxer
      /\ player'.requestSetTime = player.requestSetTime
  BY <1>1, <1>2 DEF Players, None
<1>4. NewElement \in Elements
  BY PlacesAreTicks DEF NewElement, Elements
<1>5. element' \in Elements /\ element'.buffered = {} /\ ~element'.ready
  BY <1>1, <1>2, <1>4 DEF NewElement, Elements, Players
<1>6. FlagInv'
  BY <1>1, <1>3 DEF FlagInv, IInv, PInv
<1>7. QED
  BY <1>1, <1>3, <1>5, <1>6, UnloadedKept

\* detachMediaElement: a flag left up is noted.
LEMMA DetachMediaElementKept == ASSUME IInv, DetachMediaElement PROVE IInv'
<1>1. /\ ~player.transmuxer
      /\ player' = [player EXCEPT !.attached = FALSE]
      /\ element' = [element EXCEPT !.seekings = 0, !.ready = FALSE, !.start = FALSE,
                                     !.buffered = {}]
      /\ faults' = IF player.requestSetTime THEN faults \cup {"flag"} ELSE faults
      /\ Still /\ UNCHANGED <<cmds, evts, setting>>
  BY DEF DetachMediaElement
<1>2. player \in Players /\ element \in Elements
  BY DEF IInv, PInv, PlayerTypes
<1>3. /\ player' \in Players /\ ~player'.transmuxer
      /\ player'.requestSetTime = player.requestSetTime
  BY <1>1, <1>2 DEF Players
<1>4. element' \in Elements /\ element'.buffered = {} /\ ~element'.ready
  <2>1. 0 \in 0 .. MaxEvents /\ element.now \in Ticks
    BY <1>2, PlacesAreTicks DEF Elements
  <2>2. element' = [now |-> element.now, seekings |-> 0, ready |-> FALSE, start |-> FALSE,
                    buffered |-> {}]
    BY <1>1, <1>2 DEF Elements
  <2>3. QED
    BY <2>1, <2>2 DEF Elements
<1>5. FlagInv'
  BY <1>1, <1>3 DEF FlagInv
<1>6. QED
  BY <1>1, <1>3, <1>4, <1>5, UnloadedKept

\* Loading: the transmuxer is told to start.
LEMMA LoadedKept ==
  ASSUME IInv, NEW s, Begins(s), Flagged(s), ~player.transmuxer, player.attached,
         s.q.sourceOpened, s.e.ready => s.e.seekings < MaxEvents,
         Becomes(Loaded(s), {}), Still, UNCHANGED <<evts, setting>>
  PROVE  IInv'
<1> DEFINE r == IF s.e.ready THEN SetTime(s, 1) ELSE s
           q == [r.q EXCEPT !.transmuxer = TRUE, !.loads = @ + 1, !.pendingLoad = FALSE]
           c == <<<<"start", None>>>>
<1>1. /\ cmds = <<>> /\ evts = <<>> /\ element.buffered = {}
      /\ ctl.infos = {} /\ ctl.io.state # "paused"
  BY Unloaded
<1>2. Begins(r) /\ Flagged(r) /\ r.q.sourceOpened
  <2>1. CASE s.e.ready
    <3>1. Begins(SetTime(s, 1)) /\ Flagged(SetTime(s, 1))
      BY PlacesAreTicks, SetTimeBegins
    <3>2. SetTime(s, 1).q.sourceOpened
      BY DEF SetTime, Begins, Links, Situations, Players
    <3>3. QED
      BY <2>1, <3>1, <3>2
  <2>2. CASE ~s.e.ready
    BY <2>2
  <2>3. QED
    BY <2>1, <2>2
<1> HIDE DEF r
<1>3. r \in Situations /\ r.q \in Players /\ r.e \in Elements /\ r.q.attached
  BY <1>2 DEF Begins, Links, Situations
<1>4. Loaded(s) = [r EXCEPT !.q.transmuxer = TRUE, !.q.loads = @ + 1, !.q.pendingLoad = FALSE,
                            !.cmds = c]
  BY DEF Loaded, r
<1>5. Loaded(s) = [r EXCEPT !.q = q, !.cmds = c]
  BY <1>3, <1>4 DEF Situations, Players
<1>6. /\ q \in Players /\ q.attached /\ q.sourceOpened /\ q.transmuxer
      /\ q.requestSetTime = r.q.requestSetTime
  <2> DEFINE o == [r.q EXCEPT !.transmuxer = TRUE]
             p == [o EXCEPT !.pendingLoad = FALSE]
  <2>3. /\ o \in Players /\ o.attached /\ o.sourceOpened = r.q.sourceOpened /\ o.transmuxer
        /\ o.requestSetTime = r.q.requestSetTime
    BY <1>3 DEF Players
  <2>4. o.loads = r.q.loads
    BY <1>3 DEF Players
  <2>5. q = [o EXCEPT !.pendingLoad = FALSE, !.loads = r.q.loads + 1]
    BY <1>3 DEF Players
  <2> HIDE DEF o
  <2>1. /\ p \in Players /\ p.attached /\ p.sourceOpened = r.q.sourceOpened /\ p.transmuxer
        /\ p.requestSetTime = r.q.requestSetTime
    BY <2>3 DEF Players
  <2>2. q = [p EXCEPT !.loads = r.q.loads + 1] /\ r.q.loads + 1 \in Nat
    BY <1>3, <2>3, <2>4, <2>5 DEF Players
  <2> HIDE DEF p, q
  <2>6. QED
    BY <1>2, <2>1, <2>2 DEF Players
<1>7. <<"start", None>> \in Commands /\ <<"start", None>>[1] = "start"
  BY DEF Commands
<1>8. c \in Seq(Commands) /\ DOMAIN c = {1} /\ c[1][1] = "start"
  BY <1>7
<1> HIDE DEF q
<1>9. Loaded(s).q = q /\ Loaded(s).e = r.e /\ Loaded(s).cmds = c
  <2> HIDE DEF c
  <2>1. QED
    BY <1>3, <1>5 DEF Situations
<1>10. player' = q /\ element' = r.e /\ cmds' = c
  <2> HIDE DEF c
  <2>1. cmds' = <<>> \o c
    BY <1>1, <1>9 DEF Becomes
  <2>2. <<>> \o c = c
    BY <1>8
  <2>3. QED
    BY <1>9, <2>1, <2>2 DEF Becomes
<1>11. /\ r.e.buffered = {} /\ r.q.requestSetTime /\ "flag" \notin faults => Expected(r.e)
       /\ faults \subseteq faults' /\ Unanswered(Loaded(s)) \subseteq faults'
  BY <1>1, <1>2 DEF Begins, Flagged, Becomes
<1>12. r.e.buffered = {}
  BY <1>1, <1>2 DEF Begins
<1> HIDE DEF c
<1>13. TInv'
  BY StillTInv DEF IInv
<1>14. PlayerTypes'
  BY <1>3, <1>6, <1>8, <1>10 DEF PlayerTypes, IInv, PInv
<1>15. LinkInv' /\ FlagInv'
  BY <1>2, <1>6, <1>9, <1>10, <1>11, <1>12 DEF LinkInv, FlagInv, Flagged, Answered, Expected, Unanswered
<1>16. ReadInv' /\ ResumeInv'
  BY <1>1, <1>8, <1>10, <1>12 DEF ReadInv, ResumeInv, Still
<1>17. QED
  BY <1>13, <1>14, <1>15, <1>16 DEF IInv, PInv

\* load, at once or once the source is open.
LEMMA LoadKept == ASSUME IInv, Load PROVE IInv'
<1>1. /\ player.attached /\ ~player.transmuxer /\ element.seekings < MaxEvents
      /\ Becomes(IF player.sourceOpened THEN Loaded(State)
                 ELSE [State EXCEPT !.q.pendingLoad = TRUE], {})
      /\ Still /\ UNCHANGED <<evts, setting>>
  BY DEF Load
<1>2. /\ State \in Situations /\ State.q = player /\ State.e = element /\ State.cmds = <<>>
      /\ player \in Players /\ Begins(State) /\ Flagged(State)
  BY StateBegins DEF State, IInv, PInv, PlayerTypes, Begins, Links
<1>3. CASE player.sourceOpened
  BY <1>1, <1>2, <1>3, LoadedKept
<1>4. CASE ~player.sourceOpened
  <2> DEFINE t == [State EXCEPT !.q.pendingLoad = TRUE]
             q == [player EXCEPT !.pendingLoad = TRUE]
  <2>1. t = [State EXCEPT !.q = q]
    BY <1>2 DEF Situations
  <2>2. /\ q \in Players /\ q.attached = player.attached /\ q.transmuxer = player.transmuxer
        /\ q.sourceOpened = player.sourceOpened /\ q.checker = player.checker
        /\ q.requestSetTime = player.requestSetTime
    BY <1>2 DEF Players
  <2> HIDE DEF q
  <2>3. t \in Situations /\ t.q = q /\ t.e = element /\ t.cmds = <<>>
    BY <1>2, <2>1, <2>2 DEF Situations
  <2>4. Becomes(t, {})
    BY <1>1, <1>4
  <2> HIDE DEF t
  <2>5. Begins(t) /\ Flagged(t)
    BY <1>2, <2>2, <2>3 DEF Begins, Links, Flagged
  <2>6. QED
    BY <1>1, <2>4, <2>5, BeginsFits, BecomesKept
<1>5. QED
  BY <1>3, <1>4

\* The source opens, with a load that waited for it or without.
LEMMA OnSourceOpenKept == ASSUME IInv, OnSourceOpen PROVE IInv'
<1> DEFINE s == [State EXCEPT !.q.sourceOpened = TRUE]
           q == [player EXCEPT !.sourceOpened = TRUE]
<1>1. /\ player.attached /\ ~player.sourceOpened
      /\ Becomes(IF player.pendingLoad THEN Loaded(s) ELSE s, {})
      /\ Still /\ UNCHANGED <<evts, setting>>
  BY DEF OnSourceOpen
<1>2. /\ State \in Situations /\ State.q = player /\ State.e = element /\ State.cmds = <<>>
      /\ player \in Players /\ Begins(State) /\ Flagged(State)
  BY StateBegins DEF State, IInv, PInv, PlayerTypes, Begins, Links
<1>3. ~player.transmuxer /\ ~element.ready
  BY <1>1 DEF IInv, PInv, LinkInv
<1>4. s = [State EXCEPT !.q = q]
  BY <1>2 DEF Situations
<1>5. /\ q \in Players /\ q.attached = player.attached /\ q.transmuxer = player.transmuxer
      /\ q.sourceOpened /\ q.checker = player.checker
      /\ q.requestSetTime = player.requestSetTime
  BY <1>2 DEF Players
<1> HIDE DEF q
<1>6. s \in Situations /\ s.q = q /\ s.e = element /\ s.cmds = <<>>
  BY <1>2, <1>4, <1>5 DEF Situations
<1> HIDE DEF s
<1>7. Begins(s) /\ Flagged(s) /\ s.q.sourceOpened /\ ~s.e.ready
  BY <1>2, <1>3, <1>5, <1>6 DEF Begins, Links, Flagged
<1>8. CASE player.pendingLoad
  BY <1>1, <1>3, <1>7, <1>8, LoadedKept
<1>9. CASE ~player.pendingLoad
  BY <1>1, <1>7, <1>9, BeginsFits, BecomesKept
<1>10. QED
  BY <1>8, <1>9

\* unload: a new controller, and nothing on its way.
LEMMA UnloadKept == ASSUME IInv, Unload PROVE IInv'
<1>1. /\ player' = [player EXCEPT !.transmuxer = FALSE]
      /\ element' = [element EXCEPT !.buffered = {}]
      /\ cmds' = <<>> /\ evts' = <<>>
      /\ ctl' = [ctl EXCEPT !.index = 1, !.infos = {}, !.demuxer = None, !.pendingSeek = None,
                            !.resolve = None, !.reporter = FALSE, !.io = NoIO, !.life = "new"]
      /\ expect' = Keyframes[1] /\ lapses' = {} /\ UNCHANGED <<media, setting, faults>>
  BY DEF Unload
<1>2. /\ player \in Players /\ element \in Elements /\ ctl \in Controllers
      /\ LinkInv /\ FlagInv /\ setting \in Settings /\ media \in Sources
  BY DEF IInv, PInv, PlayerTypes, TInv, TypeInv
<1>3. /\ player' \in Players /\ ~player'.transmuxer /\ player'.attached = player.attached
      /\ player'.sourceOpened = player.sourceOpened
      /\ player'.requestSetTime = player.requestSetTime
  BY <1>1, <1>2 DEF Players
<1>4. /\ element' \in Elements /\ element'.ready = element.ready /\ element'.start = element.start
      /\ element'.seekings = element.seekings /\ element'.buffered = {}
  BY <1>1, <1>2 DEF Elements
<1>5. Keyframes[1] \in Nat
  BY Table
<1>6. /\ ctl' \in Controllers /\ ctl'.io = NoIO /\ ctl'.infos = {} /\ ctl'.pendingSeek = None
      /\ ctl'.resolve = None /\ ctl'.index = 1 /\ ~ctl'.reporter /\ ctl'.life = "new"
  <2>1. ctl' = [index |-> 1, infos |-> {}, demuxer |-> None, pendingSeek |-> None,
                resolve |-> None, reporter |-> FALSE, io |-> NoIO, life |-> "new"]
    BY <1>1, <1>2 DEF Controllers
  <2>2. 1 \in 1 .. Parts /\ None \in 0 .. Parts
    BY Table DEF None
  <2>3. QED
    BY <2>1, <2>2, NoIOType DEF Controllers
<1>7. TypeInv'
  BY <1>1, <1>2, <1>5, <1>6 DEF TypeInv
<1>8. ~NoIO.there /\ NoIO.state # "paused"
  BY DEF NoIO
<1>9. StepInv'
  BY <1>1, <1>6, <1>8 DEF StepInv, Placed, Resolved, Aligned
<1>10. PlayerTypes'
  BY <1>1, <1>2, <1>3, <1>4 DEF PlayerTypes
<1>11. LinkInv' /\ FlagInv'
  BY <1>1, <1>2, <1>3, <1>4, <1>6 DEF LinkInv, FlagInv
<1>12. ReadInv' /\ ResumeInv'
  BY <1>1, <1>3, <1>4, <1>6, <1>8 DEF ReadInv, ResumeInv
<1>13. QED
  BY <1>7, <1>9, <1>10, <1>11, <1>12 DEF IInv, PInv, TInv

-----------------------------------------------------------------------------
(* The controller. *)

\* A command that is carried out leaves a suspended controller only if it is a
\* suspension, or a seek that waits.
LEMMA CarriedOut ==
  ASSUME IInv, TInv', cmds # <<>>, cmds' = Tail(cmds),
         UNCHANGED <<player, element, evts, setting, faults, media>>,
         ctl'.infos = ctl.infos, ctl'.life # "new",
         ctl'.io.state = "paused" => ctl.infos # {},
         ctl'.io.state = "paused" /\ ~Waiting' /\ media.indexed => Head(cmds)[1] = "pause"
  PROVE  IInv'
<1>1. PlayerTypes /\ LinkInv /\ FlagInv /\ ReadInv /\ ResumeInv /\ cmds \in Seq(Commands)
  BY DEF IInv, PInv, PlayerTypes
<1>2. /\ cmds' \in Seq(Commands) /\ Head(cmds) = cmds[1] /\ 1 \in DOMAIN cmds
      /\ \A i \in DOMAIN cmds' : i + 1 \in DOMAIN cmds /\ cmds'[i] = cmds[i + 1]
      /\ \A i \in DOMAIN cmds : i # 1 => i - 1 \in DOMAIN cmds' /\ cmds'[i - 1] = cmds[i]
      /\ DOMAIN cmds \subseteq Nat /\ DOMAIN cmds' \subseteq Nat
  BY <1>1, Popped
<1>3. player.transmuxer
  BY <1>1 DEF LinkInv
<1>4. PlayerTypes' /\ LinkInv' /\ FlagInv'
  BY <1>1, <1>2, <1>3 DEF PlayerTypes, LinkInv, FlagInv
<1>5. ReadInv'
  BY <1>1, <1>2 DEF ReadInv
<1>6. ASSUME media.indexed, ~player.checker, NEW i \in DOMAIN cmds, cmds[i][1] = "pause"
      PROVE  \E j \in DOMAIN cmds' : j > i - 1 /\ GoesOn(cmds'[j])
  <2>1. PICK j \in DOMAIN cmds : j > i /\ GoesOn(cmds[j])
    BY <1>1, <1>3, <1>6 DEF ResumeInv
  <2>2. i \in Nat /\ i >= 1 /\ j \in Nat
    BY <1>1
  <2>3. j - 1 \in DOMAIN cmds' /\ cmds'[j - 1] = cmds[j] /\ j - 1 > i - 1
    BY <1>2, <2>1, <2>2
  <2>4. QED
    BY <2>1, <2>3
<1>7. ResumeInv'
  <2> SUFFICES ASSUME media.indexed, ~player.checker
               PROVE  /\ \A i \in DOMAIN cmds' : cmds'[i][1] = "pause" =>
                            \E j \in DOMAIN cmds' : j > i /\ GoesOn(cmds'[j])
                      /\ ctl'.io.state = "paused" /\ ~Waiting' =>
                            \E j \in DOMAIN cmds' : GoesOn(cmds'[j])
    BY DEF ResumeInv
  <2>1. ASSUME NEW i \in DOMAIN cmds', cmds'[i][1] = "pause"
        PROVE  \E j \in DOMAIN cmds' : j > i /\ GoesOn(cmds'[j])
    <3>1. i + 1 \in DOMAIN cmds /\ cmds[i + 1][1] = "pause" /\ (i + 1) - 1 = i
      BY <1>2, <2>1
    <3>2. QED
      BY <1>6, <3>1
  <2>2. ctl'.io.state = "paused" /\ ~Waiting' => \E j \in DOMAIN cmds' : GoesOn(cmds'[j])
    BY <1>2, <1>6
  <2>3. QED
    BY <2>1, <2>2
<1>8. QED
  BY <1>4, <1>5, <1>7 DEF IInv, PInv

\* What a seek makes of the controller.
LEMMA SeekGoesOn ==
  ASSUME TInv, NEW tick \in Ticks, Seek(tick)
  PROVE  /\ ctl'.infos = ctl.infos /\ ctl'.life = "started"
         /\ ctl'.io.state = "paused" => ctl.io.state = "paused"
         /\ ctl'.io.state = "paused" /\ CanSeek(ctl) => Waiting'
<1> DEFINE c == SeekTo(ctl, tick)
<1>1. /\ ctl \in Controllers /\ Placed(ctl) /\ ctl.life = "started"
      /\ (ctl.index \in ctl.infos => ctl.io.there)
  BY DEF TInv, TypeInv, StepInv, Seek
<1>2. ctl' = IF CanSeek(ctl) THEN [c EXCEPT !.reporter = TRUE] ELSE ctl
  BY DEF Seek
<1>3. c \in Controllers /\ c.life = "started" /\ c.infos = ctl.infos
  BY <1>1, SeekToPlaced
<1>4. \/ c.io.state = "working"
      \/ /\ c = [ctl EXCEPT !.pendingSeek = tick] /\ SearchSegment(tick) = ctl.index
         /\ ctl.index \notin ctl.infos
  <2> DEFINE part == SearchSegment(tick)
             at   == NearestKeyframe(part, tick)
  <2>1. CASE part = ctl.index /\ part \notin ctl.infos
    BY <2>1 DEF SeekTo
  <2>2. CASE part = ctl.index /\ part \in ctl.infos
    <3>1. c = [ctl EXCEPT !.io.at = at, !.io.state = "working", !.resolve = TickOf(part, at)]
      BY <2>2 DEF SeekTo
    <3> HIDE DEF part, at, c
    <3>2. QED
      BY <1>1, <3>1 DEF Controllers, IOs
  <2>3. CASE part # ctl.index /\ part \notin ctl.infos
    <3>1. c = LoadSegment([ctl EXCEPT !.pendingSeek = tick], part, 0)
      BY <2>3 DEF SeekTo
    <3> HIDE DEF part, at, c
    <3>2. QED
      BY <1>1, <3>1 DEF Controllers, LoadSegment
  <2>4. CASE part # ctl.index /\ part \in ctl.infos
    <3>1. c = [LoadSegment([ctl EXCEPT !.demuxer = part], part, at) EXCEPT
                 !.resolve = TickOf(part, at)]
      BY <2>4 DEF SeekTo
    <3> HIDE DEF part, at, c
    <3>2. QED
      BY <1>1, <3>1 DEF Controllers, LoadSegment
  <2>5. QED
    BY <2>1, <2>2, <2>3, <2>4
<1> HIDE DEF c
<1>5. CASE ~CanSeek(ctl)
  BY <1>1, <1>2, <1>5
<1>6. CASE CanSeek(ctl)
  <2>1. /\ ctl'.infos = ctl.infos /\ ctl'.life = "started" /\ ctl'.io = c.io
        /\ ctl'.index = c.index /\ ctl'.pendingSeek = c.pendingSeek
    BY <1>2, <1>3, <1>6 DEF Controllers
  <2>2. CASE c.io.state = "working"
    BY <2>1, <2>2
  <2>3. CASE /\ c = [ctl EXCEPT !.pendingSeek = tick] /\ SearchSegment(tick) = ctl.index
             /\ ctl.index \notin ctl.infos
    <3>1. c.io = ctl.io /\ c.index = ctl.index /\ c.pendingSeek = tick
      BY <1>1, <2>3 DEF Controllers
    <3>2. ctl.io.state = "paused" => ctl.io.at = 0
      BY <1>1, <2>3 DEF Placed, NoIO
    <3>3. tick # None
      BY PlacesAreTicks DEF None
    <3>4. QED
      BY <2>1, <2>3, <3>1, <3>2, <3>3 DEF Waiting
  <2>4. QED
    BY <1>4, <2>2, <2>3
<1>7. QED
  BY <1>5, <1>6

\* Any command.
LEMMA CommandKept == ASSUME IInv, Command PROVE IInv'
<1>1. /\ TInv /\ ReadInv /\ LinkInv /\ cmds # <<>> /\ cmds \in Seq(Commands) /\ ctl \in Controllers
      /\ ctl.io \in IOs
  BY DEF IInv, PInv, PlayerTypes, TInv, TypeInv, Command, Controllers
<1>2. Head(cmds) = cmds[1] /\ cmds[1] \in Commands /\ 1 \in DOMAIN cmds
  BY <1>1, Popped
<1>3. cmds' = Tail(cmds) /\ UNCHANGED <<player, element, evts, setting, faults>>
  BY DEF Command
<1>4. CASE Head(cmds)[1] = "start" /\ Start
  <2>1. TInv'
    BY <1>1, <1>4, StartTInv
  <2>2. ctl'.infos = ctl.infos /\ ctl'.life = "started" /\ ctl'.io.state = "working"
    BY <1>1, <1>4 DEF Start, LoadSegment, Controllers
  <2>3. UNCHANGED media
    BY <1>4 DEF Start
  <2>4. QED
    BY <1>1, <1>3, <2>1, <2>2, <2>3, CarriedOut
<1>5. CASE Head(cmds)[1] = "pause" /\ Pause
  <2>1. TInv'
    BY <1>1, <1>5, PauseTInv
  <2>2. ctl'.infos = ctl.infos /\ ctl'.life = "started"
    BY <1>1, <1>5 DEF Pause, Controllers
  <2>3. ctl.infos # {} /\ UNCHANGED media
    BY <1>1, <1>2, <1>5 DEF ReadInv, Pause
  <2>4. QED
    BY <1>1, <1>3, <1>5, <2>1, <2>2, <2>3, CarriedOut
<1>6. CASE Head(cmds)[1] = "resume" /\ Resume
  <2>1. TInv'
    BY <1>1, <1>6, ResumeTInv
  <2>2. ctl'.infos = ctl.infos /\ ctl'.life = "started"
    BY <1>1, <1>6 DEF Resume, Controllers
  <2>3. ctl'.io.state # "paused" /\ UNCHANGED media
    BY <1>1, <1>6 DEF Resume, Controllers, IOs
  <2>4. QED
    BY <1>1, <1>3, <2>1, <2>2, <2>3, CarriedOut
<1>7. CASE Head(cmds)[1] = "seek" /\ Seek(Head(cmds)[2])
  <2>1. PICK tick \in Ticks : Head(cmds) = <<"seek", tick>>
    BY <1>2, <1>7 DEF Commands
  <2>2. Seek(tick)
    BY <1>7, <2>1
  <2>3. TInv' /\ UNCHANGED media
    BY <1>1, <2>2, SeekTInv DEF Seek
  <2>4. /\ ctl'.infos = ctl.infos /\ ctl'.life = "started"
        /\ ctl'.io.state = "paused" => ctl.io.state = "paused"
        /\ ctl'.io.state = "paused" /\ CanSeek(ctl) => Waiting'
    BY <1>1, <2>2, SeekGoesOn
  <2>5. ctl'.io.state = "paused" => ctl.infos # {}
    BY <1>1, <2>4 DEF ReadInv
  <2>6. QED
    BY <1>1, <1>3, <2>3, <2>4, <2>5, CarriedOut DEF CanSeek
<1>8. QED
  BY <1>4, <1>5, <1>6, <1>7 DEF Command

\* What the controller brings goes to the player, which has asked for it.
LEMMA Brought ==
  ASSUME IInv, TInv', ctl.life = "started", ctl'.life = "started",
         UNCHANGED <<player, element, cmds, setting, faults, media>>,
         out' \in Seq(Events), evts' = evts \o out', ctl.infos \subseteq ctl'.infos,
         (\E i \in DOMAIN out' : out'[i].msg = "media") => ctl'.infos # {},
         ctl'.io.state = "paused" => ctl.io.state = "paused" /\ Waiting' = Waiting
  PROVE  IInv'
<1>1. PlayerTypes /\ LinkInv /\ FlagInv /\ ReadInv /\ ResumeInv /\ evts \in Seq(Events)
  BY DEF IInv, PInv, PlayerTypes
<1>2. player.transmuxer
  BY <1>1 DEF LinkInv
<1>3. /\ evts' \in Seq(Events)
      /\ \A i \in DOMAIN evts' : \/ \E j \in DOMAIN evts : evts'[i] = evts[j]
                                 \/ \E j \in DOMAIN out' : evts'[i] = out'[j]
  <2>1. evts' \in Seq(Events) /\ Len(evts') = Len(evts) + Len(out')
    BY <1>1
  <2>2. ASSUME NEW i \in DOMAIN evts'
        PROVE  \/ \E j \in DOMAIN evts : evts'[i] = evts[j]
               \/ \E j \in DOMAIN out' : evts'[i] = out'[j]
    <3>1. CASE i <= Len(evts)
      <4>1. i \in DOMAIN evts /\ evts'[i] = evts[i]
        BY <1>1, <2>1, <2>2, <3>1
      <4>2. QED
        BY <4>1
    <3>2. CASE i > Len(evts)
      <4>1. i - Len(evts) \in DOMAIN out' /\ evts'[i] = out'[i - Len(evts)]
        BY <1>1, <2>1, <2>2, <3>2
      <4>2. QED
        BY <4>1
    <3>3. QED
      BY <1>1, <2>1, <2>2, <3>1, <3>2
  <2>3. QED
    BY <2>1, <2>2
<1>4. PlayerTypes' /\ LinkInv' /\ FlagInv'
  BY <1>1, <1>2, <1>3 DEF PlayerTypes, LinkInv, FlagInv
<1>5. ReadInv'
  BY <1>1, <1>3 DEF ReadInv
<1>6. ResumeInv'
  BY <1>1, <1>2 DEF ResumeInv
<1>7. QED
  BY <1>4, <1>5, <1>6 DEF IInv, PInv

\* Events have their types.
LEMMA EventTypes ==
  /\ \A msg \in {"mediainfo", "init", "demux_error", "io_error", "complete"} :
       Event(msg) \in Events /\ Event(msg).msg # "media"
  /\ \A tick \in Starts : Media(tick) \in Events
  /\ \A tick \in Ticks : SeekPoint(tick) \in Events
BY DEF Event, Media, SeekPoint, Events

\* A controller that starts to read a part goes on if it was going on.
LEMMA SeekToGoesOn ==
  ASSUME NEW c \in Controllers, NEW tick \in Ticks, c.io.state = "working"
  PROVE  SeekTo(c, tick).io.state = "working"
<1> DEFINE part == SearchSegment(tick)
           at   == NearestKeyframe(part, tick)
           d    == SeekTo(c, tick)
<1>1. CASE part = c.index /\ part \notin c.infos
  <2>1. d = [c EXCEPT !.pendingSeek = tick]
    BY <1>1 DEF SeekTo
  <2> HIDE DEF part, at, d
  <2>2. d.io.state = "working"
    BY <2>1 DEF Controllers
  <2>3. QED
    BY <2>2 DEF d
<1>2. CASE part = c.index /\ part \in c.infos
  <2>1. d = [c EXCEPT !.io.at = at, !.io.state = "working", !.resolve = TickOf(part, at)]
    BY <1>2 DEF SeekTo
  <2> HIDE DEF part, at, d
  <2>2. d.io.state = "working"
    BY <2>1 DEF Controllers, IOs
  <2>3. QED
    BY <2>2 DEF d
<1>3. CASE part # c.index /\ part \notin c.infos
  <2>1. d = LoadSegment([c EXCEPT !.pendingSeek = tick], part, 0)
    BY <1>3 DEF SeekTo
  <2> HIDE DEF part, at, d
  <2>2. d.io.state = "working"
    BY <2>1 DEF Controllers, LoadSegment
  <2>3. QED
    BY <2>2 DEF d
<1>4. CASE part # c.index /\ part \in c.infos
  <2>1. d = [LoadSegment([c EXCEPT !.demuxer = part], part, at) EXCEPT
               !.resolve = TickOf(part, at)]
    BY <1>4 DEF SeekTo
  <2> HIDE DEF part, at, d
  <2>2. d.io.state = "working"
    BY <2>1 DEF Controllers, LoadSegment
  <2>3. QED
    BY <2>2 DEF d
<1>5. QED
  BY <1>1, <1>2, <1>3, <1>4

\* The head of a part: the part is known from now on.
LEMMA OnInitChunkArrivalBrings ==
  ASSUME IInv, OnInitChunkArrival, evts' = evts \o out',
         UNCHANGED <<player, element, cmds, setting, faults>>
  PROVE  IInv'
<1> DEFINE read == [ctl EXCEPT !.demuxer = ctl.index, !.io.init = FALSE, !.io.at = 1,
                               !.infos = @ \cup {ctl.index}, !.pendingSeek = None]
           o == [ctl.io EXCEPT !.init = FALSE, !.at = 1]
<1>1. /\ TInv /\ TInv' /\ ctl \in Controllers /\ ctl.io \in IOs /\ ctl.life = "started"
      /\ ctl.io.state = "working" /\ ctl.io.there /\ Placed(ctl)
  BY OnInitChunkArrivalTInv, StateThere DEF IInv, TInv, TypeInv, StepInv, Controllers,
                                            OnInitChunkArrival
<1>2. /\ ctl' = IF ctl.pendingSeek # None
                THEN [SeekTo(read, ctl.pendingSeek) EXCEPT !.reporter = TRUE] ELSE read
      /\ out' = <<Event("mediainfo"), Event("init")>> /\ UNCHANGED media
  BY DEF OnInitChunkArrival
<1>3. /\ o \in IOs /\ o.state = "working" /\ o.part = ctl.io.part /\ o.there /\ ~o.init
      /\ o.at = 1
  <2>1. 1 \in 0 .. Len(Keyframes) + 1
    BY Table
  <2>2. QED
    BY <1>1, <2>1 DEF IOs
<1>4. /\ ctl.index \in 1 .. Parts /\ ctl.index \in 0 .. Parts
      /\ ctl.infos \cup {ctl.index} \in SUBSET (1 .. Parts)
      /\ ctl.resolve \in Ticks \cup {None} /\ ctl.reporter \in BOOLEAN
      /\ ctl.pendingSeek \in Ticks \cup {None}
  BY <1>1 DEF Controllers
<1>5. read = [ctl EXCEPT !.demuxer = ctl.index, !.io = o, !.infos = ctl.infos \cup {ctl.index},
                         !.pendingSeek = None]
  BY <1>1 DEF Controllers
<1> HIDE DEF o
<1>6. /\ read \in Controllers /\ read.io = o /\ read.infos = ctl.infos \cup {ctl.index}
      /\ read.life = "started" /\ read.index = ctl.index /\ read.demuxer = ctl.index
  <2>1. None \in Ticks \cup {None}
    OBVIOUS
  <2>2. read \in Controllers
    BY <1>1, <1>3, <1>4, <1>5, <2>1 DEF Controllers
  <2>3. QED
    BY <1>1, <1>5, <2>2 DEF Controllers
<1> HIDE DEF read
<1>7. Placed(read)
  BY <1>1, <1>3, <1>6 DEF Placed
<1>8. /\ ctl'.io.state = "working" /\ ctl'.infos = ctl.infos \cup {ctl.index}
      /\ ctl'.life = "started"
  <2>1. CASE ctl.pendingSeek = None
    BY <1>2, <1>3, <1>6, <2>1
  <2>2. CASE ctl.pendingSeek # None
    <3> DEFINE d == SeekTo(read, ctl.pendingSeek)
    <3>1. ctl.pendingSeek \in Ticks
      BY <1>4, <2>2
    <3>2. d \in Controllers /\ d.infos = read.infos /\ d.life = "started"
      BY <1>3, <1>6, <1>7, <3>1, SeekToPlaced
    <3>3. d.io.state = "working"
      BY <1>3, <1>6, <3>1, SeekToGoesOn
    <3>4. ctl' = [d EXCEPT !.reporter = TRUE]
      BY <1>2, <2>2
    <3> HIDE DEF d
    <3>5. QED
      BY <1>6, <3>2, <3>3, <3>4 DEF Controllers
  <2>3. QED
    BY <2>1, <2>2
<1>9. out' \in Seq(Events) /\ \A i \in DOMAIN out' : out'[i].msg # "media"
  BY <1>2, EventTypes
<1>10. QED
  BY <1>1, <1>2, <1>8, <1>9, Brought

\* A group of a part that is known.
LEMMA OnDataArrivalBrings ==
  ASSUME IInv, OnDataArrival, evts' = evts \o out',
         UNCHANGED <<player, element, cmds, setting, faults>>
  PROVE  IInv'
<1> DEFINE demuxer == IF ctl.io.init THEN ctl.index ELSE ctl.demuxer
           tick    == TickOf(demuxer, ctl.io.at)
           next    == [ctl EXCEPT !.demuxer = demuxer, !.io.init = FALSE, !.io.at = @ + 1]
<1>1. /\ TInv /\ TInv' /\ ctl \in Controllers /\ ctl.io \in IOs /\ ctl.life = "started"
      /\ ctl.io.state = "working" /\ ctl.io.at \in DOMAIN Keyframes /\ ctl.io.there /\ Placed(ctl)
  BY OnDataArrivalTInv, StateThere DEF IInv, TInv, TypeInv, StepInv, Controllers, OnDataArrival
<1>2. /\ ctl' = IF ctl.pendingSeek # None THEN next ELSE [next EXCEPT !.resolve = None]
      /\ \/ out' = <<>>
         \/ out' = <<Media(tick)>>
         \/ out' = <<Media(tick), SeekPoint(ctl.resolve)>> /\ ctl.resolve # None
      /\ UNCHANGED media
  BY DEF OnDataArrival
<1>3. demuxer = ctl.index /\ ctl.index \in 1 .. Parts /\ ctl.resolve \in Ticks \cup {None}
  BY <1>1 DEF Placed, Controllers
<1>4. tick \in Starts
  BY <1>1, <1>3 DEF Starts
<1>5. ctl.infos # {}
  BY <1>1, Table DEF Placed
<1>6. next.io.state = "working" /\ next.infos = ctl.infos /\ next.life = "started"
  BY <1>1 DEF Controllers, IOs
<1>7. /\ ctl'.io.state = "working" /\ ctl'.infos = ctl.infos /\ ctl'.life = "started"
  <2>1. ctl' = next \/ ctl' = [next EXCEPT !.resolve = None]
    BY <1>2
  <2>2. [next EXCEPT !.resolve = None].io.state = "working"
        /\ [next EXCEPT !.resolve = None].infos = ctl.infos
        /\ [next EXCEPT !.resolve = None].life = "started"
    BY <1>1 DEF Controllers, IOs
  <2> HIDE DEF next
  <2>3. QED
    BY <1>6, <2>1, <2>2
<1> HIDE DEF tick, next
<1>8. out' \in Seq(Events)
  <2>1. Media(tick) \in Events /\ (ctl.resolve # None => SeekPoint(ctl.resolve) \in Events)
    BY <1>3, <1>4, EventTypes
  <2>2. CASE out' = <<>>
    BY <2>2
  <2>3. CASE out' = <<Media(tick)>>
    BY <2>1, <2>3
  <2>4. CASE out' = <<Media(tick), SeekPoint(ctl.resolve)>> /\ ctl.resolve # None
    BY <2>1, <2>4
  <2>5. QED
    BY <1>2, <2>2, <2>3, <2>4
<1>9. QED
  BY <1>1, <1>2, <1>5, <1>7, <1>8, Brought

\* The end of a part.
LEMMA OnIOCompleteBrings ==
  ASSUME IInv, OnIOComplete, evts' = evts \o out',
         UNCHANGED <<player, element, cmds, setting, faults>>
  PROVE  IInv'
<1> DEFINE more == ctl.io.part + 1 <= Parts
<1>1. /\ TInv /\ TInv' /\ ctl \in Controllers /\ ctl.io \in IOs /\ ctl.life = "started"
      /\ ctl.io.state \in {"working", "paused"}
  BY OnIOCompleteTInv DEF IInv, TInv, TypeInv, Controllers, OnIOComplete
<1>2. /\ ctl' = IF more THEN LoadSegment(ctl, ctl.io.part + 1, 0)
                ELSE [ctl EXCEPT !.reporter = FALSE,
                                 !.io.state = IF @ = "paused" THEN @ ELSE "done"]
      /\ out' = IF more THEN <<>> ELSE <<Event("complete")>>
      /\ UNCHANGED media
  BY DEF OnIOComplete
<1>3. out' \in Seq(Events) /\ \A i \in DOMAIN out' : out'[i].msg # "media"
  <2> HIDE DEF more
  <2>1. CASE more
    <3>1. out' = <<>>
      BY <1>2, <2>1
    <3>2. QED
      BY <3>1
  <2>2. CASE ~more
    <3>1. out' = <<Event("complete")>> /\ Event("complete") \in Events
          /\ Event("complete").msg # "media"
      BY <1>2, <2>2, EventTypes
    <3>2. QED
      BY <3>1
  <2>3. QED
    BY <2>1, <2>2
<1>4. /\ ctl'.infos = ctl.infos /\ ctl'.life = "started"
      /\ ctl'.io.state = "paused" => ctl.io.state = "paused" /\ Waiting' = Waiting
  <2>1. CASE more
    <3>1. ctl' = LoadSegment(ctl, ctl.io.part + 1, 0)
      BY <1>2, <2>1
    <3> HIDE DEF more
    <3>2. ctl'.io.state = "working" /\ ctl'.infos = ctl.infos /\ ctl'.life = "started"
      BY <1>1, <3>1 DEF LoadSegment, Controllers
    <3>3. QED
      BY <3>2
  <2>2. CASE ~more
    <3> DEFINE state == IF ctl.io.state = "paused" THEN "paused" ELSE "done"
    <3>1. ctl' = [ctl EXCEPT !.reporter = FALSE, !.io.state = state]
      BY <1>1, <1>2, <2>2
    <3> HIDE DEF more, state
    <3>2. /\ ctl'.io.state = state /\ ctl'.infos = ctl.infos /\ ctl'.life = "started"
          /\ ctl'.io.at = ctl.io.at /\ ctl'.index = ctl.index
          /\ ctl'.pendingSeek = ctl.pendingSeek
      BY <1>1, <3>1 DEF Controllers, IOs
    <3>3. QED
      BY <3>2 DEF Waiting, state
  <2>3. QED
    BY <2>1, <2>2
<1>5. QED
  BY <1>1, <1>2, <1>3, <1>4, Brought

\* Whatever the controller does of itself.
LEMMA BringKept == ASSUME IInv, Bring PROVE IInv'
<1>1. evts' = evts \o out' /\ UNCHANGED <<player, element, cmds, setting, faults>>
  BY DEF Bring
<1>2. TInv /\ ctl \in Controllers /\ ctl.io \in IOs
  BY DEF IInv, TInv, TypeInv, Controllers
<1>3. CASE OnInitChunkArrival
  BY <1>1, <1>3, OnInitChunkArrivalBrings
<1>4. CASE OnInitChunkUnsupported
  <2>1. TInv'
    BY <1>2, <1>4, OnInitChunkUnsupportedTInv
  <2>2. /\ ctl.life = "started" /\ ctl' = [ctl EXCEPT !.io = NoIO] /\ UNCHANGED media
        /\ out' = <<Event("demux_error")>>
    BY <1>4 DEF OnInitChunkUnsupported, InternalAbort
  <2>3. ctl'.io = NoIO /\ ctl'.infos = ctl.infos /\ ctl'.life = "started"
    BY <1>2, <2>2 DEF Controllers
  <2>4. ctl'.io.state # "paused"
    BY <2>3 DEF NoIO
  <2>5. Event("demux_error") \in Events /\ Event("demux_error").msg # "media"
    BY EventTypes
  <2>6. out' \in Seq(Events) /\ \A i \in DOMAIN out' : out'[i].msg # "media"
    BY <2>2, <2>5
  <2>7. QED
    BY <1>1, <2>1, <2>2, <2>3, <2>4, <2>6, Brought
<1>5. CASE OnDataArrival
  BY <1>1, <1>5, OnDataArrivalBrings
<1>6. CASE OnIOComplete
  BY <1>1, <1>6, OnIOCompleteBrings
<1>7. CASE OnIOException
  <2>1. TInv'
    BY <1>2, <1>7, OnIOExceptionTInv
  <2> DEFINE state == IF ctl.io.state = "paused" THEN "paused" ELSE "failed"
  <2>2. /\ ctl.life = "started" /\ UNCHANGED media
        /\ ctl' = [ctl EXCEPT !.io.state = state, !.reporter = FALSE]
        /\ out' = <<Event("io_error")>>
    BY <1>2, <1>7 DEF OnIOException
  <2> HIDE DEF state
  <2>3. /\ ctl'.io.state = state /\ ctl'.infos = ctl.infos /\ ctl'.life = "started"
        /\ ctl'.io.at = ctl.io.at /\ ctl'.index = ctl.index
        /\ ctl'.pendingSeek = ctl.pendingSeek
    BY <1>2, <2>2 DEF Controllers, IOs
  <2>4. ctl'.io.state = "paused" => ctl.io.state = "paused" /\ Waiting' = Waiting
    BY <2>3 DEF Waiting, state
  <2>5. Event("io_error") \in Events /\ Event("io_error").msg # "media"
    BY EventTypes
  <2>6. out' \in Seq(Events) /\ \A i \in DOMAIN out' : out'[i].msg # "media"
    BY <2>2, <2>5
  <2>7. QED
    BY <1>1, <2>1, <2>2, <2>3, <2>4, <2>6, Brought
<1>8. QED
  BY <1>3, <1>4, <1>5, <1>6, <1>7 DEF Bring, Data

-----------------------------------------------------------------------------
(* The invariant. *)

\* The invariant holds in the beginning.
LEMMA InitIInv == Init => IInv
<1> SUFFICES ASSUME Init PROVE IInv
  OBVIOUS
<1>1. TInv
  BY InitTInv DEF Init
<1>2. /\ ctl.infos = {} /\ ctl.life = "new" /\ ctl.io.state # "paused"
  BY DEF Init, TransmuxingInit, NoIO
<1>3. element \in Elements /\ element.buffered = {} /\ ~element.ready
  BY PlacesAreTicks DEF Init, NewElement, Elements
<1>4. player \in Players /\ ~player.transmuxer /\ ~player.requestSetTime
  BY DEF Init, Players, None
<1>5. cmds = <<>> /\ evts = <<>> /\ setting \in Settings
  BY DEF Init
<1>6. PlayerTypes /\ LinkInv /\ FlagInv /\ ReadInv /\ ResumeInv
  BY <1>2, <1>3, <1>4, <1>5 DEF PlayerTypes, LinkInv, FlagInv, ReadInv, ResumeInv
<1>7. QED
  BY <1>1, <1>6 DEF IInv, PInv

\* Every step keeps it.
LEMMA NextIInv == IInv /\ [Next]_vars => IInv'
<1> SUFFICES ASSUME IInv, [Next]_vars PROVE IInv'
  OBVIOUS
<1>1. CASE UNCHANGED vars
  BY <1>1 DEF vars, pvars, tvars, IInv, TInv, TypeInv, StepInv, Orderly, PInv, PlayerTypes,
              LinkInv, FlagInv, ReadInv, ResumeInv, Waiting
<1>2. CASE AttachMediaElement \/ DetachMediaElement
  BY <1>2, AttachMediaElementKept, DetachMediaElementKept
<1>3. CASE Load \/ OnSourceOpen \/ Unload
  BY <1>3, LoadKept, OnSourceOpenKept, UnloadKept
<1>4. ASSUME NEW tick \in Ticks, SeekUnattached(tick) \/ InternalSeek(tick) \/ ProgressBar(tick)
      PROVE  IInv'
  BY <1>4, SeekUnattachedKept, InternalSeekKept, ProgressBarKept
<1>5. CASE OnvSeeking \/ ApplyUnbufferedSeekpoint \/ ProgressTimer \/ OnmseUpdateEnd
  BY <1>5, OnvSeekingKept, ApplyUnbufferedSeekpointKept, ProgressTimerKept, OnmseUpdateEndKept
<1>6. CASE ResumeStuckPlayback \/ Play
  BY <1>6, ResumeStuckPlaybackKept, PlayKept
<1>7. CASE OnInitSegment \/ OnMediaSegment \/ OnRecommendSeekpoint \/ OnOtherEvent
  BY <1>7, OnInitSegmentKept, OnMediaSegmentKept, OnRecommendSeekpointKept, OnOtherEventKept
<1>8. CASE Command \/ Bring
  BY <1>8, CommandKept, BringKept
<1>9. QED
  BY <1>1, <1>2, <1>3, <1>4, <1>5, <1>6, <1>7, <1>8 DEF Next

\* So it holds always.
LEMMA PlayerInvariant == Spec => []IInv
BY InitIInv, NextIInv, PTL DEF Spec

\* Positions, seeks and events of the player keep their types, and the
\* controller stays at a part of the source, whatever is called when.
THEOREM PlayerTypeCorrect == Spec => []TypeOK
<1>1. IInv => TypeOK
  BY TInvTypeOK, PlacesAreTicks DEF IInv, PInv, PlayerTypes, Players, Elements, TypeOK
<1>2. QED
  BY <1>1, PlayerInvariant, PTL

\* _requestSetTime is up only while the seeking event of a change the player
\* has made itself is to come: no seek of the user is taken for the player's, unless
\* an element has been detached with its events, or the position has been set to the
\* beginning before there was metadata.
THEOREM OwnSeeksMarked == Spec => []FlagMatches
<1>1. IInv => FlagMatches
  BY DEF IInv, PInv, FlagInv, FlagMatches
<1>2. QED
  BY <1>1, PlayerInvariant, PTL

\* A controller that _suspendTransmuxer has suspended has _checkProgressAndResume
\* running for it once all messages have arrived, with a worker or without,
\* unless a seek waits for the part at whose head it was suspended.
THEOREM SuspendedIsChecked == Spec => []WillResume
<1>1. IInv => WillResume
  BY DEF IInv, PInv, ResumeInv, WillResume, Suspended
<1>2. QED
  BY <1>1, PlayerInvariant, PTL

(***************************************************************************)
(* Playback goes on.                                                       *)
(***************************************************************************)

(* Groups of pictures. *)

\* The last keyframe of a part not after a place, or the first.
LEMMA GreatestKeyframe ==
  ASSUME NEW p \in 1 .. Parts, NEW tick \in Ticks
  PROVE  LET S == {n \in DOMAIN Keyframes : TickOf(p, n) <= tick} \cup {1}
         IN  Max(S) \in S /\ \A n \in S : n <= Max(S)
<1> DEFINE S == {n \in DOMAIN Keyframes : TickOf(p, n) <= tick} \cup {1}
<1>1. Len(Keyframes) \in Nat /\ S \subseteq 0 .. Len(Keyframes) /\ S # {}
  BY Table
<1> HIDE DEF S
<1>2. Max(S) \in S /\ \A n \in S : n <= Max(S)
  BY <1>1, GreatestNat
<1>3. QED
  BY <1>2 DEF S

\* Keyframes are ordered as their parts are, and as they are in a part.
LEMMA StartsOrdered ==
  ASSUME NEW p \in 1 .. Parts, NEW a \in DOMAIN Keyframes,
         NEW q \in 1 .. Parts, NEW b \in DOMAIN Keyframes
  PROVE  /\ TickOf(p, a) \in Nat /\ TickOf(q, b) \in Nat /\ p \in Nat /\ q \in Nat
         /\ a \in Nat /\ b \in Nat
         /\ p < q => TickOf(p, a) < Base(q) + 1 /\ Base(q) + 1 <= TickOf(q, b)
         /\ p = q /\ a < b => TickOf(p, a) < TickOf(q, b)
<1>1. /\ Keyframes[a] \in 1 .. PartLength /\ Keyframes[b] \in 1 .. PartLength
      /\ PartLength \in Nat /\ Base(p) \in Nat /\ Base(q) \in Nat /\ p \in Nat /\ q \in Nat
      /\ a \in Nat /\ b \in Nat /\ (a < b => Keyframes[a] < Keyframes[b])
  BY Table, PartInSource
<1>2. p < q => Base(p) + PartLength <= Base(q)
  <2>1. SUFFICES ASSUME p < q PROVE Base(p) + PartLength <= Base(q)
    OBVIOUS
  <2>2. p - 1 \in Nat /\ p \in Nat /\ q - 1 \in Nat /\ p <= q - 1 /\ (p - 1) + 1 = p
    BY <1>1, <2>1
  <2>3. p * PartLength <= (q - 1) * PartLength
        /\ ((p - 1) + 1) * PartLength = (p - 1) * PartLength + PartLength
    BY <1>1, <2>2, Multiples
  <2>4. QED
    BY <2>2, <2>3 DEF Base
<1>3. QED
  BY <1>1, <1>2 DEF TickOf

\* The first keyframe of the source.
LEMMA FirstStart == Keyframes[1] \in Starts /\ \A k \in Starts : Keyframes[1] <= k
<1>1. 1 \in 1 .. Parts /\ 1 \in DOMAIN Keyframes /\ Keyframes[1] = TickOf(1, 1)
  BY Table DEF TickOf, Base
<1>2. ASSUME NEW p \in 1 .. Parts, NEW b \in DOMAIN Keyframes PROVE TickOf(1, 1) <= TickOf(p, b)
  <2>1. p = 1 \/ 1 < p
    BY Table
  <2>2. b = 1 \/ 1 < b
    BY Table
  <2>3. CASE 1 < p
    BY <1>1, <2>3, StartsOrdered, PartInSource
  <2>4. CASE p = 1 /\ b = 1
    BY <1>1, <2>4, StartsOrdered
  <2>5. CASE p = 1 /\ 1 < b
    BY <1>1, <2>5, StartsOrdered
  <2>6. QED
    BY <2>1, <2>2, <2>3, <2>4, <2>5
<1>3. QED
  BY <1>1, <1>2 DEF Starts

\* A group starts with its keyframe and ends before the next one.
LEMMA Groups ==
  /\ \A k \in Starts : k \in Nat /\ k \in Covers(k)
  /\ \A k \in Starts : \A u \in Covers(k) : u \in Ticks /\ u \in Nat /\ k <= u
  /\ \A k, m \in Starts : m < k => \A u \in Covers(m) : u < k
  /\ \A k, m \in Starts : \A u \in Covers(m) : u \in Covers(k) => k = m
<1>1. Starts \subseteq Ticks /\ Ticks \subseteq Nat
  BY PlacesAreTicks
<1>2. \A k \in Starts : k \in Nat /\ k \in Covers(k)
  BY <1>1 DEF Covers
<1>3. \A k \in Starts : \A u \in Covers(k) : u \in Ticks /\ u \in Nat /\ k <= u
  BY <1>1 DEF Covers
<1>4. \A k, m \in Starts : m < k => \A u \in Covers(m) : u < k
  BY <1>1 DEF Covers
<1>5. ASSUME NEW k \in Starts, NEW m \in Starts, NEW u \in Covers(m), u \in Covers(k) PROVE k = m
  <2>1. k \in Nat /\ m \in Nat /\ u \in Nat /\ k <= u /\ m <= u
    BY <1>1, <1>3, <1>5
  <2>2. ~(m < k) /\ ~(k < m)
    BY <1>4, <1>5, <2>1
  <2>3. QED
    BY <2>1, <2>2
<1>6. QED
  BY <1>2, <1>3, <1>4, <1>5

\* No group holds the place: it is before the first keyframe.
NoGroup(tick) == \A k \in Starts : tick < k

\* Every other place is in the group that starts last before it.
LEMMA InGroup ==
  ASSUME NEW tick \in Ticks, ~NoGroup(tick)
  PROVE  Idr(tick) \in Starts /\ tick \in Covers(Idr(tick))
<1> DEFINE S == {k \in Starts : k <= tick}
<1>1. Starts \subseteq Ticks /\ Ticks \subseteq Nat /\ tick \in Nat
  BY PlacesAreTicks
<1>2. S \subseteq Ticks /\ S # {}
  <2>1. PICK k \in Starts : ~(tick < k)
    BY DEF NoGroup
  <2>2. k \in S
    BY <1>1, <2>1
  <2>3. QED
    BY <1>1, <2>2
<1>3. Max(S) \in S /\ \A v \in S : v <= Max(S)
  BY <1>2, MaxTick
<1>4. Idr(tick) = Max(S)
  BY DEF Idr
<1> DEFINE m == Idr(tick)
<1>5. m \in Starts /\ m <= tick /\ m \in Nat /\ \A k \in Starts : k <= tick => k <= m
  BY <1>1, <1>3, <1>4
<1> HIDE DEF m
<1>6. ASSUME NEW k \in Starts, k > m PROVE tick < k
  BY <1>1, <1>5, <1>6
<1>7. tick \in Covers(m)
  BY <1>1, <1>5, <1>6 DEF Covers
<1>8. QED
  BY <1>5, <1>7 DEF m
\* The place an accurate seek has gone to lies before the first keyframe of its part.
BeforePart(tick) == SearchSegment(tick) # 1 /\ tick < TickOf(SearchSegment(tick), 1)

\* A seek leads to the group of the place sought, if there is one in its part.
LEMMA TargetCovers ==
  ASSUME NEW tick \in Ticks, ~NoGroup(tick), ~BeforePart(tick)
  PROVE  Target(tick) \in Starts /\ tick \in Covers(Target(tick))
<1> DEFINE p == SearchSegment(tick)
           upTo == {n \in DOMAIN Keyframes : TickOf(p, n) <= tick}
           at == Max(upTo \cup {1})
<1>1. /\ p \in 1 .. Parts /\ p = (tick - 1) \div PartLength + 1 /\ p \in Nat
      /\ \A i \in 1 .. Parts : tick < Base(i) + 1 <=> p < i
  BY SegmentFound, PartOfTick
<1>2. tick \in Nat /\ 1 \in DOMAIN Keyframes /\ DOMAIN Keyframes \subseteq Nat
  BY TicksAreNat, Table
<1> HIDE DEF p
<1>3. Target(tick) = TickOf(p, at)
  BY <1>1 DEF Target
<1>4. at \in DOMAIN Keyframes /\ at = NearestKeyframe(p, tick)
  BY <1>1, KeyframeFound
<1>5. at \in upTo /\ \A n \in upTo : n <= at
  <2>1. TickOf(p, 1) <= tick
    <3>1. CASE p = 1
      <4>1. PICK k \in Starts : ~(tick < k)
        BY DEF NoGroup
      <4>2. Keyframes[1] <= k /\ k \in Nat /\ Keyframes[1] \in Nat
        BY FirstStart, Groups
      <4>3. TickOf(p, 1) = Keyframes[1]
        BY <3>1, <4>2, Table DEF TickOf, Base
      <4>4. QED
        BY <1>2, <4>1, <4>2, <4>3
    <3>2. CASE p # 1
      <4>1. ~(tick < TickOf(p, 1))
        BY <3>2 DEF BeforePart, p
      <4>2. TickOf(p, 1) \in Nat
        BY <1>1, <1>2, StartsOrdered
      <4>3. QED
        BY <1>2, <4>1, <4>2
    <3>3. QED
      BY <3>1, <3>2
  <2>2. upTo \cup {1} = upTo
    BY <1>2, <2>1
  <2>3. at \in upTo \cup {1} /\ \A n \in upTo \cup {1} : n <= at
    BY <1>1, <1>2, GreatestKeyframe
  <2>4. QED
    BY <2>2, <2>3
<1> HIDE DEF at
<1>6. TickOf(p, at) \in Starts /\ TickOf(p, at) \in Nat /\ TickOf(p, at) <= tick
  BY <1>1, <1>4, <1>5, StartsOrdered DEF Starts
<1>7. ASSUME NEW q \in 1 .. Parts, NEW b \in DOMAIN Keyframes, TickOf(q, b) > TickOf(p, at)
      PROVE  tick < TickOf(q, b)
  <2>1. /\ TickOf(q, b) \in Nat /\ TickOf(p, at) \in Nat /\ b \in Nat /\ q \in Nat /\ at \in Nat
        /\ q < p => TickOf(q, b) < Base(p) + 1 /\ Base(p) + 1 <= TickOf(p, at)
        /\ p < q => TickOf(p, at) < Base(q) + 1 /\ Base(q) + 1 <= TickOf(q, b)
        /\ p = q /\ b < at => TickOf(q, b) < TickOf(p, at)
    BY <1>1, <1>4, StartsOrdered
  <2>2. Base(p) \in Nat /\ Base(q) \in Nat
    BY <1>1, PartInSource
  <2>3. CASE p < q
    BY <1>1, <1>2, <2>1, <2>2, <2>3
  <2>4. CASE q < p
    BY <1>7, <2>1, <2>2, <2>4
  <2>5. CASE p = q
    <3>1. b # at /\ ~(b < at)
      BY <1>7, <2>1, <2>5
    <3>2. ~(b <= at)
      BY <2>1, <3>1
    <3>3. b \notin upTo
      BY <1>5, <3>2
    <3>4. ~(TickOf(q, b) <= tick)
      BY <2>5, <3>3
    <3>5. QED
      BY <1>2, <2>1, <3>4
  <2>6. QED
    BY <1>1, <2>1, <2>3, <2>4, <2>5
<1>8. tick \in Covers(TickOf(p, at))
  <2>1. \A k \in Starts : k > TickOf(p, at) => tick < k
    BY <1>7 DEF Starts
  <2>2. QED
    BY <1>2, <1>6, <2>1 DEF Covers
<1>9. QED
  BY <1>3, <1>6, <1>8

\* What follows a group, if there is a later one, is the next keyframe.
LEMMA NextStart ==
  ASSUME NEW p \in 1 .. Parts, NEW a \in DOMAIN Keyframes, NEW k \in Starts, TickOf(p, a) < k
  PROVE  /\ After(p, a) \in Starts /\ After(p, a) \in Nat
         /\ TickOf(p, a) < After(p, a) /\ After(p, a) <= k
<1>1. PICK q \in 1 .. Parts, b \in DOMAIN Keyframes : k = TickOf(q, b)
  BY DEF Starts
<1>2. /\ Len(Keyframes) \in Nat \ {0} /\ DOMAIN Keyframes = 1 .. Len(Keyframes) /\ Parts \in Nat
      /\ p \in Nat /\ q \in Nat /\ a \in Nat /\ b \in Nat /\ Base(p) \in Nat /\ Base(q) \in Nat
      /\ 1 \in DOMAIN Keyframes
  BY Table, PartInSource
<1>3. /\ TickOf(p, a) \in Nat /\ k \in Nat
      /\ q < p => k < TickOf(p, a)
      /\ p = q /\ b < a => k < TickOf(p, a)
  BY <1>1, <1>2, StartsOrdered
<1>4. p < q \/ (p = q /\ a < b)
  <2>1. ~(q < p) /\ (p = q => ~(b < a) /\ a # b)
    BY <1>1, <1>3
  <2>2. QED
    BY <1>2, <2>1
<1>5. CASE a < Len(Keyframes)
  <2>1. a + 1 \in DOMAIN Keyframes /\ a < a + 1 /\ After(p, a) = TickOf(p, a + 1)
    BY <1>2, <1>5 DEF After
  <2>2. /\ TickOf(p, a + 1) \in Nat /\ TickOf(p, a) < TickOf(p, a + 1)
        /\ TickOf(p, a + 1) \in Starts
    BY <2>1, StartsOrdered DEF Starts
  <2>3. CASE p < q
    <3>1. TickOf(p, a + 1) < Base(q) + 1 /\ Base(q) + 1 <= k
      BY <1>1, <2>1, <2>3, StartsOrdered
    <3>2. QED
      BY <1>2, <1>3, <2>1, <2>2, <3>1
  <2>4. CASE p = q /\ a < b
    <3>1. a + 1 < b => TickOf(p, a + 1) < k
      BY <1>1, <2>1, <2>4, StartsOrdered
    <3>2. a + 1 < b \/ a + 1 = b
      BY <1>2, <2>4
    <3>3. QED
      BY <1>1, <1>3, <2>1, <2>2, <2>4, <3>1, <3>2
  <2>5. QED
    BY <1>4, <2>3, <2>4
<1>6. CASE a = Len(Keyframes)
  <2>1. p < q
    BY <1>2, <1>4, <1>6
  <2>2. p < Parts /\ p + 1 \in 1 .. Parts /\ p < p + 1
    BY <1>2, <2>1
  <2>3. After(p, a) = TickOf(p + 1, 1)
    BY <1>2, <1>6, <2>2 DEF After
  <2>4. /\ TickOf(p + 1, 1) \in Nat /\ TickOf(p, a) < Base(p + 1) + 1
        /\ Base(p + 1) + 1 <= TickOf(p + 1, 1) /\ TickOf(p + 1, 1) \in Starts
        /\ Base(p + 1) \in Nat
    <3>1. Base(p + 1) \in Nat
      BY <2>2, PartInSource
    <3>2. TickOf(p + 1, 1) \in Starts
      BY <1>2, <2>2 DEF Starts
    <3>3. QED
      BY <1>2, <2>2, <3>1, <3>2, StartsOrdered
  <2>5. TickOf(p + 1, 1) <= k
    <3>1. p + 1 < q => TickOf(p + 1, 1) < Base(q) + 1 /\ Base(q) + 1 <= k
      BY <1>1, <1>2, <2>2, StartsOrdered
    <3>2. p + 1 = q /\ 1 < b => TickOf(p + 1, 1) < k
      BY <1>1, <1>2, <2>2, StartsOrdered
    <3>3. p + 1 < q \/ (p + 1 = q /\ 1 < b) \/ (p + 1 = q /\ b = 1)
      BY <1>2, <2>1
    <3>4. QED
      BY <1>1, <1>2, <1>3, <2>4, <3>1, <3>2, <3>3
  <2>6. QED
    BY <1>3, <2>3, <2>4, <2>5
<1>7. QED
  BY <1>2, <1>5, <1>6
-----------------------------------------------------------------------------
(* Queues. *)

HasSeek(c) == \E i \in DOMAIN c : c[i][1] = "seek"
HasPause(c) == \E i \in DOMAIN c : c[i][1] = "pause"
PausesFirst(c) == \A i, j \in DOMAIN c : c[i][1] = "pause" /\ c[j][1] = "seek" => i < j

\* The last seek of a queue of commands is to a place.
SeekLast(c, tick) ==
  \E i \in DOMAIN c : c[i] = <<"seek", tick>> /\ \A j \in DOMAIN c : j > i => c[j][1] # "seek"

Readying(v) == \E i \in DOMAIN v : v[i].msg = "init"
Pointed(v) == \E i \in DOMAIN v : v[i].msg = "seekpoint"
Announced(v, tick) == \E i \in DOMAIN v : v[i].msg = "media" /\ tick \in Covers(v[i].tick)
Below(v, tick) == \A i \in DOMAIN v : v[i].msg = "media" => v[i].tick < tick
Coming(v, tick) == \E i \in DOMAIN v : v[i] = Media(tick)

\* The segment of the last seek point of a queue of events is among the places b,
\* or comes before it.
Met(v, b) ==
  \A i \in DOMAIN v :
    v[i].msg = "seekpoint" /\ (\A j \in DOMAIN v : j > i => v[j].msg # "seekpoint") =>
      v[i].tick \in b \/ \E j \in DOMAIN v : j < i /\ v[j] = Media(v[i].tick)

\* One command more.
LEMMA CommandPushed ==
  ASSUME NEW c \in Seq(Commands), NEW x \in Commands
  PROVE  LET d == c \o <<x>>
         IN  /\ HasSeek(d) <=> HasSeek(c) \/ x[1] = "seek"
             /\ HasPause(d) <=> HasPause(c) \/ x[1] = "pause"
             /\ PausesFirst(c) /\ (x[1] = "pause" => ~HasSeek(c)) => PausesFirst(d)
             /\ x[1] # "seek" => \A tick : SeekLast(c, tick) => SeekLast(d, tick)
             /\ \A tick : x = <<"seek", tick>> => SeekLast(d, tick)
<1> DEFINE d == c \o <<x>>
           n == Len(c) + 1
<1>1. /\ d[n] = x /\ DOMAIN d = DOMAIN c \cup {n} /\ n \in Nat
      /\ \A i \in DOMAIN c : i \in Nat /\ i < n /\ d[i] = c[i]
  BY Pushed
<1> HIDE DEF d, n
<1>2. /\ HasSeek(d) <=> HasSeek(c) \/ x[1] = "seek"
      /\ HasPause(d) <=> HasPause(c) \/ x[1] = "pause"
  BY <1>1 DEF HasSeek, HasPause
<1>3. ASSUME PausesFirst(c), x[1] = "pause" => ~HasSeek(c) PROVE PausesFirst(d)
  <2>1. SUFFICES ASSUME NEW i \in DOMAIN d, NEW j \in DOMAIN d, d[i][1] = "pause", d[j][1] = "seek"
                 PROVE  i < j
    BY DEF PausesFirst
  <2>2. CASE i \in DOMAIN c /\ j \in DOMAIN c
    BY <1>1, <1>3, <2>1, <2>2 DEF PausesFirst
  <2>3. CASE i = n
    BY <1>1, <1>3, <2>1, <2>3 DEF HasSeek
  <2>4. CASE i \in DOMAIN c /\ j = n
    BY <1>1, <2>4
  <2>5. QED
    BY <1>1, <2>2, <2>3, <2>4
<1>4. ASSUME x[1] # "seek", NEW tick, SeekLast(c, tick) PROVE SeekLast(d, tick)
  <2>1. PICK i \in DOMAIN c : c[i] = <<"seek", tick>> /\ \A j \in DOMAIN c : j > i => c[j][1] # "seek"
    BY <1>4 DEF SeekLast
  <2>2. i \in DOMAIN d /\ d[i] = <<"seek", tick>>
    BY <1>1, <2>1
  <2>3. \A j \in DOMAIN d : j > i => d[j][1] # "seek"
    BY <1>1, <1>4, <2>1
  <2>4. QED
    BY <2>2, <2>3 DEF SeekLast
<1>5. ASSUME NEW tick, x = <<"seek", tick>> PROVE SeekLast(d, tick)
  <2>1. n \in DOMAIN d /\ d[n] = <<"seek", tick>> /\ \A j \in DOMAIN d : ~(j > n)
    BY <1>1, <1>5
  <2>2. QED
    BY <2>1 DEF SeekLast
<1>6. QED
  BY <1>2, <1>3, <1>4, <1>5 DEF d

\* One command less.
LEMMA CommandPopped ==
  ASSUME NEW c \in Seq(Commands), c # <<>>
  PROVE  LET x == Head(c)
             d == Tail(c)
         IN  /\ HasSeek(c) <=> HasSeek(d) \/ x[1] = "seek"
             /\ HasPause(c) <=> HasPause(d) \/ x[1] = "pause"
             /\ PausesFirst(c) => PausesFirst(d) /\ (x[1] = "seek" => ~HasPause(d))
             /\ \A tick : SeekLast(c, tick) =>
                  \/ HasSeek(d) /\ SeekLast(d, tick)
                  \/ ~HasSeek(d) /\ x = <<"seek", tick>>
<1> DEFINE x == Head(c)
           d == Tail(c)
<1>1. /\ x = c[1] /\ 1 \in DOMAIN c
      /\ \A i \in DOMAIN d : i + 1 \in DOMAIN c /\ d[i] = c[i + 1]
      /\ \A i \in DOMAIN c : i # 1 => i - 1 \in DOMAIN d /\ d[i - 1] = c[i]
  BY Popped
<1>2. DOMAIN c \subseteq Nat \ {0} /\ DOMAIN d \subseteq Nat \ {0}
  BY Popped
<1> HIDE DEF x, d
<1>3. /\ HasSeek(c) <=> HasSeek(d) \/ x[1] = "seek"
      /\ HasPause(c) <=> HasPause(d) \/ x[1] = "pause"
  BY <1>1 DEF HasSeek, HasPause
<1>4. ASSUME PausesFirst(c) PROVE PausesFirst(d) /\ (x[1] = "seek" => ~HasPause(d))
  <2>1. ASSUME NEW i \in DOMAIN d, NEW j \in DOMAIN d, d[i][1] = "pause", d[j][1] = "seek"
        PROVE  i < j
    <3>1. i + 1 < j + 1
      BY <1>1, <1>4, <2>1 DEF PausesFirst
    <3>2. QED
      BY <1>2, <3>1
  <2>2. ASSUME x[1] = "seek", NEW i \in DOMAIN d, d[i][1] = "pause" PROVE FALSE
    <3>1. i + 1 < 1
      BY <1>1, <1>4, <2>2 DEF PausesFirst
    <3>2. QED
      BY <1>2, <3>1
  <2>3. QED
    BY <2>1, <2>2 DEF PausesFirst, HasPause
<1>5. ASSUME NEW tick, SeekLast(c, tick)
      PROVE  \/ HasSeek(d) /\ SeekLast(d, tick)
             \/ ~HasSeek(d) /\ x = <<"seek", tick>>
  <2>1. PICK i \in DOMAIN c : c[i] = <<"seek", tick>> /\ \A j \in DOMAIN c : j > i => c[j][1] # "seek"
    BY <1>5 DEF SeekLast
  <2>2. CASE i = 1
    <3>1. ASSUME NEW j \in DOMAIN d PROVE d[j][1] # "seek"
      <4>1. j + 1 \in DOMAIN c /\ j + 1 > i /\ d[j] = c[j + 1]
        BY <1>1, <1>2, <2>2
      <4>2. QED
        BY <2>1, <4>1
    <3>2. QED
      BY <1>1, <2>1, <2>2, <3>1 DEF HasSeek
  <2>3. CASE i # 1
    <3>1. i - 1 \in DOMAIN d /\ d[i - 1] = <<"seek", tick>>
      BY <1>1, <2>1, <2>3
    <3>2. ASSUME NEW j \in DOMAIN d, j > i - 1 PROVE d[j][1] # "seek"
      <4>1. j + 1 \in DOMAIN c /\ j + 1 > i /\ d[j] = c[j + 1]
        BY <1>1, <1>2, <3>2
      <4>2. QED
        BY <2>1, <4>1
    <3>3. <<"seek", tick>>[1] = "seek"
      OBVIOUS
    <3>4. QED
      BY <3>1, <3>2, <3>3 DEF SeekLast, HasSeek
  <2>4. QED
    BY <2>2, <2>3
<1>6. QED
  BY <1>3, <1>4, <1>5 DEF x, d

\* One event more.
LEMMA EventPushed ==
  ASSUME NEW v \in Seq(Events), NEW x \in Events
  PROVE  LET w == v \o <<x>>
         IN  /\ w \in Seq(Events)
             /\ Readying(v) \/ x.msg = "init" => Readying(w)
             /\ Pointed(w) <=> Pointed(v) \/ x.msg = "seekpoint"
             /\ \A tick : Announced(v, tick) => Announced(w, tick)
             /\ x.msg = "media" => \A tick \in Covers(x.tick) : Announced(w, tick)
             /\ \A tick : Below(v, tick) /\ (x.msg = "media" => x.tick < tick) => Below(w, tick)
             /\ \A tick : x = Media(tick) => Coming(w, tick)
             /\ x.msg # "seekpoint" => \A b : Met(v, b) => Met(w, b)
             /\ x.msg = "seekpoint" /\ Coming(v, x.tick) => \A b : Met(w, b)
<1> DEFINE w == v \o <<x>>
           n == Len(v) + 1
<1>1. /\ w[n] = x /\ DOMAIN w = DOMAIN v \cup {n} /\ n \in Nat /\ w \in Seq(Events)
      /\ \A i \in DOMAIN v : i \in Nat /\ i < n /\ w[i] = v[i]
  BY Pushed
<1> HIDE DEF w, n
<1>2. /\ Readying(v) \/ x.msg = "init" => Readying(w)
      /\ Pointed(w) <=> Pointed(v) \/ x.msg = "seekpoint"
  BY <1>1 DEF Readying, Pointed
<1>3. \A tick : Announced(v, tick) => Announced(w, tick)
  BY <1>1 DEF Announced
<1>4. x.msg = "media" => \A tick \in Covers(x.tick) : Announced(w, tick)
  BY <1>1 DEF Announced
<1>5. \A tick : Below(v, tick) /\ (x.msg = "media" => x.tick < tick) => Below(w, tick)
  BY <1>1 DEF Below
<1>6. \A tick : x = Media(tick) => Coming(w, tick)
  BY <1>1 DEF Coming
<1>7. ASSUME x.msg # "seekpoint", NEW b, Met(v, b) PROVE Met(w, b)
  <2>1. SUFFICES ASSUME NEW i \in DOMAIN w, w[i].msg = "seekpoint",
                        \A j \in DOMAIN w : j > i => w[j].msg # "seekpoint"
                 PROVE  w[i].tick \in b \/ \E j \in DOMAIN w : j < i /\ w[j] = Media(w[i].tick)
    BY DEF Met
  <2>2. i \in DOMAIN v /\ w[i] = v[i]
    BY <1>1, <1>7, <2>1
  <2>3. \A j \in DOMAIN v : j > i => v[j].msg # "seekpoint"
    BY <1>1, <2>1
  <2>4. v[i].tick \in b \/ \E j \in DOMAIN v : j < i /\ v[j] = Media(v[i].tick)
    BY <1>7, <2>1, <2>2, <2>3 DEF Met
  <2>5. QED
    BY <1>1, <2>2, <2>4
<1>8. ASSUME x.msg = "seekpoint", Coming(v, x.tick), NEW b PROVE Met(w, b)
  <2>1. SUFFICES ASSUME NEW i \in DOMAIN w, w[i].msg = "seekpoint",
                        \A j \in DOMAIN w : j > i => w[j].msg # "seekpoint"
                 PROVE  \E j \in DOMAIN w : j < i /\ w[j] = Media(w[i].tick)
    BY DEF Met
  <2>2. i = n
    BY <1>1, <1>8, <2>1
  <2>3. PICK j \in DOMAIN v : v[j] = Media(x.tick)
    BY <1>8 DEF Coming
  <2>4. QED
    BY <1>1, <2>2, <2>3
<1>9. QED
  BY <1>1, <1>2, <1>3, <1>4, <1>5, <1>6, <1>7, <1>8 DEF w

\* One event less.
LEMMA EventPopped ==
  ASSUME NEW v \in Seq(Events), v # <<>>
  PROVE  LET x == Head(v)
             w == Tail(v)
         IN  /\ Readying(v) => Readying(w) \/ x.msg = "init"
             /\ Pointed(v) <=> Pointed(w) \/ x.msg = "seekpoint"
             /\ \A tick : Announced(v, tick) =>
                            Announced(w, tick) \/ (x.msg = "media" /\ tick \in Covers(x.tick))
             /\ \A tick : Below(v, tick) => Below(w, tick) /\ (x.msg = "media" => x.tick < tick)
             /\ \A b, d : Met(v, b) /\ b \subseteq d /\ (x.msg = "media" => x.tick \in d) => Met(w, d)
             /\ x.msg = "seekpoint" /\ ~Pointed(w) => \A b : Met(v, b) => x.tick \in b
<1> DEFINE x == Head(v)
           w == Tail(v)
<1>1. /\ x = v[1] /\ 1 \in DOMAIN v
      /\ \A i \in DOMAIN w : i + 1 \in DOMAIN v /\ w[i] = v[i + 1]
      /\ \A i \in DOMAIN v : i # 1 => i - 1 \in DOMAIN w /\ w[i - 1] = v[i]
  BY Popped
<1>2. DOMAIN v \subseteq Nat \ {0} /\ DOMAIN w \subseteq Nat \ {0}
  BY Popped
<1> HIDE DEF x, w
<1>3. /\ Readying(v) => Readying(w) \/ x.msg = "init"
      /\ Pointed(v) <=> Pointed(w) \/ x.msg = "seekpoint"
  BY <1>1 DEF Readying, Pointed
<1>4. \A tick : Announced(v, tick) => Announced(w, tick) \/ (x.msg = "media" /\ tick \in Covers(x.tick))
  BY <1>1 DEF Announced
<1>5. \A tick : Below(v, tick) => Below(w, tick) /\ (x.msg = "media" => x.tick < tick)
  BY <1>1 DEF Below
<1>6. ASSUME NEW b, NEW d, Met(v, b), b \subseteq d, x.msg = "media" => x.tick \in d
      PROVE  Met(w, d)
  <2>1. SUFFICES ASSUME NEW i \in DOMAIN w, w[i].msg = "seekpoint",
                        \A j \in DOMAIN w : j > i => w[j].msg # "seekpoint"
                 PROVE  w[i].tick \in d \/ \E j \in DOMAIN w : j < i /\ w[j] = Media(w[i].tick)
    BY DEF Met
  <2>2. i + 1 \in DOMAIN v /\ v[i + 1] = w[i] /\ i \in Nat
    BY <1>1, <1>2
  <2>3. ASSUME NEW j \in DOMAIN v, j > i + 1 PROVE v[j].msg # "seekpoint"
    <3>1. j # 1 /\ j \in Nat /\ j - 1 > i
      BY <1>2, <2>2, <2>3
    <3>2. QED
      BY <1>1, <2>1, <3>1
  <2>4. v[i + 1].tick \in b \/ \E j \in DOMAIN v : j < i + 1 /\ v[j] = Media(v[i + 1].tick)
    BY <1>6, <2>1, <2>2, <2>3 DEF Met
  <2>5. ASSUME NEW j \in DOMAIN v, j < i + 1, v[j] = Media(w[i].tick)
        PROVE  w[i].tick \in d \/ \E k \in DOMAIN w : k < i /\ w[k] = Media(w[i].tick)
    <3>1. CASE j = 1
      BY <1>1, <1>6, <2>5, <3>1 DEF Media
    <3>2. CASE j # 1
      <4>1. j - 1 \in DOMAIN w /\ w[j - 1] = v[j] /\ j - 1 < i
        BY <1>1, <1>2, <2>2, <2>5, <3>2
      <4>2. QED
        BY <2>5, <4>1
    <3>3. QED
      BY <3>1, <3>2
  <2>6. QED
    BY <1>6, <2>2, <2>4, <2>5
<1>7. ASSUME x.msg = "seekpoint", ~Pointed(w), NEW b, Met(v, b) PROVE x.tick \in b
  <2>1. \A j \in DOMAIN v : j > 1 => v[j].msg # "seekpoint"
    BY <1>1, <1>2, <1>7 DEF Pointed
  <2>2. \A j \in DOMAIN v : ~(j < 1)
    BY <1>2
  <2>3. QED
    BY <1>1, <1>7, <2>1, <2>2 DEF Met
<1>8. QED
  BY <1>3, <1>4, <1>5, <1>6, <1>7 DEF x, w
-----------------------------------------------------------------------------
(* What leads playback on. *)

\* The seek that the controller has been given has not been answered.
Sought == ctl.resolve # None \/ ctl.pendingSeek # None

\* The player has still to hear of the position, or to go there.
Unheard(q, e) ==
  \/ q.record # None
  \/ e.seekings > (IF q.requestSetTime THEN 1 ELSE 0)
  \/ e.start /\ ~q.requestSetTime

Early(tick) == setting.accurateSeek /\ BeforePart(tick)

\* A seek is on its way to the controller, or has reached it.  An accurate one is
\* to the position; of another the player will be told where it has led.
Sent(c, tick) == HasSeek(c) /\ (setting.accurateSeek => SeekLast(c, tick))
Taken(c, tick) == ~HasSeek(c) /\ Sought /\ (setting.accurateSeek => expect = Target(tick))

\* The controller is loading and has the group of the position before it.
Loading(c, v, tick) ==
  /\ ~HasSeek(c) /\ ~HasPause(c) /\ ctl.io.state # "paused"
  /\ Below(v, expect) /\ expect \in Starts
  /\ \E k \in Starts : tick \in Covers(k) /\ expect <= k

\* For a player q, an element e, commands c and events v: why the position is, or
\* will be, in what is buffered.
Led(q, e, c, v) ==
  \/ Unheard(q, e) \/ NoGroup(e.now) \/ e.now \in e.buffered \/ Early(e.now)
  \/ Sent(c, e.now) \/ Taken(c, e.now) \/ Announced(v, e.now)
  \/ ~setting.accurateSeek /\ Pointed(v)
  \/ Loading(c, v, e.now)

Sound == media.indexed /\ Orderly /\ faults = {}

\* The element has its metadata once a part has been read, or will have.
ReadyInv ==
  /\ element.ready => ~element.start
  /\ player.transmuxer /\ ctl.infos # {} /\ ~element.ready => Readying(evts)

\* Groups are buffered as a whole.
Grouped(b) == \A k \in Starts : \A u \in b : u \in Covers(k) => Covers(k) \subseteq b

\* Before anything has been read no seek is taken, and the first group is expected.
FirstInv == ctl.infos = {} => ~Sought /\ expect = Keyframes[1] /\ ~Pointed(evts)

\* No suspension comes after a seek, on its way or taken; there is something
\* buffered to go on from.
OrderInv ==
  /\ PausesFirst(cmds) /\ (HasPause(cmds) => ~Sought)
  /\ ctl.io.state = "paused" => ctl.resolve = None /\ (ctl.pendingSeek = None \/ Waiting)
  /\ ~HasSeek(cmds) /\ (HasPause(cmds) \/ (ctl.io.state = "paused" /\ ~Waiting)) =>
       element.buffered # {}

\* The place the player is going to be told last is buffered by then, unless
\* another seek is under way.
PointInv == HasSeek(cmds) \/ Sought \/ Met(evts, element.buffered)

PlayInv ==
  /\ ReadyInv /\ Grouped(element.buffered) /\ FirstInv
  /\ player.transmuxer /\ Sound => OrderInv /\ PointInv /\ Led(player, element, cmds, evts)

\* More places meet as much.
LEMMA MetGrows ==
  ASSUME NEW v, NEW b, NEW d, b \subseteq d, Met(v, b)
  PROVE  Met(v, d)
BY DEF Met

\* A step that leaves the controller keeps it sound or makes it less so.
LEMMA SoundBefore ==
  ASSUME Still, faults \subseteq faults', Sound'
  PROVE  Sound
BY DEF Still, Sound, Orderly

\* What a handler may do that leaves the controller alone.
LEMMA HandlerPlays ==
  ASSUME IInv, PlayInv, Still, UNCHANGED setting, faults \subseteq faults',
         player'.transmuxer = player.transmuxer,
         NEW c \in Moves, cmds' = cmds \o c,
         \/ evts' = evts
         \/ /\ evts # <<>> /\ evts' = Tail(evts)
            /\ Head(evts).msg = "media" => Head(evts).tick \in element'.buffered,
         ReadyInv', Grouped(element'.buffered),
         element.buffered \subseteq element'.buffered \/ HasSeek(cmds') \/ ~player.transmuxer,
         c = <<<<"pause", None>>>> /\ Sound' =>
           ~HasSeek(cmds) /\ ~Sought /\ element'.buffered # {},
         player.transmuxer /\ Sound' => Led(player', element', cmds', evts')
  PROVE  PlayInv'
<1>1. cmds \in Seq(Commands) /\ evts \in Seq(Events)
  BY DEF IInv, PInv, PlayerTypes
<1>2. /\ HasSeek(cmds) => HasSeek(cmds')
      /\ HasPause(cmds') => HasPause(cmds) \/ c = <<<<"pause", None>>>>
      /\ PausesFirst(cmds) /\ (c = <<<<"pause", None>>>> => ~HasSeek(cmds)) => PausesFirst(cmds')
  <2>1. CASE c = <<>>
    BY <1>1, <2>1, Unpushed
  <2>2. ASSUME NEW x \in Commands, c = <<x>>
        PROVE  /\ HasSeek(cmds) => HasSeek(cmds')
               /\ HasPause(cmds') => HasPause(cmds) \/ c = <<<<"pause", None>>>>
               /\ PausesFirst(cmds) /\ (c = <<<<"pause", None>>>> => ~HasSeek(cmds)) =>
                    PausesFirst(cmds')
    <3>1. x[1] = "pause" => x = <<"pause", None>>
      BY DEF Commands
    <3>2. /\ HasSeek(cmds') <=> HasSeek(cmds) \/ x[1] = "seek"
          /\ HasPause(cmds') <=> HasPause(cmds) \/ x[1] = "pause"
          /\ PausesFirst(cmds) /\ (x[1] = "pause" => ~HasSeek(cmds)) => PausesFirst(cmds')
      BY <1>1, <2>2, CommandPushed
    <3>3. QED
      BY <2>2, <3>1, <3>2
  <2>3. QED
    BY <2>1, <2>2 DEF Moves
<1>3. /\ Pointed(evts') => Pointed(evts)
      /\ Met(evts, element.buffered) /\ element.buffered \subseteq element'.buffered =>
           Met(evts', element'.buffered)
  <2>1. CASE evts' = evts
    BY <2>1, MetGrows
  <2>2. CASE /\ evts # <<>> /\ evts' = Tail(evts)
             /\ Head(evts).msg = "media" => Head(evts).tick \in element'.buffered
    BY <1>1, <2>2, EventPopped
  <2>3. QED
    BY <2>1, <2>2
<1>4. ctl' = ctl /\ expect' = expect /\ Waiting' = Waiting /\ Sought' = Sought
  BY DEF Still, Waiting, Sought
<1>5. FirstInv'
  BY <1>3, <1>4 DEF FirstInv, PlayInv
<1>6. ASSUME player'.transmuxer, Sound'
      PROVE  OrderInv' /\ PointInv' /\ Led(player, element, cmds, evts)'
  <2>1. OrderInv /\ PointInv
    BY <1>6, SoundBefore DEF PlayInv
  <2>2. OrderInv'
    BY <1>2, <1>4, <1>6, <2>1 DEF OrderInv
  <2>3. PointInv'
    BY <1>2, <1>3, <1>4, <1>6, <2>1 DEF PointInv
  <2>4. Led(player', element', cmds', evts')
    BY <1>6
  <2>5. Led(player, element, cmds, evts)'
    BY <1>4, <2>4 DEF Led, Unheard, Early, Sent, Taken, Loading, Sought
  <2>6. QED
    BY <2>2, <2>3, <2>5
<1>7. QED
  BY <1>5, <1>6 DEF PlayInv

\* A step that leaves position and controller, takes nothing from the buffer and
\* neither seeks nor suspends: what leads playback on still does.
LEMMA LedStays ==
  ASSUME IInv, NEW q, NEW e, NEW c \in {<<>>, <<<<"resume", None>>>>},
         Led(player, element, cmds, evts),
         e.now = element.now, element.buffered \subseteq e.buffered,
         Unheard(player, element) => Unheard(q, e),
         NEW v,
         \/ v = evts
         \/ /\ evts # <<>> /\ v = Tail(evts)
            /\ Head(evts).msg # "media" \/ element.now \notin Covers(Head(evts).tick)
            /\ Head(evts).msg # "seekpoint" \/ setting.accurateSeek
  PROVE  Led(q, e, cmds \o c, v)
<1> DEFINE d == cmds \o c
<1>1. cmds \in Seq(Commands) /\ evts \in Seq(Events)
  BY DEF IInv, PInv, PlayerTypes
<1>2. /\ HasSeek(d) <=> HasSeek(cmds)
      /\ HasPause(d) <=> HasPause(cmds)
      /\ \A tick : SeekLast(cmds, tick) => SeekLast(d, tick)
  <2>1. CASE c = <<>>
    BY <1>1, <2>1, Unpushed
  <2>2. CASE c = <<<<"resume", None>>>>
    <3>1. <<"resume", None>> \in Commands /\ <<"resume", None>>[1] = "resume"
      BY DEF Commands
    <3>2. QED
      BY <1>1, <2>2, <3>1, CommandPushed
  <2>3. QED
    BY <2>1, <2>2
<1> HIDE DEF d
<1>3. /\ Announced(evts, element.now) => Announced(v, element.now)
      /\ ~setting.accurateSeek /\ Pointed(evts) => Pointed(v)
      /\ \A tick : Below(evts, tick) => Below(v, tick)
  <2>1. CASE v = evts
    BY <2>1
  <2>2. CASE /\ evts # <<>> /\ v = Tail(evts)
             /\ Head(evts).msg # "media" \/ element.now \notin Covers(Head(evts).tick)
             /\ Head(evts).msg # "seekpoint" \/ setting.accurateSeek
    BY <1>1, <2>2, EventPopped
  <2>3. QED
    BY <2>1, <2>2
<1>4. QED
  BY <1>2, <1>3 DEF Led, Sent, Taken, Loading, d

-----------------------------------------------------------------------------
(* The handlers leave the player led on. *)

\* What a handler becomes that takes nothing from the events and does not suspend.
LEMMA BecomesPlays ==
  ASSUME IInv, PlayInv, Still, UNCHANGED <<evts, setting>>, NEW t, Becomes(t, {}),
         t.q.transmuxer = player.transmuxer, t.cmds \in Moves, t.cmds # <<<<"pause", None>>>>,
         t.e.ready = element.ready, t.e.ready => ~t.e.start,
         \/ t.e.buffered = element.buffered
         \/ t.e.buffered = {} /\ (HasSeek(cmds \o t.cmds) \/ ~player.transmuxer),
         player.transmuxer /\ Sound => Led(t.q, t.e, cmds \o t.cmds, evts)
  PROVE  PlayInv'
<1>1. player' = t.q /\ element' = t.e /\ cmds' = cmds \o t.cmds /\ faults \subseteq faults'
  BY DEF Becomes
<1>2. ReadyInv'
  BY <1>1 DEF ReadyInv, PlayInv, Still
<1>3. Grouped(element'.buffered)
  BY <1>1 DEF Grouped, PlayInv
<1>4. Sound' => Sound
  BY <1>1, SoundBefore
<1>5. QED
  BY <1>1, <1>2, <1>3, <1>4, HandlerPlays

\* Where the position is set to, and what stays of the rest.
LEMMA SetTimeMoves ==
  ASSUME NEW s, Links(s), NEW tick \in Ticks, s.e.ready => s.e.seekings < MaxEvents
  PROVE  LET t == SetTime(s, tick)
         IN  /\ t.e.now = tick /\ t.e.ready = s.e.ready /\ (s.e.ready => ~t.e.start)
             /\ t.e.buffered = s.e.buffered /\ t.cmds = s.cmds
             /\ t.q.transmuxer = s.q.transmuxer
<1> DEFINE n == IF s.e.ready THEN s.e.seekings + 1 ELSE s.e.seekings
           q == [s.q EXCEPT !.requestSetTime = TRUE]
           b == ~s.e.ready /\ tick # 1
           e == [s.e EXCEPT !.now = tick, !.seekings = n, !.start = b]
<1>1. s.q \in Players /\ s.e \in Elements /\ s.cmds \in Seq(Commands) /\ s \in Situations
  BY DEF Links, Situations
<1>2. SetTime(s, tick) = [s EXCEPT !.q = q, !.e = e]
  BY <1>1 DEF SetTime, Situations, Players, Elements
<1>3. q.transmuxer = s.q.transmuxer
  BY <1>1 DEF Players
<1> HIDE DEF b
<1>4. /\ e.now = tick /\ e.ready = s.e.ready /\ e.start = b
      /\ e.buffered = s.e.buffered
  BY <1>1 DEF Elements
<1> HIDE DEF q, e
<1>6. s.e.ready => ~b
  BY DEF b
<1>5. QED
  BY <1>1, <1>2, <1>3, <1>4, <1>6 DEF Situations

\* A seek to where nothing is buffered is sent.
LEMMA UnbufferedSeekMoves ==
  ASSUME NEW s, Links(s), s.cmds = <<>>, NEW tick \in Ticks,
         s.e.ready => s.e.seekings < MaxEvents
  PROVE  LET t == UnbufferedSeek(s, tick)
         IN  /\ t.cmds = <<<<"seek", tick>>>> /\ t.e.buffered = {} /\ t.e.ready = s.e.ready
             /\ t.q.transmuxer = s.q.transmuxer
             /\ IF setting.accurateSeek THEN t.e.now = tick /\ (s.e.ready => ~t.e.start)
                ELSE t.e.now = s.e.now /\ t.e.start = s.e.start
<1> DEFINE q == [s.q EXCEPT !.checker = FALSE]
           e == [s.e EXCEPT !.buffered = {}]
           c == <<<<"seek", tick>>>>
           u == [s EXCEPT !.q = q, !.e = e, !.cmds = c]
<1>1. s \in Situations /\ s.q \in Players /\ s.e \in Elements
  BY DEF Links, Situations
<1>2. UnbufferedSeek(s, tick) = IF setting.accurateSeek THEN SetTime(u, tick) ELSE u
  BY <1>1 DEF UnbufferedSeek, Situations, Players, Elements
<1>3. q \in Players /\ q.attached = s.q.attached /\ q.transmuxer = s.q.transmuxer
      /\ q.sourceOpened = s.q.sourceOpened
  BY <1>1 DEF Players
<1>4. c \in Seq(Commands)
  BY DEF Commands
<1>5. e \in Elements /\ e.ready = s.e.ready /\ e.seekings = s.e.seekings /\ e.start = s.e.start
      /\ e.buffered = {} /\ e.now = s.e.now
  BY <1>1 DEF Elements
<1> HIDE DEF q, e, c
<1>6. Links(u) /\ u.q = q /\ u.e = e /\ u.cmds = c
  BY <1>1, <1>3, <1>4, <1>5 DEF Links, Situations
<1> HIDE DEF u
<1>7. LET t == SetTime(u, tick)
      IN  /\ t.e.now = tick /\ t.e.ready = u.e.ready /\ (u.e.ready => ~t.e.start)
          /\ t.e.buffered = u.e.buffered /\ t.cmds = u.cmds
          /\ t.q.transmuxer = u.q.transmuxer
  BY <1>5, <1>6, SetTimeMoves
<1>8. QED
  BY <1>2, <1>3, <1>5, <1>6, <1>7 DEF c

\* Going to a buffered place, with a resumption or without.
LEMMA MovesInBuffer ==
  ASSUME IInv, PlayInv, Still, UNCHANGED <<evts, setting>>,
         NEW s, Begins(s), s.e.ready = element.ready, s.e.ready => ~s.e.start,
         s.e.now \in element.buffered, NEW t, Becomes(t, {}),
         t = s \/ t = CheckProgress(s)
  PROVE  PlayInv'
<1>1. Links(s) /\ s.cmds = <<>> /\ s.e.buffered = element.buffered
  BY DEF Begins
<1>2. \/ t = s
      \/ /\ Links(t) /\ t.cmds = <<<<"resume", None>>>> /\ t.e = s.e
  BY <1>1, CheckLeaves
<1>3. /\ <<"resume", None>> \in Commands /\ <<"pause", None>> \in Commands
      /\ <<"resume", None>> # <<"pause", None>>
  BY DEF Commands
<1>4. Links(t) /\ t.e = s.e /\ t.cmds \in Moves /\ t.cmds # <<<<"pause", None>>>>
  BY <1>1, <1>2, <1>3, NoCommand, OneCommand
<1>5. t.q.transmuxer = player.transmuxer
  BY <1>4 DEF Links
<1>6. Led(t.q, t.e, cmds \o t.cmds, evts)
  BY <1>1, <1>4 DEF Led
<1>7. QED
  BY <1>1, <1>4, <1>5, <1>6, BecomesPlays

\* Seeking where nothing is buffered, to a place of which an accurate seek makes
\* the position.
LEMMA MovesUnbuffered ==
  ASSUME IInv, PlayInv, Still, UNCHANGED <<evts, setting>>,
         NEW s, Begins(s), s.e.ready = element.ready, s.e.ready => ~s.e.start,
         NEW tick \in Ticks, s.e.ready => s.e.seekings < MaxEvents,
         Becomes(UnbufferedSeek(s, tick), {})
  PROVE  PlayInv'
<1> DEFINE t == UnbufferedSeek(s, tick)
<1>1. Links(s) /\ s.cmds = <<>> /\ s.q.transmuxer = player.transmuxer /\ cmds \in Seq(Commands)
  BY DEF Begins, Links, IInv, PInv, PlayerTypes
<1>2. /\ t.cmds = <<<<"seek", tick>>>> /\ t.e.buffered = {} /\ t.e.ready = s.e.ready
      /\ t.q.transmuxer = s.q.transmuxer
      /\ IF setting.accurateSeek THEN t.e.now = tick /\ (s.e.ready => ~t.e.start)
         ELSE t.e.now = s.e.now /\ t.e.start = s.e.start
  BY <1>1, UnbufferedSeekMoves
<1> HIDE DEF t
<1>3. <<"seek", tick>> \in Commands /\ <<"seek", tick>>[1] = "seek"
  BY DEF Commands
<1>4. <<"pause", None>> \in Commands /\ <<"seek", tick>> # <<"pause", None>>
  BY DEF Commands
<1>5. HasSeek(cmds \o t.cmds) /\ SeekLast(cmds \o t.cmds, tick)
  BY <1>1, <1>2, <1>3, CommandPushed
<1>6. Led(t.q, t.e, cmds \o t.cmds, evts)
  BY <1>2, <1>5 DEF Led, Sent
<1>7. t.cmds \in Moves /\ t.cmds # <<<<"pause", None>>>>
  BY <1>2, <1>3, <1>4, OneCommand
<1>8. Becomes(t, {})
  BY DEF t
<1>9. QED
  BY <1>1, <1>2, <1>5, <1>6, <1>7, <1>8, BecomesPlays

\* With a place its keyframe is buffered.
LEMMA KeyframeBuffered ==
  ASSUME IInv, PlayInv, NEW tick \in element.buffered
  PROVE  Idr(tick) \in element.buffered
<1>1. element.buffered \subseteq Loadable
  BY DEF IInv, PInv, PlayerTypes, Elements
<1>2. tick \in Ticks /\ ~NoGroup(tick)
  <2>1. PICK k \in Starts : k <= tick
    BY <1>1 DEF Loadable
  <2>2. k \in Nat /\ tick \in Nat /\ tick \in Ticks
    BY <1>1, PlacesAreTicks
  <2>3. QED
    BY <2>1, <2>2 DEF NoGroup
<1>3. Idr(tick) \in Starts /\ tick \in Covers(Idr(tick))
  BY <1>2, InGroup
<1>4. Idr(tick) \in Covers(Idr(tick))
  BY <1>3, Groups
<1>5. QED
  BY <1>3, <1>4 DEF PlayInv, Grouped

\* _internalSeek.
LEMMA InternalSeekPlays == ASSUME IInv, PlayInv, NEW tick \in Ticks, InternalSeek(tick) PROVE PlayInv'
<1> DEFINE s == [State EXCEPT !.q.seeks = @ + 1]
           t == CASE AtBegin(s, tick) -> SetTime(s, Min(s.e.buffered))
                  [] ~AtBegin(s, tick) /\ tick \in s.e.buffered ->
                       Checked(SetTime(s, IF setting.alwaysSeekKeyframe THEN Idr(tick) ELSE tick))
                  [] OTHER -> UnbufferedSeek(s, tick)
<1>1. Begins(s) /\ s.e = element
  BY CountedBegins
<1>2. Becomes(t, {}) /\ Still /\ UNCHANGED <<evts, setting>>
  BY DEF InternalSeek
<1>3. /\ player.transmuxer /\ player.attached /\ element.seekings < MaxEvents
      /\ element.ready => ~element.start
  BY DEF InternalSeek, IInv, PInv, LinkInv, PlayInv, ReadyInv
<1> HIDE DEF s
<1>4. ASSUME NEW to \in element.buffered, t = SetTime(s, to) \/ t = CheckProgress(SetTime(s, to))
      PROVE  PlayInv'
  <2> DEFINE u == SetTime(s, to)
  <2>1. Links(s) /\ to \in Ticks
    BY <1>1, Positions DEF Begins
  <2>2. Begins(u)
    BY <1>1, <1>3, <2>1, SetTimeBegins
  <2>3. u.e.now = to /\ u.e.ready = s.e.ready /\ (s.e.ready => ~u.e.start)
    BY <1>1, <1>3, <2>1, SetTimeMoves
  <2>4. t = u \/ t = CheckProgress(u)
    BY <1>4
  <2> HIDE DEF u, t
  <2>5. QED
    BY <1>1, <1>2, <2>2, <2>3, <2>4, MovesInBuffer
<1>5. CASE AtBegin(s, tick)
  <2>1. t = SetTime(s, Min(s.e.buffered)) /\ Min(s.e.buffered) \in element.buffered
    BY <1>1, <1>5, Positions, MinTick DEF AtBegin
  <2>2. QED
    BY <1>4, <2>1
<1>6. CASE ~AtBegin(s, tick) /\ tick \in s.e.buffered
  <2> DEFINE to == IF setting.alwaysSeekKeyframe THEN Idr(tick) ELSE tick
  <2>1. t = Checked(SetTime(s, to)) /\ to \in element.buffered
    BY <1>1, <1>6, KeyframeBuffered
  <2> HIDE DEF t, to
  <2>2. t = SetTime(s, to) \/ t = CheckProgress(SetTime(s, to))
    BY <2>1 DEF Checked
  <2>3. QED
    BY <1>4, <2>1, <2>2 DEF t
<1>7. CASE ~AtBegin(s, tick) /\ tick \notin s.e.buffered
  <2>1. Becomes(UnbufferedSeek(s, tick), {})
    BY <1>2, <1>7
  <2>2. QED
    BY <1>1, <1>2, <1>3, <2>1, MovesUnbuffered
<1>8. QED
  BY <1>5, <1>6, <1>7

\* _onvSeeking.
LEMMA OnvSeekingPlays == ASSUME IInv, PlayInv, OnvSeeking PROVE PlayInv'
<1> DEFINE s == [State EXCEPT !.e.seekings = @ - 1]
           e == [element EXCEPT !.seekings = @ - 1]
           tick == element.now
           t == CASE player.requestSetTime -> [s EXCEPT !.q.requestSetTime = FALSE]
                  [] ~player.requestSetTime /\ AtBegin(s, tick) -> SetTime(s, Min(s.e.buffered))
                  [] ~player.requestSetTime /\ ~AtBegin(s, tick) /\ tick \in s.e.buffered ->
                       Checked(IF setting.alwaysSeekKeyframe THEN SetTime(s, Idr(tick)) ELSE s)
                  [] OTHER -> [s EXCEPT !.q.record = tick]
<1>1. Becomes(t, {}) /\ Still /\ UNCHANGED <<evts, setting>> /\ player.attached
      /\ element.seekings > 0
  BY DEF OnvSeeking
<1>2. /\ State \in Situations /\ State.q = player /\ State.e = element /\ State.cmds = <<>>
      /\ player \in Players /\ element \in Elements /\ Begins(State)
      /\ cmds \in Seq(Commands) /\ (element.ready => ~element.start)
  BY StateBegins DEF State, IInv, PInv, PlayerTypes, Begins, Links, PlayInv, ReadyInv
<1>3. s.q = player /\ s.e = e /\ s.cmds = <<>> /\ s = [State EXCEPT !.e = e]
  BY <1>2 DEF Situations
<1>4. element.seekings - 1 \in 0 .. MaxEvents /\ element.seekings - 1 < MaxEvents
      /\ element.seekings \in Nat
  BY <1>1, Positions
<1>5. /\ e \in Elements /\ e.ready = element.ready /\ e.seekings = element.seekings - 1
      /\ e.buffered = element.buffered /\ e.now = tick /\ e.start = element.start
  BY <1>2, <1>4 DEF Elements
<1> HIDE DEF e
<1>6. s \in Situations
  BY <1>2, <1>3, <1>5 DEF Situations
<1> HIDE DEF s
<1>7. /\ Begins(s) /\ Links(s) /\ s.q = player /\ s.cmds = <<>>
      /\ s.e.seekings = element.seekings - 1 /\ s.e.ready = element.ready
      /\ s.e.start = element.start /\ s.e.buffered = element.buffered /\ s.e.now = tick
      /\ s.e.seekings < MaxEvents
  BY <1>2, <1>3, <1>4, <1>5, <1>6 DEF Begins, Links
<1>8. ASSUME NEW to \in element.buffered, t = SetTime(s, to) \/ t = CheckProgress(SetTime(s, to))
      PROVE  PlayInv'
  <2> DEFINE u == SetTime(s, to)
  <2>1. to \in Ticks
    BY Positions
  <2>2. Begins(u)
    BY <1>1, <1>7, <2>1, SetTimeBegins
  <2>3. u.e.now = to /\ u.e.ready = s.e.ready /\ (s.e.ready => ~u.e.start)
    BY <1>7, <2>1, SetTimeMoves
  <2>4. t = u \/ t = CheckProgress(u)
    BY <1>8
  <2> HIDE DEF u, t
  <2>5. QED
    BY <1>1, <1>7, <2>2, <2>3, <2>4, MovesInBuffer
<1>9. CASE player.requestSetTime
  <2> DEFINE q == [player EXCEPT !.requestSetTime = FALSE]
  <2>1. t = [s EXCEPT !.q = q]
    BY <1>6, <1>7, <1>9 DEF Situations
  <2>2. /\ q.transmuxer = player.transmuxer /\ ~q.requestSetTime /\ q.record = player.record
    BY <1>2 DEF Players
  <2> HIDE DEF q
  <2>3. t.q = q /\ t.e = s.e /\ t.cmds = s.cmds
    BY <1>6, <2>1 DEF Situations
  <2>4. Becomes(t, {})
    BY <1>1
  <2> HIDE DEF t
  <2>5. Unheard(player, element) => Unheard(t.q, t.e)
    BY <1>4, <1>7, <1>9, <2>2, <2>3 DEF Unheard
  <2>6. Led(player, element, cmds, evts) => Led(t.q, t.e, cmds \o t.cmds, evts)
    BY <1>7, <2>3, <2>5, LedStays
  <2>7. QED
    BY <1>1, <1>2, <1>7, <2>2, <2>3, <2>4, <2>6, NoCommand, BecomesPlays DEF PlayInv
<1>10. CASE ~player.requestSetTime /\ AtBegin(s, tick)
  <2>1. t = SetTime(s, Min(s.e.buffered)) /\ Min(s.e.buffered) \in element.buffered
    BY <1>7, <1>10, Positions, MinTick DEF AtBegin
  <2>2. QED
    BY <1>8, <2>1
<1>11. CASE ~player.requestSetTime /\ ~AtBegin(s, tick) /\ tick \in s.e.buffered
  <2>1. t = Checked(IF setting.alwaysSeekKeyframe THEN SetTime(s, Idr(tick)) ELSE s)
        /\ tick \in element.buffered /\ Idr(tick) \in element.buffered
    BY <1>7, <1>11, KeyframeBuffered
  <2>2. CASE setting.alwaysSeekKeyframe
    <3> HIDE DEF t
    <3>1. t = SetTime(s, Idr(tick)) \/ t = CheckProgress(SetTime(s, Idr(tick)))
      BY <2>1, <2>2 DEF Checked
    <3>2. QED
      BY <1>8, <2>1, <3>1 DEF t
  <2>3. CASE ~setting.alwaysSeekKeyframe
    <3>1. Becomes(t, {})
      BY <1>1
    <3> HIDE DEF t
    <3>2. t = s \/ t = CheckProgress(s)
      BY <2>1, <2>3 DEF Checked
    <3>3. QED
      BY <1>1, <1>2, <1>7, <2>1, <3>1, <3>2, MovesInBuffer
  <2>4. QED
    BY <2>2, <2>3
<1>12. CASE ~player.requestSetTime /\ ~AtBegin(s, tick) /\ tick \notin s.e.buffered
  <2> DEFINE q == [player EXCEPT !.record = tick]
  <2>1. t = [s EXCEPT !.q = q]
    BY <1>6, <1>7, <1>12 DEF Situations
  <2>2. q.transmuxer = player.transmuxer /\ q.record # None
    BY <1>2, Positions, PlacesAreTicks DEF Players, None
  <2> HIDE DEF q
  <2>3. t.q = q /\ t.e = s.e /\ t.cmds = s.cmds
    BY <1>6, <2>1 DEF Situations
  <2>4. Becomes(t, {})
    BY <1>1
  <2> HIDE DEF t
  <2>5. Led(t.q, t.e, cmds \o t.cmds, evts)
    BY <2>2, <2>3 DEF Led, Unheard
  <2>6. QED
    BY <1>1, <1>2, <1>7, <2>2, <2>3, <2>4, <2>5, NoCommand, BecomesPlays
<1>13. QED
  BY <1>9, <1>10, <1>11, <1>12

\* _checkAndApplyUnbufferedSeekpoint.
LEMMA ApplyUnbufferedSeekpointPlays == ASSUME IInv, PlayInv, ApplyUnbufferedSeekpoint PROVE PlayInv'
<1> DEFINE s == [State EXCEPT !.q.record = None]
           q == [player EXCEPT !.record = None]
           t == CASE element.now \in element.buffered -> s
                  [] element.now \notin element.buffered /\ player.transmuxer
                       -> UnbufferedSeek(s, element.now)
                  [] OTHER -> [s EXCEPT !.q.checker = FALSE, !.e.buffered = {}]
<1>1. Becomes(t, {}) /\ Still /\ UNCHANGED <<evts, setting>> /\ element.seekings < MaxEvents
  BY DEF ApplyUnbufferedSeekpoint
<1>2. /\ State \in Situations /\ State.q = player /\ State.e = element /\ State.cmds = <<>>
      /\ player \in Players /\ element \in Elements /\ Begins(State)
      /\ element.ready => ~element.start
  BY StateBegins DEF State, IInv, PInv, PlayerTypes, Begins, Links, PlayInv, ReadyInv
<1>3. s.q = q /\ s.e = element /\ s.cmds = <<>> /\ s = [State EXCEPT !.q = q]
  BY <1>2 DEF Situations
<1>4. /\ q \in Players /\ q.attached = player.attached /\ q.transmuxer = player.transmuxer
      /\ q.sourceOpened = player.sourceOpened /\ q.checker = player.checker
  BY <1>2 DEF Players, None
<1> HIDE DEF q
<1>5. s \in Situations
  BY <1>2, <1>3, <1>4 DEF Situations
<1> HIDE DEF s
<1>6. Begins(s) /\ s.e = element
  BY <1>2, <1>3, <1>4, <1>5 DEF Begins, Links
<1>7. CASE element.now \in element.buffered
  <2>1. Becomes(s, {})
    BY <1>1, <1>7
  <2>2. QED
    BY <1>1, <1>2, <1>6, <1>7, <2>1, MovesInBuffer
<1>8. CASE element.now \notin element.buffered /\ player.transmuxer
  <2>1. Becomes(UnbufferedSeek(s, element.now), {})
    BY <1>1, <1>8
  <2>2. QED
    BY <1>1, <1>2, <1>6, <2>1, Positions, MovesUnbuffered
<1>9. CASE element.now \notin element.buffered /\ ~player.transmuxer
  <2> DEFINE r == [q EXCEPT !.checker = FALSE]
             e == [element EXCEPT !.buffered = {}]
  <2>1. t = [s EXCEPT !.q = r, !.e = e]
    BY <1>3, <1>5, <1>9 DEF Situations
  <2>2. r.transmuxer = player.transmuxer
    BY <1>4 DEF Players
  <2>3. e.ready = element.ready /\ e.start = element.start /\ e.buffered = {}
    BY <1>2 DEF Elements
  <2> HIDE DEF r, e
  <2>4. t.q = r /\ t.e = e /\ t.cmds = <<>>
    BY <1>3, <1>5, <2>1 DEF Situations
  <2>5. Becomes(t, {})
    BY <1>1
  <2> HIDE DEF t
  <2>6. QED
    BY <1>1, <1>2, <1>9, <2>2, <2>3, <2>4, <2>5, NoCommand, BecomesPlays
<1>10. QED
  BY <1>7, <1>8, <1>9

\* _checkProgressAndResume.
LEMMA ProgressTimerPlays == ASSUME IInv, PlayInv, ProgressTimer PROVE PlayInv'
<1> DEFINE t == IF player.transmuxer THEN CheckProgress(State)
                ELSE [CheckProgress(State) EXCEPT !.cmds = <<>>]
<1>1. Becomes(t, {}) /\ Still /\ UNCHANGED <<evts, setting>>
  BY DEF ProgressTimer
<1>2. /\ State \in Situations /\ State.q = player /\ State.e = element /\ State.cmds = <<>>
      /\ Begins(State) /\ Links(State) /\ player \in Players
      /\ element.ready => ~element.start
  BY StateBegins DEF State, Begins, Links, IInv, PInv, PlayerTypes, PlayInv, ReadyInv
<1>3. \/ t = State
      \/ /\ t.cmds = <<<<"resume", None>>>> /\ t.e = element
         /\ t.q = [player EXCEPT !.checker = FALSE]
  <2>1. CASE player.transmuxer
    BY <1>2, <2>1, CheckLeaves
  <2>2. CASE ~player.transmuxer
    <3>1. element.buffered = {}
      BY <2>2 DEF IInv, PInv, LinkInv
    <3>2. CheckProgress(State) = State
      BY <1>2, <3>1, CheckLeaves
    <3>3. [State EXCEPT !.cmds = <<>>] = State
      BY <1>2 DEF Situations
    <3>4. QED
      BY <2>2, <3>2, <3>3
  <2>3. QED
    BY <2>1, <2>2
<1>4. Becomes(t, {})
  BY <1>1
<1> HIDE DEF t
<1>5. /\ <<"resume", None>> \in Commands /\ <<"pause", None>> \in Commands
      /\ <<"resume", None>> # <<"pause", None>>
  BY DEF Commands
<1>6. /\ t.e = element /\ t.cmds \in Moves /\ t.cmds # <<<<"pause", None>>>>
      /\ t.cmds \in {<<>>, <<<<"resume", None>>>>} /\ t.q.transmuxer = player.transmuxer
      /\ t.q.record = player.record /\ t.q.requestSetTime = player.requestSetTime
  BY <1>2, <1>3, <1>5, NoCommand, OneCommand DEF Players
<1>7. Led(player, element, cmds, evts) => Led(t.q, t.e, cmds \o t.cmds, evts)
  BY <1>6, LedStays DEF Unheard
<1>8. QED
  BY <1>1, <1>2, <1>4, <1>6, <1>7, BecomesPlays DEF PlayInv

\* A suspension is made by a player that did not look at the progress, and the
\* history has it if it overtakes a seek.
LEMMA SuspendMoves ==
  ASSUME IInv, NEW s, Links(s), s.q = player, s.cmds = <<>>
  PROVE  LET t == Suspend(s)
         IN  /\ t.e = s.e /\ t.q.transmuxer = player.transmuxer
             /\ t.q.record = player.record /\ t.q.requestSetTime = player.requestSetTime
             /\ t.cmds \in Moves
             /\ \/ t.cmds = <<>>
                \/ t.cmds = <<<<"pause", None>>>> /\ Suspending(t) /\ player.transmuxer
<1> DEFINE t == Suspend(s)
<1>1. \/ t = s
      \/ /\ t.cmds = <<<<"pause", None>>>> /\ t.e = s.e
         /\ t.q = [s.q EXCEPT !.checker = TRUE] /\ s.q.transmuxer
  BY SuspendLeaves
<1>2. t = s \/ ~player.checker
  BY DEF Suspend
<1>3. player \in Players /\ <<"pause", None>> \in Commands
  BY DEF IInv, PInv, PlayerTypes, Commands
<1> HIDE DEF t
<1>4. CASE t = s
  BY <1>4, NoCommand DEF t
<1>5. CASE /\ t.cmds = <<<<"pause", None>>>> /\ t.e = s.e
           /\ t.q = [s.q EXCEPT !.checker = TRUE] /\ s.q.transmuxer /\ ~player.checker
  <2>1. /\ t.q.transmuxer = player.transmuxer /\ t.q.checker
        /\ t.q.record = player.record /\ t.q.requestSetTime = player.requestSetTime
    BY <1>3, <1>5 DEF Players
  <2>2. Suspending(t)
    BY <1>5, <2>1 DEF Suspending
  <2>3. t.cmds \in Moves
    BY <1>3, <1>5, OneCommand
  <2>4. QED
    BY <1>5, <2>1, <2>2, <2>3 DEF t
<1>6. QED
  BY <1>1, <1>2, <1>4, <1>5

\* Such a suspension comes after no seek, if nothing has gone wrong.
LEMMA NoneOvertaken ==
  ASSUME NEW t, Suspending(t), Overtaken(t) \subseteq faults', Sound'
  PROVE  ~HasSeek(cmds) /\ ~Sought
BY DEF Overtaken, Sound, Seeking, HasSeek, Sought

\* _onmseUpdateEnd.
LEMMA OnmseUpdateEndPlays == ASSUME IInv, PlayInv, OnmseUpdateEnd PROVE PlayInv'
<1> DEFINE t == Suspend(State)
<1>1. /\ Becomes(t, Overtaken(t)) /\ Still /\ UNCHANGED <<evts, setting>>
      /\ element.now \in element.buffered
  BY DEF OnmseUpdateEnd
<1>2. State.q = player /\ State.e = element /\ State.cmds = <<>> /\ Links(State)
  BY StateBegins DEF State, Begins
<1>3. /\ t.e = element /\ t.q.transmuxer = player.transmuxer /\ t.cmds \in Moves
      /\ \/ t.cmds = <<>>
         \/ t.cmds = <<<<"pause", None>>>> /\ Suspending(t)
  BY <1>2, SuspendMoves
<1> HIDE DEF t
<1>4. player' = t.q /\ element' = element /\ cmds' = cmds \o t.cmds /\ faults \subseteq faults'
  BY <1>1, <1>3 DEF Becomes
<1>5. ReadyInv' /\ Grouped(element'.buffered)
  BY <1>1, <1>3, <1>4 DEF PlayInv, ReadyInv, Still
<1>6. t.cmds = <<<<"pause", None>>>> /\ Sound' => ~HasSeek(cmds) /\ ~Sought /\ element'.buffered # {}
  BY <1>1, <1>3, <1>4, NoneOvertaken DEF Becomes
<1>7. Led(player', element', cmds', evts')
  BY <1>1, <1>4 DEF Led
<1>8. QED
  BY <1>1, <1>3, <1>4, <1>5, <1>6, <1>7, HandlerPlays

\* _checkAndResumeStuckPlayback.
LEMMA ResumeStuckPlaybackPlays == ASSUME IInv, PlayInv, ResumeStuckPlayback PROVE PlayInv'
<1> DEFINE t == SetTime(State, Min(element.buffered))
<1>1. /\ Becomes(t, {}) /\ Still /\ UNCHANGED <<evts, setting>> /\ player.attached
      /\ element.buffered # {} /\ element.seekings < MaxEvents
  BY DEF ResumeStuckPlayback
<1>2. Begins(State) /\ State.e = element /\ Links(State)
  BY StateBegins DEF State, Begins
<1>3. Min(element.buffered) \in element.buffered /\ Min(element.buffered) \in Ticks
  BY <1>1, Positions, MinTick
<1>4. Begins(t)
  BY <1>1, <1>2, <1>3, SetTimeBegins
<1>5. t.e.now = Min(element.buffered) /\ t.e.ready = element.ready /\ (element.ready => ~t.e.start)
  BY <1>1, <1>2, <1>3, SetTimeMoves
<1> HIDE DEF t
<1>6. QED
  BY <1>1, <1>3, <1>4, <1>5, MovesInBuffer

\* A handler that sets the player and the element itself and says nothing.
LEMMA SilentPlays ==
  ASSUME IInv, PlayInv, UNCHANGED <<cmds, setting>>, faults \subseteq faults', Still,
         player'.transmuxer = player.transmuxer, element'.buffered = element.buffered,
         ReadyInv',
         \/ evts' = evts
         \/ evts # <<>> /\ evts' = Tail(evts) /\ Head(evts).msg # "media",
         player.transmuxer /\ Sound => Led(player', element', cmds, evts')
  PROVE  PlayInv'
<1>1. cmds' = cmds \o <<>>
  <2>1. cmds \in Seq(Commands)
    BY DEF IInv, PInv, PlayerTypes
  <2>2. QED
    BY <2>1, Unpushed
<1>2. Grouped(element'.buffered)
  BY DEF Grouped, PlayInv
<1>3. Sound' => Sound
  BY SoundBefore
<1>4. QED
  BY <1>1, <1>2, <1>3, NoCommand, HandlerPlays

\* Nothing added, what leads on still does if the position stays.
LEMMA LedSilently ==
  ASSUME IInv, PlayInv, player.transmuxer, Sound, NEW q, NEW e,
         e.now = element.now, e.buffered = element.buffered,
         Unheard(player, element) => Unheard(q, e),
         NEW v,
         \/ v = evts
         \/ /\ evts # <<>> /\ v = Tail(evts) /\ Head(evts).msg # "media"
            /\ Head(evts).msg # "seekpoint" \/ setting.accurateSeek
  PROVE  Led(q, e, cmds, v)
<1>1. cmds \o <<>> = cmds
  <2>1. cmds \in Seq(Commands)
    BY DEF IInv, PInv, PlayerTypes
  <2>2. QED
    BY <2>1, Unpushed
<1>2. Led(player, element, cmds, evts)
  BY DEF PlayInv
<1>3. Led(q, e, cmds \o <<>>, v)
  BY <1>2, LedStays
<1>4. QED
  BY <1>1, <1>3

\* Playing on.
LEMMA PlayPlays == ASSUME IInv, PlayInv, Play PROVE PlayInv'
<1>1. /\ element' = [element EXCEPT !.now = @ + 1] /\ element.now + 1 \in element.buffered
      /\ Still /\ UNCHANGED <<player, cmds, evts, setting, faults>>
  BY DEF Play
<1>2. element \in Elements
  BY DEF IInv, PInv, PlayerTypes
<1>3. /\ element'.buffered = element.buffered /\ element'.now = element.now + 1
      /\ element'.ready = element.ready /\ element'.start = element.start
  BY <1>1, <1>2 DEF Elements
<1>4. ReadyInv'
  BY <1>1, <1>3 DEF ReadyInv, PlayInv, Still
<1>5. Led(player', element', cmds, evts')
  BY <1>1, <1>3 DEF Led
<1>6. QED
  BY <1>1, <1>3, <1>4, <1>5, SilentPlays

\* The element's own controls: the player will hear of it.
LEMMA ProgressBarPlays == ASSUME IInv, PlayInv, NEW tick \in Ticks, ProgressBar(tick) PROVE PlayInv'
<1>1. /\ player' = [player EXCEPT !.seeks = @ + 1]
      /\ element' = [element EXCEPT !.now = tick, !.seekings = @ + 1]
      /\ Still /\ UNCHANGED <<cmds, evts, setting, faults>> /\ element.ready
  BY DEF ProgressBar
<1>2. player \in Players /\ element \in Elements /\ ReadyInv /\ FlagInv
  BY DEF IInv, PInv, PlayerTypes, PlayInv
<1>3. /\ player'.transmuxer = player.transmuxer
      /\ player'.requestSetTime = player.requestSetTime
  BY <1>1, <1>2 DEF Players
<1>4. /\ element'.ready = element.ready /\ element'.start = element.start
      /\ element'.buffered = element.buffered /\ element'.seekings = element.seekings + 1
  BY <1>1, <1>2 DEF Elements
<1>5. element.seekings \in Nat
  BY Positions
<1>6. ReadyInv'
  BY <1>1, <1>2, <1>3, <1>4 DEF ReadyInv, Still
<1>7. Sound => Led(player', element', cmds, evts')
  <2>1. Sound /\ player.requestSetTime => element.seekings > 0
    BY <1>1, <1>2 DEF Sound, FlagInv, ReadyInv
  <2>2. Sound => element'.seekings > (IF player'.requestSetTime THEN 1 ELSE 0)
    BY <1>3, <1>4, <1>5, <2>1
  <2>3. QED
    BY <2>2 DEF Led, Unheard
<1>8. QED
  BY <1>1, <1>3, <1>4, <1>6, <1>7, SilentPlays

\* The element gets its metadata.
LEMMA OnInitSegmentPlays == ASSUME IInv, PlayInv, OnInitSegment PROVE PlayInv'
<1> DEFINE n == IF element.start THEN element.seekings + 1 ELSE element.seekings
<1>1. /\ evts # <<>> /\ evts' = Tail(evts) /\ Still /\ Head(evts).msg = "init"
      /\ UNCHANGED <<player, cmds, setting, faults>>
      /\ element' = [element EXCEPT !.ready = TRUE, !.start = FALSE,
                                     !.seekings = IF element.start THEN @ + 1 ELSE @]
  BY HearsFrom DEF OnInitSegment
<1>2. element \in Elements /\ element.seekings \in Nat
  BY Positions DEF IInv, PInv, PlayerTypes
<1>3. element' = [element EXCEPT !.ready = TRUE, !.start = FALSE, !.seekings = n]
  BY <1>1, <1>2 DEF Elements
<1>4. /\ n \in Nat /\ n >= element.seekings /\ (element.start => n > 0)
  BY <1>2
<1> HIDE DEF n
<1>5. /\ element'.buffered = element.buffered /\ element'.seekings = n
      /\ element'.ready /\ ~element'.start /\ element'.now = element.now
  BY <1>2, <1>3 DEF Elements
<1>6. ReadyInv'
  BY <1>5 DEF ReadyInv
<1>7. Unheard(player, element) => Unheard(player', element')
  BY <1>1, <1>2, <1>4, <1>5 DEF Unheard
<1>8. player.transmuxer /\ Sound => Led(player', element', cmds, evts')
  BY <1>1, <1>5, <1>7, LedSilently
<1>9. QED
  BY <1>1, <1>5, <1>6, <1>8, SilentPlays

\* An event is taken that says nothing of metadata: the element is as ready, or
\* will be.
LEMMA StillReady ==
  ASSUME IInv, PlayInv, Still, evts # <<>>, evts' = Tail(evts), Head(evts).msg # "init",
         player'.transmuxer = player.transmuxer,
         element'.ready = element.ready, element'.ready => ~element'.start
  PROVE  ReadyInv'
<1>1. evts \in Seq(Events)
  BY DEF IInv, PInv, PlayerTypes
<1>2. Readying(evts) => Readying(evts')
  BY <1>1, EventPopped
<1>3. QED
  BY <1>2 DEF ReadyInv, PlayInv, Still

\* Events that are passed on.
LEMMA OnOtherEventPlays == ASSUME IInv, PlayInv, OnOtherEvent PROVE PlayInv'
<1>1. /\ evts # <<>> /\ evts' = Tail(evts) /\ Still
      /\ Head(evts).msg \in {"mediainfo", "demux_error", "io_error", "complete"}
      /\ UNCHANGED <<player, element, cmds, setting, faults>>
  BY HearsFrom DEF OnOtherEvent
<1>2. ReadyInv'
  BY <1>1, StillReady DEF PlayInv, ReadyInv
<1>3. player.transmuxer /\ Sound => Led(player', element', cmds, evts')
  BY <1>1, LedSilently
<1>4. QED
  BY <1>1, <1>2, <1>3, SilentPlays

\* The seek point is told: its segment has been buffered before.
LEMMA OnRecommendSeekpointPlays == ASSUME IInv, PlayInv, OnRecommendSeekpoint PROVE PlayInv'
<1> DEFINE tick == Head(evts).tick
           t == IF setting.accurateSeek THEN State ELSE SetTime(State, tick)
<1>1. /\ evts # <<>> /\ evts' = Tail(evts) /\ Still /\ UNCHANGED setting
      /\ Head(evts) \in Events /\ Head(evts).msg = "seekpoint" /\ player.attached
      /\ element.seekings < MaxEvents /\ Becomes(t, {})
      /\ evts \in Seq(Events) /\ cmds \in Seq(Commands)
  BY HearsFrom DEF OnRecommendSeekpoint, IInv, PInv, PlayerTypes
<1>2. tick \in Ticks
  BY <1>1 DEF Events
<1>3. State.q = player /\ State.e = element /\ State.cmds = <<>> /\ Links(State)
      /\ (element.ready => ~element.start)
  BY StateBegins DEF State, Begins, PlayInv, ReadyInv
<1> HIDE DEF tick
<1>4. /\ t.e.buffered = element.buffered /\ t.cmds = <<>> /\ t.q.transmuxer = player.transmuxer
      /\ t.e.ready = element.ready /\ (t.e.ready => ~t.e.start)
      /\ setting.accurateSeek => t.e = element /\ t.q = player
      /\ ~setting.accurateSeek => t.e.now = tick
  BY <1>1, <1>2, <1>3, SetTimeMoves
<1> HIDE DEF t
<1>5. player' = t.q /\ element' = t.e /\ cmds' = cmds /\ faults \subseteq faults'
  BY <1>1, <1>4, Unpushed DEF Becomes
<1>6. ReadyInv'
  BY <1>1, <1>4, <1>5, StillReady
<1>7. ASSUME player.transmuxer, Sound PROVE Led(player', element', cmds, evts')
  <2>1. CASE setting.accurateSeek
    BY <1>1, <1>4, <1>5, <1>7, <2>1, LedSilently
  <2>2. CASE ~setting.accurateSeek
    <3>1. CASE Pointed(evts')
      BY <1>1, <2>2, <3>1 DEF Led
    <3>2. CASE ~Pointed(evts') /\ Met(evts, element.buffered)
      <4>1. tick \in element.buffered
        BY <1>1, <3>2, EventPopped DEF tick
      <4>2. QED
        BY <1>4, <1>5, <2>2, <4>1 DEF Led
    <3>3. CASE HasSeek(cmds) \/ Sought
      BY <2>2, <3>3 DEF Led, Sent, Taken
    <3>4. PointInv
      BY <1>7 DEF PlayInv
    <3>5. QED
      BY <3>1, <3>2, <3>3, <3>4 DEF PointInv
  <2>3. QED
    BY <2>1, <2>2
<1>8. QED
  BY <1>1, <1>4, <1>5, <1>6, <1>7, SilentPlays

-----------------------------------------------------------------------------
\* A group more is buffered as a whole.
LEMMA GroupedGrows ==
  ASSUME NEW b, Grouped(b), NEW m \in Starts
  PROVE  Grouped(b \cup Covers(m))
<1>1. ASSUME NEW k \in Starts, NEW u \in b \cup Covers(m), u \in Covers(k)
      PROVE  Covers(k) \subseteq b \cup Covers(m)
  <2>1. CASE u \in b
    BY <1>1, <2>1 DEF Grouped
  <2>2. CASE u \in Covers(m)
    BY <1>1, <2>2, Groups
  <2>3. QED
    BY <1>1, <2>1, <2>2
<1>2. QED
  BY <1>1 DEF Grouped

\* A suspension with a group before that of the position: what is buffered has
\* led there before.
LEMMA SuspendedInTime ==
  ASSUME IInv, LazyMax # 0, NEW m \in Starts, NEW k \in Starts, m < k, element.now \in Covers(k),
         NEW s, s.e.now = element.now, s.e.buffered = element.buffered \cup Covers(m),
         Suspending(s), Sound',
         faults' = faults \cup Unanswered(s)
                     \cup (Overtaken(s) \cup (IF Max(Covers(m)) + 1 >= element.now + LazyMax THEN {}
                                             ELSE FullEarly(s)))
  PROVE  element.now \in s.e.buffered
<1>1. /\ m \in Nat /\ k \in Nat /\ element.now \in Nat /\ k <= element.now
      /\ m \in Covers(m) /\ Covers(m) \subseteq Ticks /\ \A u \in Covers(m) : u < k
      /\ LazyMax \in Nat \ {0} /\ Ticks \subseteq Nat
  BY Groups, PlacesAreTicks, PlayerAssumption
<1>2. Max(Covers(m)) \in Covers(m) /\ Max(Covers(m)) \in Nat
  BY <1>1, MaxTick
<1>3. ~(Max(Covers(m)) + 1 >= element.now + LazyMax)
  <2>1. Max(Covers(m)) < k
    BY <1>1, <1>2
  <2>2. QED
    BY <1>1, <1>2, <2>1
<1>4. FullEarly(s) \subseteq faults' /\ faults' = {}
  BY <1>3 DEF Sound
<1>5. Leads(s.e)
  BY <1>4 DEF FullEarly
<1>6. Min(s.e.buffered) <= m /\ Min(s.e.buffered) \in Nat
  <2>1. s.e.buffered \subseteq Nat /\ m \in s.e.buffered
    BY <1>1, Positions
  <2>2. QED
    BY <2>1, MinNat
<1>7. ~(element.now < Min(s.e.buffered))
  BY <1>1, <1>6
<1>8. QED
  BY <1>5, <1>7 DEF Leads

\* A group is buffered, and the controller suspended if that is enough.
LEMMA OnMediaSegmentPlays ==
  ASSUME IInv, PlayInv, LazyMax # 0, OnMediaSegment PROVE PlayInv'
<1> DEFINE m == Head(evts).tick
           covers == Covers(m)
           s == [State EXCEPT !.e.buffered = @ \cup covers]
           e == [element EXCEPT !.buffered = @ \cup covers]
           far == Max(covers) + 1 >= element.now + LazyMax
<1>1. /\ evts # <<>> /\ evts' = Tail(evts) /\ Still /\ UNCHANGED setting
      /\ Head(evts) \in Events /\ Head(evts).msg = "media" /\ player.transmuxer
      /\ evts \in Seq(Events) /\ cmds \in Seq(Commands)
  BY HearsFrom DEF OnMediaSegment, IInv, PInv, PlayerTypes
<1>2. PICK full \in BOOLEAN :
        LET t == IF full \/ far THEN Suspend(s) ELSE s
        IN  Becomes(t, Overtaken(t) \cup (IF far THEN {} ELSE FullEarly(t)))
  BY DEF OnMediaSegment
<1> DEFINE t == IF full \/ far THEN Suspend(s) ELSE s
<1>3. /\ Becomes(t, Overtaken(t) \cup (IF far THEN {} ELSE FullEarly(t)))
      /\ faults' = faults \cup Unanswered(t)
                     \cup (Overtaken(t) \cup (IF far THEN {} ELSE FullEarly(t)))
  BY <1>2 DEF Becomes
<1>4. m \in Starts /\ covers \subseteq Loadable /\ m \in covers
  <2>1. m \in Starts
    BY <1>1 DEF Events
  <2>2. QED
    BY <2>1, GroupLoadable, Groups
<1> HIDE DEF m
<1>5. /\ State \in Situations /\ State.q = player /\ State.e = element /\ State.cmds = <<>>
      /\ element \in Elements /\ Begins(State) /\ (element.ready => ~element.start)
  BY StateBegins DEF State, IInv, PInv, PlayerTypes, Begins, Links, PlayInv, ReadyInv
<1>6. s.q = player /\ s.e = e /\ s.cmds = <<>> /\ s = [State EXCEPT !.e = e]
  BY <1>5 DEF Situations, Elements
<1>7. /\ e \in Elements /\ e.ready = element.ready /\ e.seekings = element.seekings
      /\ e.start = element.start /\ e.now = element.now
      /\ e.buffered = element.buffered \cup covers
  BY <1>4, <1>5 DEF Elements
<1> HIDE DEF e, covers
<1>8. s \in Situations
  BY <1>5, <1>6, <1>7 DEF Situations
<1> HIDE DEF s
<1>9. Links(s) /\ s.q = player /\ s.cmds = <<>> /\ s.e = e
  BY <1>5, <1>6, <1>7, <1>8 DEF Begins, Links
<1>10. /\ t.e = e /\ t.q.transmuxer = player.transmuxer /\ t.cmds \in Moves
       /\ t.q.record = player.record /\ t.q.requestSetTime = player.requestSetTime
       /\ \/ t.cmds = <<>>
          \/ t.cmds = <<<<"pause", None>>>> /\ Suspending(t)
  <2>1. CASE t = s
    BY <1>9, <2>1, NoCommand
  <2>2. CASE t = Suspend(s)
    <3> HIDE DEF t
    <3>1. QED
      BY <1>9, <2>2, SuspendMoves
  <2>3. QED
    BY <2>1, <2>2
<1> HIDE DEF t
<1>11. player' = t.q /\ element' = e /\ cmds' = cmds \o t.cmds /\ faults \subseteq faults'
  BY <1>3, <1>10 DEF Becomes
<1>12. ReadyInv'
  BY <1>1, <1>5, <1>7, <1>10, <1>11, StillReady
<1>13. Grouped(element'.buffered)
  BY <1>4, <1>7, <1>11, GroupedGrows DEF PlayInv, covers
<1>14. t.cmds = <<<<"pause", None>>>> /\ Sound' =>
         ~HasSeek(cmds) /\ ~Sought /\ element'.buffered # {}
  <2>1. Overtaken(t) \subseteq faults'
    BY <1>3
  <2>2. QED
    BY <1>4, <1>7, <1>10, <1>11, <2>1, NoneOvertaken
<1>15. ASSUME Sound' PROVE Led(player', element', cmds', evts')
  <2>1. Led(player, element, cmds, evts)
    BY <1>1, <1>11, <1>15, SoundBefore DEF PlayInv
  <2>2. Unheard(player, element) => Unheard(player', element')
    BY <1>7, <1>10, <1>11 DEF Unheard
  <2>3. CASE element.now \in covers
    BY <1>7, <1>11, <2>3 DEF Led
  <2>4. CASE element.now \notin covers /\ t.cmds = <<>>
    BY <1>1, <1>7, <1>11, <2>1, <2>2, <2>4, LedStays DEF covers, m
  <2>5. CASE element.now \notin covers /\ t.cmds = <<<<"pause", None>>>>
    <3>1. ~HasSeek(cmds) /\ ~Sought
      BY <1>14, <1>15, <2>5
    <3>2. CASE \/ Unheard(player, element) \/ NoGroup(element.now)
               \/ element.now \in element.buffered \/ Early(element.now)
      BY <1>7, <1>11, <2>2, <3>2 DEF Led
    <3>3. CASE Announced(evts, element.now) \/ (~setting.accurateSeek /\ Pointed(evts))
      <4>1. Announced(evts', element.now) \/ (~setting.accurateSeek /\ Pointed(evts'))
        BY <1>1, <2>5, <3>3, EventPopped DEF covers, m
      <4>2. QED
        BY <1>7, <1>11, <4>1 DEF Led
    <3>4. CASE Loading(cmds, evts, element.now)
      <4>1. PICK k \in Starts : element.now \in Covers(k) /\ expect <= k
        BY <3>4 DEF Loading
      <4>2. m < expect /\ expect \in Starts
        BY <1>1, <3>4, EventPopped DEF Loading, m
      <4>3. m < k
        BY <1>4, <4>1, <4>2, Groups
      <4>4. element.now \in t.e.buffered
        <5>1. t.e.now = element.now /\ t.e.buffered = element.buffered \cup Covers(m)
          BY <1>7, <1>10 DEF covers
        <5>2. Suspending(t)
          BY <1>10, <2>5
        <5>3. faults' = faults \cup Unanswered(t)
                 \cup (Overtaken(t) \cup (IF Max(Covers(m)) + 1 >= element.now + LazyMax THEN {}
                                         ELSE FullEarly(t)))
          BY <1>3 DEF covers
        <5> HIDE DEF far
        <5>4. QED
          BY <1>4, <1>15, <4>1, <4>3, <5>1, <5>2, <5>3, SuspendedInTime
      <4>5. QED
        BY <1>7, <1>10, <1>11, <4>4 DEF Led
    <3>5. QED
      BY <2>1, <3>1, <3>2, <3>3, <3>4 DEF Led, Sent, Taken
  <2>6. QED
    BY <1>10, <2>3, <2>4, <2>5
<1>16. /\ Head(evts).tick \in element'.buffered
       /\ element.buffered \subseteq element'.buffered
       /\ player'.transmuxer = player.transmuxer
  BY <1>4, <1>7, <1>10, <1>11 DEF m
<1>17. QED
  BY <1>1, <1>10, <1>11, <1>12, <1>13, <1>14, <1>15, <1>16, HandlerPlays

-----------------------------------------------------------------------------
(* Attaching, loading and unloading. *)

\* Without a transmuxer there is nothing to lead on.
LEMMA UnloadedPlays ==
  ASSUME IInv, PlayInv, ~player.transmuxer, ~player'.transmuxer, evts' = evts, Still,
         element'.ready => ~element'.start, element'.buffered = {}
  PROVE  PlayInv'
<1>1. ReadyInv' /\ Grouped(element'.buffered)
  BY DEF ReadyInv, Grouped
<1>2. FirstInv'
  BY DEF FirstInv, PlayInv, Still, Sought
<1>3. QED
  BY <1>1, <1>2 DEF PlayInv

\* Before anything has been read, the controller is loading what comes first.
LEMMA FreshLoads ==
  ASSUME FirstInv, ctl.infos = {}, ctl.io.state # "paused", NEW c, ~HasSeek(c), ~HasPause(c),
         NEW v, \A i \in DOMAIN v : v[i].msg # "media", NEW tick \in Ticks
  PROVE  NoGroup(tick) \/ Loading(c, v, tick)
<1>1. SUFFICES ASSUME ~NoGroup(tick) PROVE Loading(c, v, tick)
  OBVIOUS
<1>2. Idr(tick) \in Starts /\ tick \in Covers(Idr(tick))
  BY <1>1, InGroup
<1>3. expect \in Starts /\ expect <= Idr(tick)
  BY <1>2, FirstStart DEF FirstInv
<1>4. Below(v, expect)
  BY DEF Below
<1>5. QED
  BY <1>2, <1>3, <1>4 DEF Loading

\* attachMediaElement, detachMediaElement, and a seek before there is an element.
LEMMA AttachMediaElementPlays == ASSUME IInv, PlayInv, AttachMediaElement PROVE PlayInv'
<1>1. /\ ~player.transmuxer /\ Still /\ evts' = evts
      /\ player' = [player EXCEPT !.attached = TRUE, !.pendingSeek = None]
      /\ element' = IF player.pendingSeek = None THEN NewElement
                    ELSE [NewElement EXCEPT !.now = player.pendingSeek, !.start = player.pendingSeek # 1]
  BY DEF AttachMediaElement
<1>2. player \in Players
  BY DEF IInv, PInv, PlayerTypes
<1>3. ~player'.transmuxer
  BY <1>1, <1>2 DEF Players
<1>4. ~element'.ready /\ element'.buffered = {}
  BY <1>1 DEF NewElement
<1>5. QED
  BY <1>1, <1>3, <1>4, UnloadedPlays

\* detachMediaElement.
LEMMA DetachMediaElementPlays == ASSUME IInv, PlayInv, DetachMediaElement PROVE PlayInv'
<1>1. /\ ~player.transmuxer /\ Still /\ evts' = evts
      /\ player' = [player EXCEPT !.attached = FALSE]
      /\ element' = [element EXCEPT !.seekings = 0, !.ready = FALSE, !.start = FALSE,
                                     !.buffered = {}]
  BY DEF DetachMediaElement
<1>2. player \in Players /\ element \in Elements
  BY DEF IInv, PInv, PlayerTypes
<1>3. ~player'.transmuxer
  BY <1>1, <1>2 DEF Players
<1>4. ~element'.ready /\ element'.buffered = {}
  BY <1>1, <1>2 DEF Elements
<1>5. QED
  BY <1>1, <1>3, <1>4, UnloadedPlays

\* A seek before there is an element.
LEMMA SeekUnattachedPlays ==
  ASSUME IInv, PlayInv, NEW tick \in Ticks, SeekUnattached(tick) PROVE PlayInv'
<1>1. /\ ~player.attached /\ Still /\ evts' = evts /\ UNCHANGED element
      /\ player' = [player EXCEPT !.pendingSeek = tick, !.seeks = @ + 1]
  BY DEF SeekUnattached
<1>2. /\ player \in Players /\ ~player.transmuxer /\ element.buffered = {}
      /\ element.ready => ~element.start
  BY <1>1 DEF IInv, PInv, PlayerTypes, LinkInv, PlayInv, ReadyInv
<1>3. ~player'.transmuxer
  BY <1>1, <1>2 DEF Players
<1>4. QED
  BY <1>1, <1>2, <1>3, UnloadedPlays

\* Loading: the controller is going to read the source from its head.
LEMMA LoadedPlays ==
  ASSUME IInv, IInv', PlayInv, NEW s, Begins(s), ~player.transmuxer,
         s.e.ready => s.e.seekings < MaxEvents, s.e.ready => ~s.e.start,
         Becomes(Loaded(s), {}), Still, UNCHANGED evts
  PROVE  PlayInv'
<1> DEFINE r == IF s.e.ready THEN SetTime(s, 1) ELSE s
           c == <<<<"start", None>>>>
<1>1. /\ cmds = <<>> /\ evts = <<>> /\ element.buffered = {}
      /\ ctl.infos = {} /\ ctl.io.state # "paused" /\ FirstInv
  BY Unloaded DEF PlayInv
<1>2. Links(s) /\ s.e.buffered = {} /\ 1 \in Ticks
  BY <1>1, PlacesAreTicks DEF Begins
<1>3. r.e.buffered = {} /\ (r.e.ready => ~r.e.start)
  BY <1>2, SetTimeMoves
<1>4. Links(r)
  BY <1>2, SetTimeLeaves
<1>5. Loaded(s) = [r EXCEPT !.q.transmuxer = TRUE, !.q.loads = @ + 1, !.q.pendingLoad = FALSE,
                            !.cmds = c]
  BY DEF Loaded
<1> HIDE DEF r
<1>6. Loaded(s).e = r.e /\ Loaded(s).cmds = c
  BY <1>4, <1>5 DEF Links, Situations
<1>7. element' = r.e /\ cmds' = c /\ evts' = <<>> /\ ctl' = ctl /\ expect' = expect
  <2>1. c \in Seq(Commands)
    BY DEF Commands
  <2>2. <<>> \o c = c
    BY <2>1
  <2>3. QED
    BY <1>1, <1>6, <2>2 DEF Becomes, Still
<1>8. ~HasSeek(cmds') /\ ~HasPause(cmds') /\ PausesFirst(cmds')
  BY <1>7 DEF HasSeek, HasPause, PausesFirst
<1>9. ReadyInv' /\ Grouped(element'.buffered) /\ FirstInv'
  BY <1>1, <1>3, <1>7 DEF ReadyInv, Grouped, FirstInv, Sought
<1>10. OrderInv' /\ PointInv'
  BY <1>1, <1>7, <1>8 DEF OrderInv, PointInv, Met
<1>11. Led(player, element, cmds, evts)'
  <2>1. element'.now \in Ticks
    BY DEF IInv, PInv, PlayerTypes, Elements
  <2>2. NoGroup(element'.now) \/ Loading(cmds', evts', element'.now)
    BY <1>1, <1>7, <1>8, <2>1, FreshLoads
  <2>3. (NoGroup(element.now) \/ Loading(cmds, evts, element.now))'
    BY <1>7, <2>2 DEF Loading
  <2>4. QED
    BY <2>3 DEF Led
<1>12. QED
  BY <1>9, <1>10, <1>11 DEF PlayInv

\* load.
LEMMA LoadPlays == ASSUME IInv, IInv', PlayInv, Load PROVE PlayInv'
<1>1. /\ ~player.transmuxer /\ element.seekings < MaxEvents
      /\ Still /\ UNCHANGED <<evts, setting>>
      /\ Becomes(IF player.sourceOpened THEN Loaded(State)
                 ELSE [State EXCEPT !.q.pendingLoad = TRUE], {})
  BY DEF Load
<1>2. /\ State \in Situations /\ State.q = player /\ State.e = element /\ Begins(State)
      /\ player \in Players /\ (element.ready => ~element.start) /\ element.buffered = {}
  BY <1>1, StateBegins, Unloaded DEF State, Begins, Links, IInv, PInv, PlayerTypes, PlayInv, ReadyInv
<1>3. CASE player.sourceOpened
  BY <1>1, <1>2, <1>3, LoadedPlays
<1>4. CASE ~player.sourceOpened
  <2>1. player' = [player EXCEPT !.pendingLoad = TRUE] /\ element' = element
    BY <1>1, <1>2, <1>4 DEF Becomes, Situations
  <2>2. ~player'.transmuxer
    BY <1>1, <1>2, <2>1 DEF Players
  <2>3. QED
    BY <1>1, <1>2, <2>1, <2>2, UnloadedPlays
<1>5. QED
  BY <1>3, <1>4

\* The source opens.
LEMMA OnSourceOpenPlays == ASSUME IInv, IInv', PlayInv, OnSourceOpen PROVE PlayInv'
<1> DEFINE q == [player EXCEPT !.sourceOpened = TRUE]
           opened == [State EXCEPT !.q.sourceOpened = TRUE]
<1>1. /\ player.attached /\ ~player.sourceOpened /\ Still /\ UNCHANGED <<evts, setting>>
      /\ Becomes(IF player.pendingLoad THEN Loaded(opened) ELSE opened, {})
  BY DEF OnSourceOpen
<1>2. /\ State \in Situations /\ State.q = player /\ State.e = element /\ State.cmds = <<>>
      /\ Begins(State) /\ player \in Players /\ (element.ready => ~element.start)
      /\ ~player.transmuxer /\ ~element.ready
  BY <1>1, StateBegins DEF State, Begins, Links, IInv, PInv, PlayerTypes, LinkInv, PlayInv, ReadyInv
<1>3. opened = [State EXCEPT !.q = q]
  BY <1>2 DEF Situations
<1>4. /\ q \in Players /\ q.attached = player.attached /\ q.transmuxer = player.transmuxer
      /\ q.sourceOpened /\ q.checker = player.checker
  BY <1>2 DEF Players
<1> HIDE DEF q
<1>5. opened \in Situations /\ opened.q = q /\ opened.e = element /\ opened.cmds = <<>>
  BY <1>2, <1>3, <1>4 DEF Situations
<1> HIDE DEF opened
<1>6. Begins(opened)
  BY <1>2, <1>4, <1>5 DEF Begins, Links
<1>7. CASE player.pendingLoad
  BY <1>1, <1>2, <1>5, <1>6, <1>7, LoadedPlays
<1>8. CASE ~player.pendingLoad
  <2>1. player' = q /\ element' = element
    BY <1>1, <1>5, <1>8 DEF Becomes
  <2>2. element.buffered = {}
    BY <1>2, Unloaded
  <2>3. QED
    BY <1>1, <1>2, <1>4, <2>1, <2>2, UnloadedPlays
<1>9. QED
  BY <1>7, <1>8

\* unload.
LEMMA UnloadPlays == ASSUME IInv, PlayInv, Unload PROVE PlayInv'
<1>1. /\ player' = [player EXCEPT !.transmuxer = FALSE]
      /\ element' = [element EXCEPT !.buffered = {}] /\ evts' = <<>>
      /\ ctl' = [ctl EXCEPT !.index = 1, !.infos = {}, !.demuxer = None, !.pendingSeek = None,
                            !.resolve = None, !.reporter = FALSE, !.io = NoIO, !.life = "new"]
      /\ expect' = Keyframes[1]
  BY DEF Unload
<1>2. /\ player \in Players /\ element \in Elements /\ ctl \in Controllers
      /\ element.ready => ~element.start
  BY DEF IInv, PInv, PlayerTypes, TInv, TypeInv, PlayInv, ReadyInv
<1>3. ~player'.transmuxer
  BY <1>1, <1>2 DEF Players
<1>4. /\ element'.ready = element.ready /\ element'.start = element.start
      /\ element'.buffered = {}
  BY <1>1, <1>2 DEF Elements
<1>5. ctl'.pendingSeek = None /\ ctl'.resolve = None
  BY <1>1, <1>2 DEF Controllers
<1>6. ReadyInv' /\ Grouped(element'.buffered) /\ FirstInv'
  BY <1>1, <1>2, <1>3, <1>4, <1>5 DEF ReadyInv, Grouped, FirstInv, Sought, Pointed
<1>7. QED
  BY <1>3, <1>6 DEF PlayInv

-----------------------------------------------------------------------------
(* The controller. *)

\* A command other than a seek, that leaves what the controller looks for.
LEMMA CommandPlays ==
  ASSUME IInv, PlayInv, cmds # <<>>, cmds' = Tail(cmds), Head(cmds)[1] # "seek",
         UNCHANGED <<player, element, evts, setting, faults, media, expect, lapses>>,
         ctl'.infos = ctl.infos, ctl'.resolve = ctl.resolve, ctl'.pendingSeek = ctl.pendingSeek,
         ctl'.io.state = "paused" => Head(cmds)[1] = "pause"
  PROVE  PlayInv'
<1>1. cmds \in Seq(Commands)
  BY DEF IInv, PInv, PlayerTypes
<1>2. /\ HasSeek(cmds') <=> HasSeek(cmds)
      /\ HasPause(cmds) <=> HasPause(cmds') \/ Head(cmds)[1] = "pause"
      /\ PausesFirst(cmds) => PausesFirst(cmds')
      /\ \A tick : SeekLast(cmds, tick) => ~HasSeek(cmds') \/ SeekLast(cmds', tick)
  BY <1>1, CommandPopped
<1>3. Sought' <=> Sought
  BY DEF Sought
<1>4. ReadyInv' /\ Grouped(element.buffered)' /\ FirstInv'
  BY <1>3 DEF PlayInv, ReadyInv, Grouped, FirstInv
<1>5. ASSUME player.transmuxer, Sound PROVE OrderInv' /\ PointInv' /\ Led(player, element, cmds, evts)'
  <2>1. OrderInv /\ PointInv /\ Led(player, element, cmds, evts)
    BY <1>5 DEF PlayInv
  <2>2. OrderInv'
    BY <1>2, <1>3, <2>1 DEF OrderInv, Sought
  <2>3. PointInv'
    BY <1>2, <1>3, <2>1 DEF PointInv
  <2>4. CASE \/ Unheard(player, element) \/ NoGroup(element.now) \/ element.now \in element.buffered
             \/ Early(element.now) \/ Announced(evts, element.now)
             \/ (~setting.accurateSeek /\ Pointed(evts))
    BY <2>2, <2>3, <2>4 DEF Led, Unheard, Early
  <2>5. CASE Sent(cmds, element.now)
    <3>1. Sent(cmds, element.now)'
      BY <1>2, <2>5 DEF Sent
    <3>2. QED
      BY <2>2, <2>3, <3>1 DEF Led
  <2>6. CASE Taken(cmds, element.now)
    <3>1. Taken(cmds, element.now)'
      BY <1>2, <1>3, <2>6 DEF Taken
    <3>2. QED
      BY <2>2, <2>3, <3>1 DEF Led
  <2>7. CASE Loading(cmds, evts, element.now)
    <3>1. Loading(cmds, evts, element.now)'
      BY <1>2, <2>7 DEF Loading
    <3>2. QED
      BY <2>2, <2>3, <3>1 DEF Led
  <2>8. QED
    BY <2>1, <2>2, <2>3, <2>4, <2>5, <2>6, <2>7 DEF Led
<1>6. Sound' => Sound
  BY DEF Sound, Orderly
<1>7. QED
  BY <1>4, <1>5, <1>6 DEF PlayInv

\* A seek that has been carried out is sought.
LEMMA SeekSought ==
  ASSUME TInv, NEW tick \in Ticks, Seek(tick), CanSeek(ctl)
  PROVE  /\ ctl'.infos = ctl.infos /\ expect' = Target(tick) /\ Sought'
         /\ \/ ctl'.resolve = ctl.resolve
            \/ ctl'.io.at # 0
         /\ lapses \subseteq lapses' /\ UNCHANGED media
<1> DEFINE c == SeekTo(ctl, tick)
<1>1. /\ ctl.life = "started" /\ (ctl.index \in ctl.infos => ctl.io.there)
      /\ ctl' = [c EXCEPT !.reporter = TRUE] /\ expect' = Target(tick)
      /\ lapses \subseteq lapses' /\ UNCHANGED media
  BY DEF Seek
<1>2. ctl \in Controllers /\ Placed(ctl)
  BY DEF TInv, TypeInv, StepInv
<1>3. /\ c \in Controllers /\ c.infos = ctl.infos
      /\ \/ c.pendingSeek = tick /\ c.resolve = ctl.resolve
         \/ c.io.at \in DOMAIN Keyframes /\ c.resolve = Target(tick)
  BY <1>1, <1>2, SeekToPlaced
<1> HIDE DEF c
<1>4. /\ ctl'.io = c.io /\ ctl'.infos = c.infos
      /\ ctl'.pendingSeek = c.pendingSeek /\ ctl'.resolve = c.resolve
  BY <1>1, <1>3 DEF Controllers
<1>5. tick # None /\ Target(tick) # None
  BY TicksAreNat, SeekRight DEF None
<1>6. Sought'
  BY <1>3, <1>4, <1>5 DEF Sought
<1>7. ctl'.resolve = ctl.resolve \/ ctl'.io.at # 0
  BY <1>3, <1>4, Table
<1>8. QED
  BY <1>1, <1>3, <1>4, <1>6, <1>7

\* A seek: it is sought, or there is nothing read yet and it is ignored.
LEMMA SeekPlays ==
  ASSUME IInv, PlayInv, cmds # <<>>, cmds' = Tail(cmds), NEW tick \in Ticks,
         Head(cmds) = <<"seek", tick>>, Seek(tick),
         UNCHANGED <<player, element, evts, setting, faults>>
  PROVE  PlayInv'
<1>1. cmds \in Seq(Commands) /\ TInv /\ element.now \in Ticks /\ ReadInv
  BY Positions DEF IInv, PInv, PlayerTypes
<1>2. /\ PausesFirst(cmds) => PausesFirst(cmds') /\ ~HasPause(cmds')
      /\ HasSeek(cmds)
      /\ \A to : SeekLast(cmds, to) =>
           \/ HasSeek(cmds') /\ SeekLast(cmds', to)
           \/ ~HasSeek(cmds') /\ Head(cmds) = <<"seek", to>>
  BY <1>1, CommandPopped
<1>3. CASE ~CanSeek(ctl)
  <2>1. ctl' = ctl /\ expect' = expect /\ lapses' = lapses /\ UNCHANGED media
    BY <1>3 DEF Seek
  <2>2. ReadyInv' /\ Grouped(element.buffered)' /\ FirstInv'
    BY <2>1 DEF PlayInv, ReadyInv, Grouped, FirstInv, Sought
  <2>3. ASSUME player.transmuxer, Sound'
        PROVE  OrderInv' /\ PointInv' /\ Led(player, element, cmds, evts)'
    <3>1. /\ Sound /\ ctl.infos = {}
      BY <1>3, <2>1, <2>3 DEF Sound, Orderly, CanSeek
    <3>2. /\ OrderInv /\ PointInv /\ Led(player, element, cmds, evts)
          /\ FirstInv /\ ~Sought /\ ~Pointed(evts)
      BY <2>3, <3>1 DEF PlayInv, FirstInv
    <3>3. /\ ctl.io.state # "paused" /\ ~HasPause(cmds') /\ PausesFirst(cmds')
          /\ \A i \in DOMAIN evts : evts[i].msg # "media"
      BY <1>1, <1>2, <3>1, <3>2 DEF ReadInv, OrderInv
    <3>4. OrderInv' /\ PointInv'
      BY <2>1, <3>2, <3>3 DEF OrderInv, PointInv, Met, Pointed
    <3>5. CASE \/ Unheard(player, element) \/ NoGroup(element.now)
               \/ element.now \in element.buffered \/ Early(element.now)
               \/ Announced(evts, element.now) \/ (~setting.accurateSeek /\ Pointed(evts))
      BY <3>4, <3>5 DEF Led, Unheard, Early
    <3>6. CASE HasSeek(cmds') /\ (setting.accurateSeek => SeekLast(cmds', element.now))
      BY <3>4, <3>6 DEF Led, Sent
    <3>7. CASE ~HasSeek(cmds')
      <4>1. NoGroup(element.now) \/ Loading(cmds', evts, element.now)
        BY <1>1, <3>1, <3>2, <3>3, <3>7, FreshLoads
      <4>2. NoGroup(element.now)' \/ Loading(cmds, evts, element.now)'
        BY <2>1, <4>1 DEF Loading
      <4>3. QED
        BY <3>4, <4>2 DEF Led
    <3>8. QED
      BY <1>2, <3>2, <3>5, <3>6, <3>7 DEF Led, Sent, Taken, Loading
  <2>4. QED
    BY <2>2, <2>3 DEF PlayInv
<1>4. CASE CanSeek(ctl)
  <2>1. /\ ctl'.infos = ctl.infos /\ expect' = Target(tick) /\ Sought'
        /\ \/ ctl'.resolve = ctl.resolve
           \/ ctl'.io.at # 0
        /\ lapses \subseteq lapses' /\ UNCHANGED media
    BY <1>1, <1>4, SeekSought
  <2>2. /\ ctl'.io.state = "paused" => ctl.io.state = "paused"
        /\ ctl'.io.state = "paused" => Waiting'
    BY <1>1, <1>4, SeekGoesOn
  <2>3. ReadyInv' /\ Grouped(element.buffered)' /\ FirstInv'
    BY <1>4, <2>1 DEF PlayInv, ReadyInv, Grouped, FirstInv, CanSeek
  <2>4. ASSUME player.transmuxer, Sound'
        PROVE  OrderInv' /\ PointInv' /\ Led(player, element, cmds, evts)'
    <3>1. Sound
      BY <2>1, <2>4 DEF Sound, Orderly
    <3>2. OrderInv /\ Led(player, element, cmds, evts)
      BY <2>4, <3>1 DEF PlayInv
    <3>3. OrderInv' /\ PointInv'
      <4>1. PausesFirst(cmds') /\ ~HasPause(cmds')
        BY <1>2, <3>2 DEF OrderInv
      <4>2. ctl'.io.state = "paused" => ctl'.resolve = None /\ Waiting'
        BY <2>1, <2>2, <3>2 DEF OrderInv, Waiting
      <4>3. QED
        BY <2>1, <4>1, <4>2 DEF OrderInv, PointInv
    <3>4. CASE \/ Unheard(player, element) \/ NoGroup(element.now)
               \/ element.now \in element.buffered \/ Early(element.now)
               \/ Announced(evts, element.now) \/ (~setting.accurateSeek /\ Pointed(evts))
      BY <3>3, <3>4 DEF Led, Unheard, Early
    <3>5. CASE HasSeek(cmds') /\ (setting.accurateSeek => SeekLast(cmds', element.now))
      BY <3>3, <3>5 DEF Led, Sent
    <3>6. CASE ~HasSeek(cmds') /\ (setting.accurateSeek => tick = element.now)
      <4>1. Taken(cmds, element.now)'
        BY <2>1, <3>6 DEF Taken
      <4>2. QED
        BY <3>3, <4>1 DEF Led
    <3>7. QED
      BY <1>2, <3>2, <3>4, <3>5, <3>6 DEF Led, Sent, Taken, Loading
  <2>5. QED
    BY <2>3, <2>4 DEF PlayInv
<1>5. QED
  BY <1>3, <1>4

\* Any command.
LEMMA CommandLeads == ASSUME IInv, PlayInv, Command PROVE PlayInv'
<1>1. /\ cmds # <<>> /\ cmds \in Seq(Commands) /\ ctl \in Controllers /\ ctl.io \in IOs
      /\ cmds' = Tail(cmds) /\ UNCHANGED <<player, element, evts, setting, faults>>
  BY DEF IInv, PInv, PlayerTypes, TInv, TypeInv, Command, Controllers
<1>2. Head(cmds) = cmds[1] /\ cmds[1] \in Commands
  BY <1>1, Popped
<1>3. CASE Head(cmds)[1] = "start" /\ Start
  <2>1. /\ ctl'.infos = ctl.infos /\ ctl'.resolve = ctl.resolve
        /\ ctl'.pendingSeek = ctl.pendingSeek /\ ctl'.io.state = "working"
        /\ UNCHANGED <<media, expect, lapses>>
    BY <1>1, <1>3 DEF Start, LoadSegment, Controllers
  <2>2. QED
    BY <1>1, <1>3, <2>1, CommandPlays
<1>4. CASE Head(cmds)[1] = "pause" /\ Pause
  <2>1. /\ ctl'.infos = ctl.infos /\ ctl'.resolve = ctl.resolve
        /\ ctl'.pendingSeek = ctl.pendingSeek /\ UNCHANGED <<media, expect, lapses>>
    BY <1>1, <1>4 DEF Pause, Controllers
  <2>2. QED
    BY <1>1, <1>4, <2>1, CommandPlays
<1>5. CASE Head(cmds)[1] = "resume" /\ Resume
  <2>1. /\ ctl'.infos = ctl.infos /\ ctl'.resolve = ctl.resolve
        /\ ctl'.pendingSeek = ctl.pendingSeek /\ ctl'.io.state # "paused"
        /\ UNCHANGED <<media, expect, lapses>>
    BY <1>1, <1>5 DEF Resume, Controllers, IOs
  <2>2. QED
    BY <1>1, <1>5, <2>1, CommandPlays
<1>6. CASE Head(cmds)[1] = "seek" /\ Seek(Head(cmds)[2])
  <2>1. PICK tick \in Ticks : Head(cmds) = <<"seek", tick>>
    BY <1>2, <1>6 DEF Commands
  <2>2. Seek(tick)
    BY <1>6, <2>1
  <2>3. QED
    BY <1>1, <2>1, <2>2, SeekPlays
<1>7. QED
  BY <1>3, <1>4, <1>5, <1>6 DEF Command

-----------------------------------------------------------------------------
\* Nothing is lost by an event that tells of no place.
LEMMA QuietPushed ==
  ASSUME NEW v \in Seq(Events), NEW x \in Events, x.msg # "media", x.msg # "seekpoint"
  PROVE  LET w == v \o <<x>>
         IN  /\ w \in Seq(Events)
             /\ Readying(v) \/ x.msg = "init" => Readying(w)
             /\ Pointed(w) <=> Pointed(v)
             /\ \A tick : Announced(v, tick) => Announced(w, tick)
             /\ \A tick : Below(v, tick) => Below(w, tick)
             /\ \A b : Met(v, b) => Met(w, b)
BY EventPushed

\* A step of the controller that brings such events only.
LEMMA QuietPlays ==
  ASSUME IInv, PlayInv, UNCHANGED <<player, element, cmds, setting, faults, media, expect>>,
         lapses \subseteq lapses', Sought' <=> Sought, ctl.infos \subseteq ctl'.infos,
         ctl'.infos = ctl.infos \/ Readying(evts'),
         ctl'.io.state = "paused" =>
           /\ ctl.io.state = "paused" /\ Waiting' = Waiting
           /\ ctl'.resolve = ctl.resolve /\ ctl'.pendingSeek = ctl.pendingSeek,
         Readying(evts) => Readying(evts'), Pointed(evts') <=> Pointed(evts),
         \A tick : Announced(evts, tick) => Announced(evts', tick),
         \A tick : Below(evts, tick) => Below(evts', tick),
         \A b : Met(evts, b) => Met(evts', b)
  PROVE  PlayInv'
<1>1. ReadyInv' /\ Grouped(element.buffered)' /\ FirstInv'
  BY DEF PlayInv, ReadyInv, Grouped, FirstInv
<1>2. Sound' => Sound
  BY DEF Sound, Orderly
<1>3. ASSUME player.transmuxer, Sound
      PROVE  OrderInv' /\ PointInv' /\ Led(player, element, cmds, evts)'
  <2>1. OrderInv /\ PointInv /\ Led(player, element, cmds, evts)
    BY <1>3 DEF PlayInv
  <2>2. OrderInv'
    BY <2>1 DEF OrderInv
  <2>3. PointInv'
    BY <2>1 DEF PointInv
  <2>4. CASE \/ Unheard(player, element) \/ NoGroup(element.now) \/ element.now \in element.buffered
             \/ Early(element.now) \/ Announced(evts, element.now)
             \/ (~setting.accurateSeek /\ Pointed(evts))
    BY <2>2, <2>3, <2>4 DEF Led, Unheard, Early
  <2>5. CASE Sent(cmds, element.now)
    <3>1. Sent(cmds, element.now)'
      BY <2>5 DEF Sent
    <3>2. QED
      BY <2>2, <2>3, <3>1 DEF Led
  <2>6. CASE Taken(cmds, element.now)
    <3>1. Taken(cmds, element.now)'
      BY <2>6 DEF Taken
    <3>2. QED
      BY <2>2, <2>3, <3>1 DEF Led
  <2>7. CASE Loading(cmds, evts, element.now)
    <3>1. Loading(cmds, evts, element.now)'
      BY <2>7 DEF Loading
    <3>2. QED
      BY <2>2, <2>3, <3>1 DEF Led
  <2>8. QED
    BY <2>1, <2>4, <2>5, <2>6, <2>7 DEF Led
<1>4. QED
  BY <1>1, <1>2, <1>3 DEF PlayInv

\* What the controller brings when it brings nothing.
LEMMA NothingBrought ==
  ASSUME IInv, evts' = evts \o out', out' = <<>>
  PROVE  evts' = evts
BY Unpushed DEF IInv, PInv, PlayerTypes

\* Two events, one after the other.
LEMMA PushedTwice ==
  ASSUME NEW S, NEW s \in Seq(S), NEW a \in S, NEW b \in S
  PROVE  s \o <<a, b>> = (s \o <<a>>) \o <<b>>
<1> DEFINE u == s \o <<a, b>>
           w == (s \o <<a>>) \o <<b>>
<1>1. u \in Seq(S) /\ w \in Seq(S) /\ Len(u) = Len(s) + 2 /\ Len(w) = Len(s) + 2
  OBVIOUS
<1>2. ASSUME NEW i \in 1 .. Len(s) + 2 PROVE u[i] = w[i]
  <2>1. CASE i <= Len(s)
    BY <2>1
  <2>2. CASE i = Len(s) + 1
    BY <2>2
  <2>3. CASE i = Len(s) + 2
    BY <2>3
  <2>4. QED
    BY <2>1, <2>2, <2>3
<1> HIDE DEF u, w
<1>3. u = w
  BY <1>1, <1>2
<1>4. QED
  BY <1>3 DEF u, w

\* The head of a part: the seek that waited for it is still sought.
LEMMA OnInitChunkArrivalPlays ==
  ASSUME IInv, PlayInv, OnInitChunkArrival, evts' = evts \o out',
         UNCHANGED <<player, element, cmds, setting, faults>>
  PROVE  PlayInv'
<1> DEFINE read == [ctl EXCEPT !.demuxer = ctl.index, !.io.init = FALSE, !.io.at = 1,
                               !.infos = @ \cup {ctl.index}, !.pendingSeek = None]
           o == [ctl.io EXCEPT !.init = FALSE, !.at = 1]
<1>1. /\ ctl \in Controllers /\ ctl.io \in IOs /\ ctl.life = "started"
      /\ ctl.io.state = "working" /\ ctl.io.there /\ Placed(ctl) /\ evts \in Seq(Events)
  BY StateThere DEF IInv, PInv, PlayerTypes, TInv, TypeInv, StepInv, Controllers,
                    OnInitChunkArrival
<1>2. /\ ctl' = IF ctl.pendingSeek # None
                THEN [SeekTo(read, ctl.pendingSeek) EXCEPT !.reporter = TRUE] ELSE read
      /\ out' = <<Event("mediainfo"), Event("init")>> /\ UNCHANGED <<media, expect, lapses>>
  BY DEF OnInitChunkArrival
<1>3. /\ o \in IOs /\ o.state = "working" /\ o.part = ctl.io.part /\ o.there /\ ~o.init
      /\ o.at = 1
  <2>1. 1 \in 0 .. Len(Keyframes) + 1
    BY Table
  <2>2. QED
    BY <1>1, <2>1 DEF IOs
<1>4. /\ ctl.index \in 1 .. Parts /\ ctl.index \in 0 .. Parts
      /\ ctl.infos \cup {ctl.index} \in SUBSET (1 .. Parts)
      /\ ctl.pendingSeek \in Ticks \cup {None}
  BY <1>1 DEF Controllers
<1>5. read = [ctl EXCEPT !.demuxer = ctl.index, !.io = o, !.infos = ctl.infos \cup {ctl.index},
                         !.pendingSeek = None]
  BY <1>1 DEF Controllers
<1> HIDE DEF o
<1>6. /\ read \in Controllers /\ read.io = o /\ read.infos = ctl.infos \cup {ctl.index}
      /\ read.life = "started" /\ read.index = ctl.index /\ read.demuxer = ctl.index
      /\ read.resolve = ctl.resolve /\ read.pendingSeek = None
  <2>1. None \in Ticks \cup {None}
    OBVIOUS
  <2>2. read \in Controllers
    BY <1>1, <1>3, <1>4, <1>5, <2>1 DEF Controllers
  <2>3. QED
    BY <1>1, <1>5, <2>2 DEF Controllers
<1> HIDE DEF read
<1>7. Placed(read)
  BY <1>1, <1>3, <1>6 DEF Placed
<1>8. /\ ctl'.io.state = "working" /\ ctl'.infos = ctl.infos \cup {ctl.index}
      /\ Sought' <=> Sought
  <2>1. CASE ctl.pendingSeek = None
    BY <1>2, <1>3, <1>6, <2>1 DEF Sought
  <2>2. CASE ctl.pendingSeek # None
    <3> DEFINE d == SeekTo(read, ctl.pendingSeek)
    <3>1. ctl.pendingSeek \in Ticks
      BY <1>4, <2>2
    <3>2. /\ d \in Controllers /\ d.infos = read.infos
          /\ d.pendingSeek = ctl.pendingSeek \/ d.resolve = Target(ctl.pendingSeek)
      BY <1>3, <1>6, <1>7, <3>1, SeekToPlaced
    <3>3. d.io.state = "working"
      BY <1>3, <1>6, <3>1, SeekToGoesOn
    <3>4. ctl' = [d EXCEPT !.reporter = TRUE]
      BY <1>2, <2>2
    <3> HIDE DEF d
    <3>5. /\ ctl'.io.state = "working" /\ ctl'.infos = d.infos
          /\ ctl'.pendingSeek = d.pendingSeek /\ ctl'.resolve = d.resolve
      BY <3>2, <3>3, <3>4 DEF Controllers
    <3>6. Target(ctl.pendingSeek) # None
      BY <3>1, SeekRight, TicksAreNat DEF None
    <3>7. QED
      BY <1>6, <2>2, <3>2, <3>5, <3>6 DEF Sought
  <2>3. QED
    BY <2>1, <2>2
<1>9. /\ Event("mediainfo") \in Events /\ Event("init") \in Events
      /\ Event("mediainfo").msg = "mediainfo" /\ Event("init").msg = "init"
  BY EventTypes DEF Event
<1> DEFINE w == evts \o <<Event("mediainfo")>>
<1>10. evts' = w \o <<Event("init")>>
  BY <1>1, <1>2, <1>9, PushedTwice
<1>11. /\ w \in Seq(Events) /\ (Pointed(w) <=> Pointed(evts))
       /\ \A tick : Announced(evts, tick) => Announced(w, tick)
       /\ \A tick : Below(evts, tick) => Below(w, tick)
       /\ \A b : Met(evts, b) => Met(w, b)
  BY <1>1, <1>9, QuietPushed
<1> HIDE DEF w
<1>12. /\ Readying(evts') /\ (Pointed(evts') <=> Pointed(w))
       /\ \A tick : Announced(w, tick) => Announced(evts', tick)
       /\ \A tick : Below(w, tick) => Below(evts', tick)
       /\ \A b : Met(w, b) => Met(evts', b)
  BY <1>9, <1>10, <1>11, QuietPushed
<1>13. QED
  BY <1>2, <1>8, <1>11, <1>12, QuietPlays

\* One such event, or none, of a controller that keeps what it looks for.
LEMMA QuietlyBrought ==
  ASSUME IInv, PlayInv, UNCHANGED <<player, element, cmds, setting, faults, media, expect>>,
         evts' = evts \o out', lapses \subseteq lapses',
         \/ out' = <<>>
         \/ \E msg \in {"demux_error", "io_error", "complete"} : out' = <<Event(msg)>>,
         ctl'.infos = ctl.infos, ctl'.resolve = ctl.resolve, ctl'.pendingSeek = ctl.pendingSeek,
         ctl'.io.state = "paused" => ctl.io.state = "paused" /\ Waiting' = Waiting
  PROVE  PlayInv'
<1>1. evts \in Seq(Events)
  BY DEF IInv, PInv, PlayerTypes
<1>2. /\ Readying(evts) => Readying(evts')
      /\ Pointed(evts') <=> Pointed(evts)
      /\ \A tick : Announced(evts, tick) => Announced(evts', tick)
      /\ \A tick : Below(evts, tick) => Below(evts', tick)
      /\ \A b : Met(evts, b) => Met(evts', b)
  <2>1. CASE out' = <<>>
    BY <2>1, NothingBrought
  <2>2. CASE out' # <<>>
    <3>0. PICK msg \in {"demux_error", "io_error", "complete"} : out' = <<Event(msg)>>
      BY <2>2
    <3>1. /\ Event(msg) \in Events /\ Event(msg).msg # "media" /\ Event(msg).msg # "seekpoint"
          /\ evts' = evts \o <<Event(msg)>>
      BY <3>0, EventTypes DEF Event
    <3>2. QED
      BY <1>1, <3>1, QuietPushed
  <2>3. QED
    BY <2>1, <2>2
<1>3. Sought' <=> Sought
  BY DEF Sought
<1>4. QED
  BY <1>2, <1>3, QuietPlays

\* The head of a part that is not flv, the end of a part, and an error.
LEMMA EndsPlay ==
  ASSUME IInv, PlayInv, evts' = evts \o out', UNCHANGED <<player, element, cmds, setting, faults>>,
         OnInitChunkUnsupported \/ OnIOComplete \/ OnIOException
  PROVE  PlayInv'
<1>1. ctl \in Controllers /\ ctl.io \in IOs
  BY DEF IInv, TInv, TypeInv, Controllers
<1>2. CASE OnInitChunkUnsupported
  <2>1. /\ ctl' = [ctl EXCEPT !.io = NoIO] /\ UNCHANGED <<media, expect, lapses>>
        /\ out' = <<Event("demux_error")>>
    BY <1>2 DEF OnInitChunkUnsupported, InternalAbort
  <2>2. /\ ctl'.io = NoIO /\ ctl'.infos = ctl.infos /\ ctl'.resolve = ctl.resolve
        /\ ctl'.pendingSeek = ctl.pendingSeek
    BY <1>1, <2>1 DEF Controllers
  <2>3. ctl'.io.state # "paused"
    BY <2>2 DEF NoIO
  <2>4. QED
    BY <2>1, <2>2, <2>3, QuietlyBrought
<1>3. CASE OnIOComplete
  <2> DEFINE more == ctl.io.part + 1 <= Parts
             state == IF ctl.io.state = "paused" THEN "paused" ELSE "done"
  <2>1. /\ ctl' = IF more THEN LoadSegment(ctl, ctl.io.part + 1, 0)
                  ELSE [ctl EXCEPT !.reporter = FALSE, !.io.state = state]
        /\ out' = IF more THEN <<>> ELSE <<Event("complete")>>
        /\ lapses \subseteq lapses' /\ UNCHANGED <<media, expect>>
    BY <1>1, <1>3 DEF OnIOComplete
  <2> HIDE DEF more, state
  <2>2. /\ ctl'.infos = ctl.infos /\ ctl'.resolve = ctl.resolve
        /\ ctl'.pendingSeek = ctl.pendingSeek
        /\ ctl'.io.state = "paused" => ctl.io.state = "paused" /\ Waiting' = Waiting
    <3>1. CASE more
      <4>1. ctl' = LoadSegment(ctl, ctl.io.part + 1, 0)
        BY <2>1, <3>1
      <4>2. QED
        BY <1>1, <4>1 DEF LoadSegment, Controllers
    <3>2. CASE ~more
      <4>1. ctl' = [ctl EXCEPT !.reporter = FALSE, !.io.state = state]
        BY <2>1, <3>2
      <4>2. /\ ctl'.io.state = state /\ ctl'.infos = ctl.infos /\ ctl'.resolve = ctl.resolve
            /\ ctl'.io.at = ctl.io.at /\ ctl'.index = ctl.index
            /\ ctl'.pendingSeek = ctl.pendingSeek
        BY <1>1, <4>1 DEF Controllers, IOs
      <4>3. QED
        BY <4>2 DEF Waiting, state
    <3>3. QED
      BY <3>1, <3>2
  <2>3. out' = <<>> \/ out' = <<Event("complete")>>
    BY <2>1
  <2>4. QED
    BY <2>1, <2>2, <2>3, QuietlyBrought
<1>4. CASE OnIOException
  <2> DEFINE state == IF ctl.io.state = "paused" THEN "paused" ELSE "failed"
  <2>1. /\ UNCHANGED <<media, expect, lapses>> /\ out' = <<Event("io_error")>>
        /\ ctl' = [ctl EXCEPT !.io.state = state, !.reporter = FALSE]
    BY <1>1, <1>4 DEF OnIOException
  <2> HIDE DEF state
  <2>2. /\ ctl'.io.state = state /\ ctl'.infos = ctl.infos /\ ctl'.resolve = ctl.resolve
        /\ ctl'.io.at = ctl.io.at /\ ctl'.index = ctl.index
        /\ ctl'.pendingSeek = ctl.pendingSeek
    BY <1>1, <2>1 DEF Controllers, IOs
  <2>3. ctl'.io.state = "paused" => ctl.io.state = "paused" /\ Waiting' = Waiting
    BY <2>2 DEF Waiting, state
  <2>4. QED
    BY <2>1, <2>2, <2>3, QuietlyBrought
<1>5. QED
  BY <1>2, <1>3, <1>4

\* A group is brought that is dropped, as a seek is pending.
LEMMA GroupDropped ==
  ASSUME IInv, PlayInv, OnDataArrival, ctl.pendingSeek # None, evts' = evts \o out',
         UNCHANGED <<player, element, cmds, setting, faults>>
  PROVE  PlayInv'
<1> DEFINE next == [ctl EXCEPT !.demuxer = IF ctl.io.init THEN ctl.index ELSE ctl.demuxer,
                               !.io.init = FALSE, !.io.at = @ + 1]
<1>1. /\ ctl' = next /\ out' = <<>> /\ UNCHANGED <<media, expect, lapses>>
      /\ ctl.io.state = "working" /\ ctl \in Controllers /\ ctl.io \in IOs
  BY DEF OnDataArrival, IInv, TInv, TypeInv, Controllers
<1>2. /\ ctl'.infos = ctl.infos /\ ctl'.resolve = ctl.resolve
      /\ ctl'.pendingSeek = ctl.pendingSeek /\ ctl'.io.state = "working"
  BY <1>1 DEF Controllers, IOs
<1>3. QED
  BY <1>1, <1>2, QuietlyBrought

\* A group is brought and announced: the seek is answered.
LEMMA GroupPlays ==
  ASSUME IInv, PlayInv, OnDataArrival, ctl.pendingSeek = None, evts' = evts \o out',
         UNCHANGED <<player, element, cmds, setting, faults>>
  PROVE  PlayInv'
<1> DEFINE demuxer == IF ctl.io.init THEN ctl.index ELSE ctl.demuxer
           x == TickOf(demuxer, ctl.io.at)
           next == [ctl EXCEPT !.demuxer = demuxer, !.io.init = FALSE, !.io.at = @ + 1]
<1>1. /\ TInv /\ ctl \in Controllers /\ ctl.io \in IOs /\ ctl.io.state = "working"
      /\ ctl.io.at \in DOMAIN Keyframes /\ ctl.io.there /\ Placed(ctl)
      /\ evts \in Seq(Events) /\ element.now \in Ticks
  BY StateThere, Positions DEF IInv, PInv, PlayerTypes, TInv, TypeInv, StepInv, Controllers,
                               OnDataArrival
<1>2. demuxer = ctl.index /\ ctl.index \in 1 .. Parts /\ ctl.io.part = ctl.index /\ ctl.infos # {}
      /\ ctl.resolve \in Ticks \cup {None}
  BY <1>1, Table DEF Placed, Controllers
<1>3. /\ out' = IF ctl.resolve # None THEN <<Media(x), SeekPoint(ctl.resolve)>> ELSE <<Media(x)>>
      /\ "paused" \notin lapses /\ ctl.resolve # None => ctl.resolve = x
      /\ Orderly => expect = x
  BY <1>1, GroupAnnounced
<1>4. /\ ctl' = [next EXCEPT !.resolve = None] /\ expect' = After(ctl.index, ctl.io.at)
      /\ UNCHANGED <<media, lapses>>
  BY <1>2 DEF OnDataArrival
<1>5. x \in Starts /\ x = TickOf(ctl.index, ctl.io.at)
  BY <1>1, <1>2 DEF Starts
<1>6. /\ ctl'.infos = ctl.infos /\ ctl'.resolve = None /\ ctl'.pendingSeek = None
      /\ ctl'.io.state = "working"
  BY <1>1, <1>4 DEF Controllers, IOs
<1> HIDE DEF x, demuxer, next
<1>7. /\ Media(x) \in Events /\ Media(x).msg = "media" /\ Media(x).tick = x
      /\ ctl.resolve # None =>
           /\ SeekPoint(ctl.resolve) \in Events /\ SeekPoint(ctl.resolve).msg = "seekpoint"
           /\ SeekPoint(ctl.resolve).tick = ctl.resolve
  BY <1>2, <1>5, EventTypes DEF Media, SeekPoint
<1> DEFINE w == evts \o <<Media(x)>>
<1>8. /\ w \in Seq(Events) /\ (Readying(evts) => Readying(w)) /\ (Pointed(w) <=> Pointed(evts))
      /\ \A tick : Announced(evts, tick) => Announced(w, tick)
      /\ \A tick \in Covers(x) : Announced(w, tick)
      /\ \A tick : Below(evts, tick) /\ x < tick => Below(w, tick)
      /\ Coming(w, x) /\ \A b : Met(evts, b) => Met(w, b)
  BY <1>1, <1>7, EventPushed
<1>9. /\ ctl.resolve = None => evts' = w
      /\ ctl.resolve # None => evts' = w \o <<SeekPoint(ctl.resolve)>>
  <2>1. CASE ctl.resolve = None
    <3>1. out' = <<Media(x)>>
      BY <1>3, <2>1
    <3>2. QED
      BY <2>1, <3>1
  <2>2. CASE ctl.resolve # None
    <3>1. out' = <<Media(x), SeekPoint(ctl.resolve)>>
      BY <1>3, <2>2
    <3>2. evts \o <<Media(x), SeekPoint(ctl.resolve)>> = w \o <<SeekPoint(ctl.resolve)>>
      BY <1>1, <1>7, <2>2, PushedTwice
    <3>3. QED
      BY <2>2, <3>1, <3>2
  <2>3. QED
    BY <2>1, <2>2
<1> HIDE DEF w
<1>10. /\ Readying(w) => Readying(evts')
       /\ Pointed(w) => Pointed(evts')
       /\ \A tick : Announced(w, tick) => Announced(evts', tick)
       /\ \A tick : Below(w, tick) => Below(evts', tick)
       /\ ctl.resolve # None => Pointed(evts')
       /\ ctl.resolve = x => \A b : Met(evts', b)
  <2>1. CASE ctl.resolve = None
    <3>1. x # None
      BY <1>5, PlacesAreTicks DEF None
    <3>2. QED
      BY <1>9, <2>1, <3>1
  <2>2. CASE ctl.resolve # None
    BY <1>7, <1>8, <1>9, <2>2, EventPushed
  <2>3. QED
    BY <2>1, <2>2
<1>11. ReadyInv' /\ Grouped(element.buffered)' /\ FirstInv'
  BY <1>2, <1>6, <1>8, <1>10 DEF PlayInv, ReadyInv, Grouped, FirstInv
<1>12. Sound' => Sound
  BY <1>4 DEF Sound, Orderly
<1>13. ASSUME player.transmuxer, Sound
       PROVE  OrderInv' /\ PointInv' /\ Led(player, element, cmds, evts)'
  <2>1. /\ OrderInv /\ PointInv /\ Led(player, element, cmds, evts)
        /\ expect = x /\ (ctl.resolve # None => ctl.resolve = x)
    BY <1>3, <1>13 DEF PlayInv, Sound, Orderly
  <2>2. OrderInv'
    BY <1>6, <2>1 DEF OrderInv, Sought
  <2>3. PointInv'
    <3>1. CASE ctl.resolve # None
      BY <1>10, <2>1, <3>1 DEF PointInv
    <3>2. CASE ctl.resolve = None
      BY <1>8, <1>9, <2>1, <3>2 DEF PointInv, Sought
    <3>3. QED
      BY <3>1, <3>2
  <2>4. CASE \/ Unheard(player, element) \/ NoGroup(element.now) \/ element.now \in element.buffered
             \/ Early(element.now) \/ Announced(evts', element.now)
             \/ (~setting.accurateSeek /\ Pointed(evts'))
    BY <2>2, <2>3, <2>4 DEF Led, Unheard, Early, Announced, Pointed
  <2>5. CASE Announced(evts, element.now) \/ (~setting.accurateSeek /\ Pointed(evts))
    BY <1>8, <1>10, <2>4, <2>5
  <2>6. CASE Sent(cmds, element.now)
    <3>1. Sent(cmds, element.now)'
      BY <2>6 DEF Sent
    <3>2. QED
      BY <2>2, <2>3, <3>1 DEF Led
  <2>7. CASE Taken(cmds, element.now)
    <3>1. ctl.resolve # None /\ (setting.accurateSeek => x = Target(element.now))
      BY <2>1, <2>7 DEF Taken, Sought
    <3>2. CASE ~setting.accurateSeek
      BY <1>10, <2>4, <3>1, <3>2
    <3>3. CASE setting.accurateSeek /\ ~NoGroup(element.now) /\ ~BeforePart(element.now)
      <4>1. element.now \in Covers(x)
        BY <1>1, <3>1, <3>3, TargetCovers
      <4>2. QED
        BY <1>8, <1>10, <2>4, <4>1
    <3>4. QED
      BY <2>4, <3>2, <3>3 DEF Early
  <2>8. CASE Loading(cmds, evts, element.now)
    <3>1. PICK k \in Starts : element.now \in Covers(k) /\ x <= k
      BY <2>1, <2>8 DEF Loading
    <3>2. CASE x = k
      BY <1>8, <1>10, <2>4, <3>1, <3>2
    <3>3. CASE x # k
      <4>1. x \in Nat /\ k \in Nat /\ x < k
        BY <1>5, <3>1, <3>3, Groups
      <4>2. expect' \in Starts /\ x < expect' /\ expect' <= k /\ expect' \in Nat
        BY <1>1, <1>2, <1>4, <1>5, <4>1, NextStart
      <4>3. Below(evts, expect')
        <5>1. \A i \in DOMAIN evts : evts[i].msg = "media" => evts[i].tick \in Starts
          <6> SUFFICES ASSUME NEW i \in DOMAIN evts, evts[i].msg = "media"
                       PROVE  evts[i].tick \in Starts
            OBVIOUS
          <6>1. evts[i] \in Events
            BY <1>1
          <6>2. QED
            BY <6>1 DEF Events
        <5>2. \A i \in DOMAIN evts : evts[i].msg = "media" => evts[i].tick < x
          BY <2>1, <2>8 DEF Loading, Below
        <5> DEFINE m == expect'
        <5>3. m \in Nat /\ x < m
          BY <4>2
        <5> HIDE DEF m
        <5>4. Below(evts, m)
          <6> SUFFICES ASSUME NEW i \in DOMAIN evts, evts[i].msg = "media"
                       PROVE  evts[i].tick < m
            BY DEF Below
          <6>1. evts[i].tick \in Nat /\ evts[i].tick < x
            BY <5>1, <5>2, Groups
          <6>2. QED
            BY <4>1, <5>3, <6>1
        <5>5. QED
          BY <5>4 DEF m
      <4>4. Below(evts', expect')
        BY <1>8, <1>10, <4>2, <4>3
      <4>5. Loading(cmds, evts, element.now)'
        BY <1>6, <2>8, <3>1, <4>2, <4>4 DEF Loading
      <4>6. QED
        BY <2>2, <2>3, <4>5 DEF Led
    <3>4. QED
      BY <3>2, <3>3
  <2>9. QED
    BY <2>1, <2>4, <2>5, <2>6, <2>7, <2>8 DEF Led
<1>14. QED
  BY <1>11, <1>12, <1>13 DEF PlayInv

\* Whatever the controller does of itself.
LEMMA BringPlays == ASSUME IInv, PlayInv, Bring PROVE PlayInv'
<1>1. /\ evts' = evts \o out' /\ UNCHANGED <<player, element, cmds, setting, faults>>
      /\ Data \/ OnIOException
  BY DEF Bring
<1>2. QED
  BY <1>1, OnInitChunkArrivalPlays, EndsPlay, GroupDropped, GroupPlays DEF Data

-----------------------------------------------------------------------------
(* The invariant and what follows from it. *)

\* In the beginning there is nothing to lead on.
LEMMA InitPlayInv == Init => PlayInv
BY DEF Init, TransmuxingInit, NewElement, PlayInv, ReadyInv, Grouped, FirstInv, Sought, Pointed, None

\* Every step leaves the player led on.
LEMMA NextPlayInv ==
  ASSUME LazyMax # 0 PROVE IInv /\ PlayInv /\ [Next]_vars => PlayInv'
<1> SUFFICES ASSUME IInv, PlayInv, [Next]_vars PROVE PlayInv'
  OBVIOUS
<1>0. IInv'
  BY NextIInv
<1>1. CASE UNCHANGED vars
  BY <1>1 DEF vars, pvars, tvars, PlayInv, ReadyInv, Grouped, FirstInv, OrderInv, PointInv, Led,
              Unheard, Early, Sent, Taken, Loading, Sought, Sound, Orderly, Waiting
<1>2. CASE AttachMediaElement \/ DetachMediaElement
  BY <1>2, AttachMediaElementPlays, DetachMediaElementPlays
<1>3. CASE Load \/ OnSourceOpen \/ Unload
  BY <1>0, <1>3, LoadPlays, OnSourceOpenPlays, UnloadPlays
<1>4. ASSUME NEW tick \in Ticks, SeekUnattached(tick) \/ InternalSeek(tick) \/ ProgressBar(tick)
      PROVE  PlayInv'
  BY <1>4, SeekUnattachedPlays, InternalSeekPlays, ProgressBarPlays
<1>5. CASE OnvSeeking \/ ApplyUnbufferedSeekpoint \/ ProgressTimer \/ OnmseUpdateEnd
  BY <1>5, OnvSeekingPlays, ApplyUnbufferedSeekpointPlays, ProgressTimerPlays, OnmseUpdateEndPlays
<1>6. CASE ResumeStuckPlayback \/ Play
  BY <1>6, ResumeStuckPlaybackPlays, PlayPlays
<1>7. CASE OnInitSegment \/ OnMediaSegment \/ OnRecommendSeekpoint \/ OnOtherEvent
  BY <1>7, OnInitSegmentPlays, OnMediaSegmentPlays, OnRecommendSeekpointPlays, OnOtherEventPlays
<1>8. CASE Command \/ Bring
  BY <1>8, CommandLeads, BringPlays
<1>9. QED
  BY <1>1, <1>2, <1>3, <1>4, <1>5, <1>6, <1>7, <1>8 DEF Next

\* What leads a player on that has settled is in its buffer.
LEMMA PlayInvPlayable == ASSUME IInv, PlayInv PROVE Playable
<1> SUFFICES ASSUME Settled, media.indexed, Orderly, faults = {}, ~Waiting, ~BeforeKeyframes
             PROVE  Leads(element)
  BY DEF Playable, LeadsOn
<1>1. /\ cmds = <<>> /\ evts = <<>> /\ player.transmuxer /\ ctl.io.state = "paused"
      /\ element.seekings = 0 /\ player.record = None
  BY DEF Settled, Suspended
<1>2. OrderInv /\ Led(player, element, cmds, evts)
  BY <1>1 DEF PlayInv, Sound
<1>3. ~HasSeek(cmds) /\ ~Announced(evts, element.now) /\ ~Pointed(evts) /\ ~Readying(evts)
  BY <1>1 DEF HasSeek, Announced, Pointed, Readying
<1>4. ~Sought /\ element.buffered # {}
  BY <1>1, <1>2, <1>3 DEF OrderInv, Sought
<1>5. ~Unheard(player, element)
  <2>1. element.ready /\ ~element.start
    BY <1>1, <1>3 DEF PlayInv, ReadyInv, IInv, PInv, ReadInv
  <2>2. QED
    BY <1>1, <2>1 DEF Unheard
<1>6. ~Early(element.now)
  BY DEF Early, BeforePart, BeforeKeyframes
<1>7. NoGroup(element.now) \/ element.now \in element.buffered
  BY <1>1, <1>2, <1>3, <1>4, <1>5, <1>6 DEF Led, Sent, Taken, Loading
<1>8. CASE NoGroup(element.now)
  <2>1. element.buffered \subseteq Loadable
    BY DEF IInv, PInv, PlayerTypes, Elements
  <2>2. Min(element.buffered) \in element.buffered
    BY <1>4, <2>1, PlacesAreTicks, MinTick
  <2>3. PICK k \in Starts : k <= Min(element.buffered)
    BY <2>1, <2>2 DEF Loadable
  <2>4. element.now < k /\ element.now \in Nat /\ k \in Nat /\ Min(element.buffered) \in Nat
    BY <1>8, <2>1, <2>2, PlacesAreTicks, Positions DEF NoGroup
  <2>5. element.now < Min(element.buffered)
    BY <2>3, <2>4
  <2>6. QED
    BY <1>4, <2>5 DEF Leads
<1>9. QED
  BY <1>4, <1>7, <1>8 DEF Leads

\* The controller of a player that has come to rest has been suspended with the
\* position in what is buffered, or before it, so that _checkProgressAndResume
\* comes to resume it, whatever seeks, segments, seek points, events of the element
\* and suspensions have crossed each other; except where a suspension has overtaken
\* a seek, the source buffers have been full too early, or the place sought is
\* before the first keyframe of its part.  It takes a lazyLoadMaxDuration.
THEOREM PlaybackGoesOn == ASSUME LazyMax # 0 PROVE Spec => []Playable
<1>1. Init => IInv /\ PlayInv
  BY InitIInv, InitPlayInv
<1>2. IInv /\ PlayInv /\ [Next]_vars => IInv' /\ PlayInv'
  BY NextIInv, NextPlayInv
<1>3. IInv /\ PlayInv => Playable
  BY PlayInvPlayable
<1>4. QED
  BY <1>1, <1>2, <1>3, PTL DEF Spec
=============================================================================
