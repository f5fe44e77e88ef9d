---------------------------- MODULE ContentProofs ----------------------------
(***************************************************************************)
(* Theorems about what is read whole, before or after anything runs: the   *)
(* audio of a segment, for every recording; the manifest of a publication, *)
(* for every combination of its fields; and a lesson, for every number of  *)
(* segments and every combination of faults.                               *)
(***************************************************************************)
EXTENDS AudioEdges, ProductionManifest, LessonDocument, ChecksProofs

-----------------------------------------------------------------------------
(* The audio of a segment. *)

\* A set of positions has a last one.
LEMMA LastPosition ==
  ASSUME NEW n \in Nat, NEW S \in SUBSET (1 .. n), S # {}
  PROVE  Max(S) \in S /\ \A y \in S : y <= Max(S)
  <1>1. PICK T : T = {n - x : x \in S}
    OBVIOUS
  <1>2. T \in SUBSET Nat /\ T # {}
    <2>1. \A x \in S : n - x \in Nat
      OBVIOUS
    <2>2. PICK x \in S : TRUE
      OBVIOUS
    <2>3. n - x \in T
      BY <1>1
    <2> QED BY <1>1, <2>1, <2>3
  <1>3. PICK m \in T : \A t \in T : m <= t
    BY <1>2, FirstPosition
  <1>4. PICK x \in S : m = n - x
    BY <1>1, <1>3
  <1>5. ASSUME NEW y \in S
        PROVE  y <= x
    <2>1. n - y \in T
      BY <1>1
    <2>2. n - x <= n - y
      BY <1>3, <1>4, <2>1
    <2> QED BY <2>2
  <1>6. \E z \in S : \A y \in S : y <= z
    BY <1>5
  <1> QED BY <1>6 DEF Max

LEMMA SilenceIsWithin ==
  ASSUME NEW samples \in Seq(Nat)
  PROVE  LeadingSilence(samples) \in 0 .. Len(samples)
  <1>1. PICK n \in Nat : n = Len(samples)
    OBVIOUS
  <1>2. PICK loud : loud = LoudFrames(samples)
    OBVIOUS
  <1>3. loud \subseteq 1 .. n \div 2
    BY <1>1, <1>2 DEF LoudFrames, AnalysisFrame
  <1>4. n \div 2 \in Nat /\ 2 * (n \div 2) <= n
    OBVIOUS
  <1>5. SilentFrames(samples, loud) \in 0 .. n \div 2
    <2>1. CASE loud = {}
      BY <1>1, <1>4, <2>1 DEF SilentFrames, AnalysisFrame
    <2>2. CASE loud # {}
      <3>1. Min(loud) \in loud
        BY <1>3, <1>4, <2>2, FirstPosition
      <3>2. Min(loud) \in 1 .. n \div 2
        BY <1>3, <3>1
      <3> QED BY <1>4, <2>2, <3>2 DEF SilentFrames
    <2> QED BY <2>1, <2>2
  <1>6. PICK frames \in 0 .. n \div 2 : frames = SilentFrames(samples, loud)
    BY <1>5
  <1>7. 2 * frames \in 0 .. n
    BY <1>4
  <1>8. LeadingSilence(samples) = WithRemainder(samples, 2 * frames)
    BY <1>2, <1>6 DEF LeadingSilence, AnalysisFrame
  <1>9. WithRemainder(samples, 2 * frames) \in {n, 2 * frames}
    BY <1>1 DEF WithRemainder
  <1> QED BY <1>1, <1>7, <1>8, <1>9

LEMMA EdgesAreWithin ==
  ASSUME NEW samples \in Seq(Nat)
  PROVE  /\ EdgeSilence(samples) = [leading |-> EdgeSilence(samples).leading, trailing |-> EdgeSilence(samples).trailing]
         /\ EdgeSilence(samples).leading \in 0 .. Len(samples)
         /\ EdgeSilence(samples).trailing \in 0 .. Len(samples)
         /\ EdgeSilence(samples).leading = Len(samples) => EdgeSilence(samples).trailing = Len(samples)
  <1>1. PICK back : back = Reverse(samples)
    OBVIOUS
  <1>2. back \in Seq(Nat) /\ Len(back) = Len(samples)
    BY <1>1 DEF Reverse
  <1>3. LeadingSilence(back) \in 0 .. Len(samples)
    BY <1>2, SilenceIsWithin
  <1>4. LeadingSilence(samples) \in 0 .. Len(samples)
    BY SilenceIsWithin
  <1>5. PICK leading, trailing : leading = LeadingSilence(samples) /\ trailing = LeadingSilence(back)
    OBVIOUS
  <1>6. EdgeSilence(samples) = [leading |-> leading, trailing |-> IF leading = Len(samples) THEN leading ELSE trailing]
    BY <1>1, <1>5 DEF EdgeSilence, SilenceFrom
  <1> QED BY <1>3, <1>4, <1>5, <1>6

LEMMA Shifted ==
  ASSUME NEW a \in Nat, NEW n \in Nat, NEW i \in Int, a < i, i <= a + n
  PROVE  \E k \in 1 .. n : i = a + k
  <1>1. i - a \in 1 .. n /\ i = a + (i - a)
    OBVIOUS
  <1> QED BY <1>1

\* Two sequences one after the other.
LEMMA OneAfterTheOther ==
  ASSUME NEW s \in Seq(Nat), NEW u \in Seq(Nat)
  PROVE  /\ s \o u \in Seq(Nat) /\ Len(s \o u) = Len(s) + Len(u)
         /\ \A i \in 1 .. Len(s) : (s \o u)[i] = s[i]
         /\ \A i \in 1 .. Len(u) : (s \o u)[Len(s) + i] = u[i]
  <1>1. s \o u \in Seq(Nat) /\ Len(s \o u) = Len(s) + Len(u)
    OBVIOUS
  <1>2. \A i \in 1 .. Len(s) : (s \o u)[i] = s[i]
    OBVIOUS
  <1>3. ASSUME NEW i \in 1 .. Len(u)
        PROVE  (s \o u)[Len(s) + i] = u[i]
    <2>1. PICK j \in 1 .. Len(s) + Len(u) : j = Len(s) + i
      <3>1. Len(s) + i \in 1 .. Len(s) + Len(u)
        OBVIOUS
      <3> QED BY <3>1
    <2>2. ~(j \in 1 .. Len(s)) /\ j - Len(s) = i
      BY <2>1
    <2> QED BY <2>1, <2>2
  <1> QED BY <1>1, <1>2, <1>3

\* Three sequences in a row, the first and the last of zeros.
IsZeros(s, n) == s \in Seq(Nat) /\ Len(s) = n /\ \A i \in 1 .. n : s[i] = 0

StandsBetween(p, u, a, n, b) ==
  /\ p \in Seq(Nat) /\ Len(p) = a + n + b
  /\ \A i \in 1 .. n : p[a + i] = u[i]
  /\ \A i \in 1 .. a + n + b : i <= a \/ i > a + n => p[i] = 0

LEMMA BetweenZeros ==
  ASSUME NEW a \in Nat, NEW n \in Nat, NEW b \in Nat, NEW s, NEW u, NEW v,
         IsZeros(s, a), IsZeros(v, b), u \in Seq(Nat), Len(u) = n
  PROVE  StandsBetween(s \o u \o v, u, a, n, b)
  <1>0. /\ s \in Seq(Nat) /\ Len(s) = a /\ \A i \in 1 .. a : s[i] = 0
        /\ v \in Seq(Nat) /\ Len(v) = b /\ \A i \in 1 .. b : v[i] = 0
    BY DEF IsZeros
  <1>1. PICK front : front = s \o u
    OBVIOUS
  <1>2. PICK m \in Nat : m = a + n
    OBVIOUS
  <1>3. front \in Seq(Nat) /\ Len(front) = m
    <2>1. s \o u \in Seq(Nat) /\ Len(s \o u) = Len(s) + Len(u)
      BY <1>0, OneAfterTheOther, Zenon
    <2> QED BY <1>0, <1>1, <1>2, <2>1
  <1>4. /\ \A i \in 1 .. a : front[i] = s[i]
        /\ \A i \in 1 .. n : front[a + i] = u[i]
    <2>1. /\ \A i \in 1 .. Len(s) : (s \o u)[i] = s[i]
          /\ \A i \in 1 .. Len(u) : (s \o u)[Len(s) + i] = u[i]
      BY <1>0, OneAfterTheOther, Zenon
    <2> QED BY <1>0, <1>1, <2>1
  <1>5. PICK whole : whole = front \o v
    OBVIOUS
  <1>6. whole \in Seq(Nat) /\ Len(whole) = m + b
    <2>1. front \o v \in Seq(Nat) /\ Len(front \o v) = Len(front) + Len(v)
      BY <1>0, <1>3, OneAfterTheOther, Zenon
    <2> QED BY <1>0, <1>3, <1>5, <2>1
  <1>7. /\ \A i \in 1 .. m : whole[i] = front[i]
        /\ \A i \in 1 .. b : whole[m + i] = v[i]
    <2>1. /\ \A i \in 1 .. Len(front) : (front \o v)[i] = front[i]
          /\ \A i \in 1 .. Len(v) : (front \o v)[Len(front) + i] = v[i]
      BY <1>0, <1>3, OneAfterTheOther, Zenon
    <2> QED BY <1>0, <1>3, <1>5, <2>1
  <1>8. ASSUME NEW i \in 1 .. n
        PROVE  whole[a + i] = u[i]
    <2>1. a + i \in 1 .. m
      BY <1>0, <1>2
    <2>2. whole[a + i] = front[a + i]
      BY <1>0, <1>7, <2>1
    <2>3. front[a + i] = u[i]
      BY <1>0, <1>4
    <2> QED BY <2>2, <2>3
  <1>9. ASSUME NEW i \in 1 .. m + b, i <= a \/ i > m
        PROVE  whole[i] = 0
    <2>1. CASE i <= a
      <3>1. i \in 1 .. a /\ i \in 1 .. m
        BY <1>0, <1>2, <2>1
      <3>2. whole[i] = front[i] /\ front[i] = s[i]
        BY <1>0, <1>4, <1>7, <3>1
      <3> QED BY <1>0, <3>1, <3>2
    <2>2. CASE i > m
      <3>1. PICK k \in 1 .. b : i = m + k
        BY <1>0, <2>2, Shifted
      <3>2. whole[m + k] = v[k]
        BY <1>0, <1>7
      <3> QED BY <1>0, <3>1, <3>2
    <2> QED BY <1>0, <1>9, <2>1, <2>2
  <1> QED BY <1>1, <1>2, <1>5, <1>6, <1>8, <1>9 DEF StandsBetween

\* The samples p are s without its first l and its last t, between a zeros and b zeros.
IsPadded(p, s, n, l, t, a, b) ==
  /\ p \in Seq(Nat) /\ Len(p) = a + n + b
  /\ \A i \in 1 .. n : p[a + i] = IF i <= l \/ i > n - t THEN 0 ELSE s[i]
  /\ \A i \in 1 .. a + n + b : i <= a \/ i > a + n => p[i] = 0

LEMMA ZerosAreZero ==
  ASSUME NEW a \in Nat
  PROVE  IsZeros(Zeros(a), a)
  BY DEF Zeros, IsZeros

LEMMA EdgesArePadded ==
  ASSUME NEW samples \in Seq(Nat), NEW silence, NEW l \in 0 .. Len(samples), NEW t \in 0 .. Len(samples),
         silence = [leading |-> l, trailing |-> t], Padding(l) \in Nat, Padding(t) \in Nat
  PROVE  IsPadded(PadEdges(samples, silence), samples, Len(samples), l, t, Padding(l), Padding(t))
  <1>1. PICK n \in Nat : n = Len(samples)
    OBVIOUS
  <1>2. PICK a \in Nat : a = Padding(l)
    OBVIOUS
  <1>3. PICK b \in Nat : b = Padding(t)
    OBVIOUS
  <1>4. PICK middle : middle = [i \in 1 .. n |-> IF i <= l \/ i > n - t THEN 0 ELSE samples[i]]
    OBVIOUS
  <1>5. middle \in Seq(Nat) /\ Len(middle) = n
    <2>1. \A i \in 1 .. n : samples[i] \in Nat
      BY <1>1
    <2> QED BY <1>4, <2>1
  <1>6. PadEdges(samples, silence) = Zeros(a) \o middle \o Zeros(b)
    <2>1. AtLeastZero(n - t) = n - t
      BY <1>1 DEF AtLeastZero
    <2>2. DOMAIN samples = 1 .. n
      BY <1>1
    <2>3. silence.leading = l /\ silence.trailing = t
      OBVIOUS
    <2> QED BY <1>1, <1>2, <1>3, <1>4, <2>1, <2>2, <2>3 DEF PadEdges
  <1>7. PICK p : p = Zeros(a) \o middle \o Zeros(b)
    OBVIOUS
  <1>8. /\ p \in Seq(Nat) /\ Len(p) = a + n + b
        /\ \A i \in 1 .. n : p[a + i] = middle[i]
        /\ \A i \in 1 .. a + n + b : i <= a \/ i > a + n => p[i] = 0
    <2>1. PICK u, v : u = Zeros(a) /\ v = Zeros(b)
      OBVIOUS
    <2>2. IsZeros(u, a) /\ IsZeros(v, b)
      BY <2>1, ZerosAreZero
    <2>3. StandsBetween(u \o middle \o v, middle, a, n, b)
      BY <1>5, <2>2, BetweenZeros, Zenon
    <2>4. StandsBetween(p, middle, a, n, b)
      BY <1>7, <2>1, <2>3, Zenon
    <2> QED BY <2>4 DEF StandsBetween
  <1>9. \A i \in 1 .. n : middle[i] = IF i <= l \/ i > n - t THEN 0 ELSE samples[i]
    BY <1>4
  <1>10. IsPadded(p, samples, n, l, t, a, b)
    BY <1>8, <1>9 DEF IsPadded
  <1> QED BY <1>1, <1>2, <1>3, <1>6, <1>7, <1>10

LEMMA PaddingIsBounded ==
  ASSUME NEW l \in Nat
  PROVE  /\ Padding(l) \in 0 .. RequiredSilence /\ l + Padding(l) >= RequiredSilence
         /\ Padding(l) > 0 => l + Padding(l) = RequiredSilence
  BY DEF Padding, AtLeastZero, RequiredSilence

\* Of the padded samples, only those between the two silences sound.
LEMMA SpeechIsBetween ==
  ASSUME NEW s, NEW p, NEW n \in Nat, NEW l \in 0 .. n, NEW t \in 0 .. n, NEW a \in Nat, NEW b \in Nat,
         \A i \in 1 .. n : s[i] \in 0 .. 6, IsPadded(p, s, n, l, t, a, b)
  PROVE  \A j \in 1 .. a + n + b : /\ p[j] \in 0 .. 6
                                   /\ p[j] # 0 => j > a + l /\ j <= a + n - t
  <1>1. /\ \A i \in 1 .. n : p[a + i] = IF i <= l \/ i > n - t THEN 0 ELSE s[i]
        /\ \A i \in 1 .. a + n + b : i <= a \/ i > a + n => p[i] = 0
    BY DEF IsPadded
  <1>2. TAKE j \in 1 .. a + n + b
  <1>3. CASE j <= a \/ j > a + n
    BY <1>1, <1>3
  <1>4. CASE j > a /\ j <= a + n
    <2>1. PICK i \in 1 .. n : j = a + i
      BY <1>4, Shifted
    <2>2. p[j] = IF i <= l \/ i > n - t THEN 0 ELSE s[i]
      BY <1>1, <2>1
    <2>3. s[i] \in 0 .. 6
      OBVIOUS
    <2>4. CASE i <= l \/ i > n - t
      BY <2>2, <2>4
    <2>5. CASE i > l /\ i <= n - t
      BY <2>1, <2>2, <2>3, <2>5
    <2> QED BY <2>4, <2>5
  <1> QED BY <1>3, <1>4

\* The samples q are p faded in after first and out before last, whatever sounds between.
IsFaded(q, p, N, first, last, ramp) ==
  /\ q \in Seq(Nat) /\ Len(q) = N
  /\ \A j \in 1 .. N : q[j] \in 0 .. 6
  /\ \A j \in 1 .. N : q[j] # 0 => j > first /\ j <= last
  /\ ramp > 0 => \A j \in 1 .. N : q[j] # 0 => j > first + 1 /\ j < last
  /\ \A j \in 1 .. N : j > first + ramp /\ j <= last - ramp => q[j] = p[j]

LEMMA RampedIsSmaller ==
  ASSUME NEW x \in 0 .. 6, NEW ramp \in 1 .. 2, NEW o \in 0 .. ramp - 1
  PROVE  Ramped(x, o, ramp) \in 0 .. 6 /\ Ramped(x, 0, ramp) = 0 /\ Ramped(0, o, ramp) = 0
  <1>1. CASE ramp = 1
    BY <1>1 DEF Ramped
  <1>2. CASE ramp = 2 /\ o = 0
    BY <1>2 DEF Ramped
  <1>3. CASE ramp = 2 /\ o = 1
    BY <1>3 DEF Ramped
  <1> QED BY <1>1, <1>2, <1>3

LEMMA RampsFade ==
  ASSUME NEW N \in Nat, NEW p \in Seq(Nat), Len(p) = N, NEW first \in 0 .. N, NEW last \in 0 .. N, NEW ramp \in 0 .. 2,
         2 * ramp <= last - first,
         \A j \in 1 .. N : p[j] \in 0 .. 6, \A j \in 1 .. N : p[j] # 0 => j > first /\ j <= last
  PROVE  IsFaded(ApplyRamps(p, first, last, ramp), p, N, first, last, ramp)
  <1>1. PICK q : q = ApplyRamps(p, first, last, ramp)
    OBVIOUS
  <1>2. q = [j \in 1 .. N |->
                IF j > first /\ j <= first + ramp THEN Ramped(p[j], j - first - 1, ramp)
                ELSE IF j <= last /\ j > last - ramp THEN Ramped(p[j], last - j, ramp)
                ELSE p[j]]
    BY <1>1 DEF ApplyRamps
  <1>3. ASSUME NEW j \in 1 .. N
        PROVE  /\ q[j] \in 0 .. 6
               /\ q[j] # 0 => j > first /\ j <= last
               /\ ramp > 0 /\ q[j] # 0 => j > first + 1 /\ j < last
               /\ j > first + ramp /\ j <= last - ramp => q[j] = p[j]
    <2>1. PICK x \in 0 .. 6 : x = p[j]
      OBVIOUS
    <2>2. x # 0 => j > first /\ j <= last
      BY <2>1
    <2>3. CASE j > first /\ j <= first + ramp
      <3>1. q[j] = Ramped(x, j - first - 1, ramp)
        BY <1>2, <2>1, <2>3
      <3>2. PICK o \in 0 .. ramp - 1 : o = j - first - 1
        BY <2>3
      <3>3. ramp \in 1 .. 2
        BY <2>3
      <3>4. Ramped(x, o, ramp) \in 0 .. 6 /\ (o = 0 => Ramped(x, o, ramp) = 0)
        BY <3>3, RampedIsSmaller
      <3>5. j <= last /\ (o # 0 => j > first + 1 /\ j < last)
        BY <2>3, <3>2
      <3> QED BY <2>3, <3>1, <3>2, <3>4, <3>5
    <2>4. CASE ~(j > first /\ j <= first + ramp) /\ j <= last /\ j > last - ramp
      <3>1. q[j] = Ramped(x, last - j, ramp)
        BY <1>2, <2>1, <2>4
      <3>2. PICK o \in 0 .. ramp - 1 : o = last - j
        BY <2>4
      <3>3. ramp \in 1 .. 2
        BY <2>4
      <3>4. Ramped(x, o, ramp) \in 0 .. 6 /\ (o = 0 => Ramped(x, o, ramp) = 0)
        BY <3>3, RampedIsSmaller
      <3>5. j > first /\ (o # 0 => j > first + 1 /\ j < last)
        BY <2>4, <3>2
      <3> QED BY <2>4, <3>1, <3>2, <3>4, <3>5
    <2>5. CASE ~(j > first /\ j <= first + ramp) /\ ~(j <= last /\ j > last - ramp)
      <3>1. q[j] = x
        BY <1>2, <2>1, <2>5
      <3>2. ramp > 0 /\ j > first /\ j <= last => j > first + 1 /\ j < last
        BY <2>5
      <3> QED BY <2>1, <2>2, <3>1, <3>2
    <2> QED BY <2>3, <2>4, <2>5
  <1>4. q \in Seq(Nat) /\ Len(q) = N
    <2>1. \A j \in 1 .. N : q[j] \in Nat
      BY <1>3
    <2>2. DOMAIN q = 1 .. N /\ q = [j \in 1 .. N |-> q[j]]
      BY <1>2
    <2> QED BY <2>1, <2>2
  <1>5. IsFaded(q, p, N, first, last, ramp)
    BY <1>3, <1>4 DEF IsFaded
  <1> QED BY <1>1, <1>5

LEMMA RampIsHalfTheSpeech ==
  ASSUME NEW first \in Nat, NEW last \in Nat, first <= last
  PROVE  /\ RampLength(first, last) \in 0 .. 2 /\ 2 * RampLength(first, last) <= last - first
         /\ RampLength(first, last) < 2 => last - first <= 2 * RampLength(first, last) + 1
  BY DEF RampLength, AtMost, MaxTransitionRamp

\* What an entry declares of a conditioning of this shape is within the bounds of its check.
LEMMA DeclarationIsConsistent ==
  ASSUME NEW N \in Nat, NEW q, NEW p, NEW first \in 4 .. N, NEW last \in 0 .. N - 4, NEW ramp \in 0 .. 2,
         2 * ramp <= last - first, ramp < 2 => last - first <= 2 * ramp + 1,
         IsFaded(q, p, N, first, last, ramp), NEW a \in 0 .. 4, NEW b \in 0 .. 4
  PROVE  ConditioningFault([leading_padding |-> a, trailing_padding |-> b,
                            leading_ramp |-> ramp, trailing_ramp |-> ramp], q) = "ok"
  <1>1. PICK declared : declared = [leading_padding |-> a, trailing_padding |-> b,
                                    leading_ramp |-> ramp, trailing_ramp |-> ramp]
    OBVIOUS
  <1>2. PICK longest : longest = AtMost(MaxTransitionRamp, AtLeastZero(Len(q) - 2 * RequiredSilence) \div 2)
    OBVIOUS
  <1>3. PICK sounding : sounding = {i \in DOMAIN q : q[i] # 0}
    OBVIOUS
  <1>4. PICK shortest : shortest = IF sounding = {} \/ Min(sounding) = Max(sounding) THEN 0
                                   ELSE AtMost(longest, (Max(sounding) - Min(sounding) + 3) \div 2)
    OBVIOUS
  <1>5. q \in Seq(Nat) /\ Len(q) = N /\ DOMAIN q = 1 .. N
    BY DEF IsFaded
  <1>6. longest \in 0 .. 2 /\ ramp <= longest
    <2>1. AtLeastZero(N - 8) = N - 8 /\ N - 8 \in Nat /\ 2 * ramp <= N - 8
      BY DEF AtLeastZero
    <2>2. PICK room \in Nat : room = N - 8
      BY <2>1
    <2>3. longest = AtMost(2, room \div 2)
      <3>1. longest = AtMost(2, AtLeastZero(Len(q) - 2 * 4) \div 2)
        BY <1>2 DEF MaxTransitionRamp, RequiredSilence
      <3>2. Len(q) - 2 * 4 = N - 8
        BY <1>5
      <3>3. AtLeastZero(Len(q) - 2 * 4) = room
        BY <2>1, <2>2, <3>2
      <3> QED BY <3>1, <3>3
    <2> QED BY <2>1, <2>2, <2>3 DEF AtMost
  <1>7. shortest \in 0 .. ramp
    <2>1. CASE sounding = {} \/ Min(sounding) = Max(sounding)
      BY <1>4, <2>1
    <2>2. CASE sounding # {} /\ Min(sounding) # Max(sounding)
      <3>1. sounding \in SUBSET (1 .. N)
        BY <1>3, <1>5
      <3>2. Max(sounding) \in sounding /\ \A y \in sounding : y <= Max(sounding)
        BY <2>2, <3>1, LastPosition
      <3>3. Min(sounding) \in sounding
        BY <2>2, <3>1, FirstPosition
      <3>4. PICK lo \in 1 .. N, hi \in 1 .. N : lo = Min(sounding) /\ hi = Max(sounding)
        BY <3>1, <3>2, <3>3
      <3>5. lo < hi /\ q[lo] # 0 /\ q[hi] # 0
        BY <1>3, <2>2, <3>2, <3>3, <3>4
      <3>6. /\ lo > first /\ hi <= last
            /\ ramp > 0 => lo > first + 1 /\ hi < last
        BY <3>5 DEF IsFaded
      <3>7. ramp = 2
        BY <3>5, <3>6
      <3>8. longest = 2
        BY <1>6, <3>7
      <3>9. shortest = AtMost(2, (hi - lo + 3) \div 2)
        BY <1>4, <2>2, <3>4, <3>8
      <3> QED BY <3>5, <3>7, <3>9 DEF AtMost
    <2> QED BY <2>1, <2>2
  <1>8. \A r \in {declared.leading_ramp, declared.trailing_ramp} : r = ramp
    BY <1>1
  <1>9. ConditioningFault(declared, q) = "ok"
    <2>1. ~(\E r \in {declared.leading_ramp, declared.trailing_ramp} : r > MaxTransitionRamp)
      BY <1>8 DEF MaxTransitionRamp
    <2>2. ~(declared.leading_padding > RequiredSilence) /\ ~(declared.trailing_padding > RequiredSilence)
      BY <1>1 DEF RequiredSilence
    <2>3. ~(\E r \in {declared.leading_ramp, declared.trailing_ramp} : r \notin shortest .. longest)
      BY <1>6, <1>7, <1>8
    <2>4. declared.leading_ramp = declared.trailing_ramp
      BY <1>1
    <2> QED BY <1>2, <1>3, <1>4, <2>1, <2>2, <2>3, <2>4 DEF ConditioningFault
  <1> QED BY <1>1, <1>9

LEMMA WavIsInRange ==
  ASSUME NEW samples \in Seq(Nat)
  PROVE  WavFault(samples) = "ok" <=> /\ samples # <<>> /\ Len(samples) <= MaxSegment
                                      /\ \A i \in 1 .. Len(samples) : samples[i] \in 0 .. 6
  <1>1. PICK bad : bad = {i \in DOMAIN samples : samples[i] > FullScale \/ i > MaxSegment}
    OBVIOUS
  <1>2. WavFault(samples) = "ok" <=> samples # <<>> /\ bad = {}
    BY <1>1 DEF WavFault
  <1>3. PICK n \in Nat : n = Len(samples) /\ DOMAIN samples = 1 .. n
    OBVIOUS
  <1>4. \A i \in 1 .. n : samples[i] \in Nat
    BY <1>3
  <1>5. samples # <<>> => n # 0
    BY <1>3
  <1>6. ASSUME samples # <<>>
        PROVE  bad = {} <=> n <= MaxSegment /\ (\A i \in 1 .. n : samples[i] \in 0 .. 6)
    <2>1. bad = {} <=> \A i \in 1 .. n : samples[i] <= 6 /\ i <= MaxSegment
      BY <1>1, <1>3, <1>4, AudioAssumption DEF FullScale
    <2>2. n \in 1 .. n
      BY <1>5, <1>6
    <2>3. (\A i \in 1 .. n : i <= MaxSegment) <=> n <= MaxSegment
      BY <2>2, AudioAssumption
    <2>4. ASSUME NEW i \in 1 .. n
          PROVE  samples[i] <= 6 <=> samples[i] \in 0 .. 6
      <3>1. PICK x \in Nat : x = samples[i]
        BY <1>4
      <3>2. x <= 6 <=> x \in 0 .. 6
        OBVIOUS
      <3> QED BY <3>1, <3>2, Zenon
    <2>5. bad = {} <=> (\A i \in 1 .. n : samples[i] \in 0 .. 6) /\ (\A i \in 1 .. n : i <= MaxSegment)
      BY <2>1, <2>4, Zenon
    <2> QED BY <2>3, <2>5, Zenon
  <1> QED BY <1>2, <1>3, <1>6

\* Between the ramps the speech is what was recorded, further on by the padding.
IsKept(q, s, n, l, t, a, ramp) == \A i \in l + ramp + 1 .. n - t - ramp : q[i + a] = s[i]

LEMMA SpeechIsKept ==
  ASSUME NEW s, NEW p, NEW q, NEW n \in Nat, NEW l \in 0 .. n, NEW t \in 0 .. n, NEW a \in Nat, NEW b \in Nat,
         NEW ramp \in Nat, IsPadded(p, s, n, l, t, a, b), IsFaded(q, p, a + n + b, l + a, a + n - t, ramp)
  PROVE  IsKept(q, s, n, l, t, a, ramp)
  <1>1. \A i \in 1 .. n : p[a + i] = IF i <= l \/ i > n - t THEN 0 ELSE s[i]
    BY DEF IsPadded
  <1>2. \A j \in 1 .. a + n + b : j > l + a + ramp /\ j <= a + n - t - ramp => q[j] = p[j]
    BY DEF IsFaded
  <1>3. SUFFICES ASSUME NEW i \in l + ramp + 1 .. n - t - ramp
                 PROVE  q[i + a] = s[i]
    BY DEF IsKept
  <1>4. i \in 1 .. n /\ ~(i <= l \/ i > n - t)
    OBVIOUS
  <1>5. PICK j \in 1 .. a + n + b : j = a + i
    <2>1. a + i \in 1 .. a + n + b
      BY <1>4
    <2> QED BY <2>1
  <1>6. j > l + a + ramp /\ j <= a + n - t - ramp /\ j = i + a
    BY <1>5
  <1>7. p[j] = s[i]
    BY <1>1, <1>4, <1>5
  <1> QED BY <1>2, <1>6, <1>7

\* A recording without speech becomes silence, of no ramp.
LEMMA ConditionedSilence ==
  ASSUME NEW s, NEW n \in Nat, \A i \in 1 .. n : s[i] \in 0 .. 6,
         NEW a \in 0 .. 4, NEW b \in 0 .. 4, NEW p, IsPadded(p, s, n, n, n, a, b)
  PROVE  /\ p \in Seq(Nat) /\ Len(p) = a + n + b
         /\ \A j \in 1 .. a + n + b : p[j] \in 0 .. 6
         /\ ConditioningFault([leading_padding |-> a, trailing_padding |-> b,
                               leading_ramp |-> 0, trailing_ramp |-> 0], p) = "ok"
  <1>1. p \in Seq(Nat) /\ Len(p) = a + n + b
    BY DEF IsPadded
  <1>2. \A j \in 1 .. a + n + b : p[j] \in 0 .. 6 /\ (p[j] # 0 => j > a + n /\ j <= a + n - n)
    <2>1. a \in Nat /\ b \in Nat /\ n \in 0 .. n
      OBVIOUS
    <2> QED BY <2>1, SpeechIsBetween, Zenon
  <1>3. \A j \in 1 .. a + n + b : p[j] = 0
    BY <1>2
  <1>4. PICK declared : declared = [leading_padding |-> a, trailing_padding |-> b,
                                    leading_ramp |-> 0, trailing_ramp |-> 0]
    OBVIOUS
  <1>5. {i \in DOMAIN p : p[i] # 0} = {}
    BY <1>1, <1>3
  <1>6. \A r \in {declared.leading_ramp, declared.trailing_ramp} : r = 0
    BY <1>4
  <1>7. PICK longest : longest = AtMost(MaxTransitionRamp, AtLeastZero(Len(p) - 2 * RequiredSilence) \div 2)
    OBVIOUS
  <1>8. longest \in Nat
    <2>0. Len(p) - 2 * RequiredSilence \in Int
      BY <1>1 DEF RequiredSilence
    <2>1. PICK room \in Nat : room = AtLeastZero(Len(p) - 2 * RequiredSilence)
      BY <2>0 DEF AtLeastZero
    <2>2. room \div 2 \in Nat
      OBVIOUS
    <2> QED BY <1>7, <2>1, <2>2 DEF AtMost, MaxTransitionRamp
  <1>9. ConditioningFault(declared, p) = "ok"
    <2>1. ~(\E r \in {declared.leading_ramp, declared.trailing_ramp} : r > MaxTransitionRamp)
      BY <1>6 DEF MaxTransitionRamp
    <2>2. ~(declared.leading_padding > RequiredSilence) /\ ~(declared.trailing_padding > RequiredSilence)
      BY <1>4 DEF RequiredSilence
    <2>3. ~(\E r \in {declared.leading_ramp, declared.trailing_ramp} : r \notin 0 .. longest)
      BY <1>6, <1>8
    <2>4. declared.leading_ramp = declared.trailing_ramp
      BY <1>4
    <2> QED BY <1>5, <1>7, <2>1, <2>2, <2>3, <2>4 DEF ConditioningFault
  <1> QED BY <1>1, <1>2, <1>4, <1>9

\* A performance as it was recorded, and the entry made of it: what ConditionedSpeechIsUsable says.
Usable(recorded, e) ==
  /\ EntryFault(e) = "ok"
  /\ \A silence \in {EdgeSilence(recorded)} :
        \A i \in silence.leading + e.conditioning.leading_ramp + 1
                .. Len(recorded) - silence.trailing - e.conditioning.leading_ramp :
           e.samples[i + e.conditioning.leading_padding] = recorded[i]

EntryOf(staged) == [samples |-> staged.samples, conditioning |-> staged.conditioning, frames |-> Len(staged.samples)]

\* What conditioning makes of a recording whose silences l and t do not overlap.
IsConditioned(staged, recorded, l, t, a, b, ramp) ==
  /\ staged.samples \in Seq(Nat) /\ Len(staged.samples) = a + Len(recorded) + b
  /\ \A j \in 1 .. a + Len(recorded) + b : staged.samples[j] \in 0 .. 6
  /\ staged.conditioning = [leading_padding |-> a, trailing_padding |-> b, leading_ramp |-> ramp, trailing_ramp |-> ramp]
  /\ ConditioningFault(staged.conditioning, staged.samples) = "ok"
  /\ \A i \in l + ramp + 1 .. Len(recorded) - t - ramp : staged.samples[i + a] = recorded[i]

LEMMA ConditioningConditions ==
  ASSUME NEW s \in Seq(Nat), \A i \in 1 .. Len(s) : s[i] \in 0 .. 6, NEW wraps \in BOOLEAN, ~SilencesMeet(s)
  PROVE  \E l \in 0 .. Len(s), t \in 0 .. Len(s), a \in 0 .. 4, b \in 0 .. 4, ramp \in 0 .. 2 :
            /\ EdgeSilence(s) = [leading |-> l, trailing |-> t]
            /\ IsConditioned(ConditionEdges(s, wraps), s, l, t, a, b, ramp)
  <1>1. PICK n \in Nat : n = Len(s)
    OBVIOUS
  <1>2. PICK silence : silence = EdgeSilence(s)
    OBVIOUS
  <1>3. PICK l \in 0 .. n, t \in 0 .. n : silence = [leading |-> l, trailing |-> t] /\ (l = n => t = n)
    BY <1>1, <1>2, EdgesAreWithin
  <1>4. l # n => l + t <= n
    BY <1>1, <1>2, <1>3 DEF SilencesMeet, Overlap
  <1>5. PICK a \in 0 .. 4, b \in 0 .. 4 : a = Padding(l) /\ b = Padding(t) /\ l + a >= 4 /\ t + b >= 4
    <2>1. \A x \in Nat : Padding(x) \in 0 .. 4 /\ x + Padding(x) >= 4
      BY PaddingIsBounded DEF RequiredSilence
    <2>2. l \in Nat /\ t \in Nat
      OBVIOUS
    <2>3. Padding(l) \in 0 .. 4 /\ l + Padding(l) >= 4 /\ Padding(t) \in 0 .. 4 /\ t + Padding(t) >= 4
      BY <2>1, <2>2, Zenon
    <2> QED BY <2>3
  <1>6. PICK p : p = PadEdges(s, silence)
    OBVIOUS
  <1>7. IsPadded(p, s, n, l, t, a, b)
    <2>1. Padding(l) \in Nat /\ Padding(t) \in Nat /\ l \in 0 .. Len(s) /\ t \in 0 .. Len(s)
      <3>1. Padding(l) \in Nat /\ Padding(t) \in Nat
        BY <1>5
      <3> QED BY <1>1, <3>1, Zenon
    <2>2. IsPadded(PadEdges(s, silence), s, Len(s), l, t, Padding(l), Padding(t))
      BY <1>3, <2>1, EdgesArePadded, Zenon
    <2> QED BY <1>1, <1>5, <1>6, <2>2, Zenon
  <1>8. PICK staged : staged = ConditionEdges(s, wraps)
    OBVIOUS
  <1>9. \A i \in 1 .. n : s[i] \in 0 .. 6
    BY <1>1
  <1>10. \E ramp \in 0 .. 2 : IsConditioned(staged, s, l, t, a, b, ramp)
    <2>1. CASE l = n
      <3>1. staged = [ends |-> TRUE, samples |-> p, conditioning |-> Conditioning(silence, 0)]
        <4>1. staged = ConditionWithin(s, silence, wraps)
          BY <1>2, <1>8, Zenon DEF ConditionEdges
        <4>2. silence.leading = Len(s)
          BY <1>1, <1>3, <2>1
        <4> QED BY <1>6, <4>1, <4>2, Zenon DEF ConditionWithin
      <3>2. Conditioning(silence, 0) = [leading_padding |-> a, trailing_padding |-> b, leading_ramp |-> 0, trailing_ramp |-> 0]
        BY <1>3, <1>5 DEF Conditioning
      <3>3. IsPadded(p, s, n, n, n, a, b)
        BY <1>3, <1>7, <2>1
      <3>4. /\ p \in Seq(Nat) /\ Len(p) = a + n + b
            /\ \A j \in 1 .. a + n + b : p[j] \in 0 .. 6
            /\ ConditioningFault([leading_padding |-> a, trailing_padding |-> b,
                                  leading_ramp |-> 0, trailing_ramp |-> 0], p) = "ok"
        BY <1>9, <3>3, ConditionedSilence
      <3>5. l + 0 + 1 .. n - t - 0 = {}
        BY <1>3, <2>1
      <3>6. staged.samples = p /\ staged.conditioning = [leading_padding |-> a, trailing_padding |-> b,
                                                           leading_ramp |-> 0, trailing_ramp |-> 0]
        BY <3>1, <3>2
      <3>7. IsConditioned(staged, s, l, t, a, b, 0)
        BY <1>1, <3>4, <3>5, <3>6 DEF IsConditioned
      <3> QED BY <3>7
    <2>2. CASE l # n
      <3>1. PICK N \in Nat : N = a + n + b
        OBVIOUS
      <3>2. PICK first \in 4 .. N, last \in 0 .. N - 4 : first = l + a /\ last = a + n - t /\ first <= last
        <4>1. l + a \in 4 .. N /\ a + n - t \in 0 .. N - 4 /\ l + a <= a + n - t
          BY <1>4, <1>5, <2>2, <3>1
        <4> QED BY <4>1
      <3>3. PICK ramp \in 0 .. 2 : ramp = RampLength(first, last)
        BY <3>2, RampIsHalfTheSpeech
      <3>4. 2 * ramp <= last - first /\ (ramp < 2 => last - first <= 2 * ramp + 1)
        BY <3>2, <3>3, RampIsHalfTheSpeech
      <3>5. PICK q : q = ApplyRamps(p, first, last, ramp)
        OBVIOUS
      <3>6. staged.samples = q /\ staged.conditioning = [leading_padding |-> a, trailing_padding |-> b,
                                                           leading_ramp |-> ramp, trailing_ramp |-> ramp]
        <4>1. staged = FadeEdges(p, silence, wraps)
          <5>1. staged = ConditionWithin(s, silence, wraps)
            BY <1>2, <1>8, Zenon DEF ConditionEdges
          <5>2. silence.leading # Len(s)
            BY <1>1, <1>3, <2>2
          <5> QED BY <1>6, <5>1, <5>2, Zenon DEF ConditionWithin
        <4>2. Conditioning(silence, ramp) = [leading_padding |-> a, trailing_padding |-> b,
                                             leading_ramp |-> ramp, trailing_ramp |-> ramp]
          BY <1>3, <1>5 DEF Conditioning
        <4>3. silence.leading + Padding(silence.leading) = first
          BY <1>3, <1>5, <3>2
        <4>4. Len(p) - (silence.trailing + Padding(silence.trailing)) = last
          <5>1. Len(p) = a + n + b
            BY <1>7 DEF IsPadded
          <5>2. silence.trailing + Padding(silence.trailing) = t + b
            BY <1>3, <1>5
          <5> QED BY <3>2, <5>1, <5>2
        <4>5. staged.samples = q /\ staged.conditioning = Conditioning(silence, ramp)
          BY <3>3, <3>5, <4>1, <4>3, <4>4 DEF FadeEdges
        <4> QED BY <4>2, <4>5
      <3>7. \A j \in 1 .. N : p[j] \in 0 .. 6 /\ (p[j] # 0 => j > first /\ j <= last)
        <4>1. \A j \in 1 .. a + n + b : /\ p[j] \in 0 .. 6
                                        /\ p[j] # 0 => j > a + l /\ j <= a + n - t
          <5>1. a \in Nat /\ b \in Nat
            OBVIOUS
          <5> QED BY <1>7, <1>9, <5>1, SpeechIsBetween, Zenon
        <4> QED BY <3>1, <3>2, <4>1
      <3>8. p \in Seq(Nat) /\ Len(p) = N
        BY <1>7, <3>1 DEF IsPadded
      <3>9. IsFaded(q, p, N, first, last, ramp)
        <4>1. first \in 0 .. N /\ last \in 0 .. N
          BY <3>2
        <4>2. /\ \A j \in 1 .. N : p[j] \in 0 .. 6
              /\ \A j \in 1 .. N : p[j] # 0 => j > first /\ j <= last
          BY <3>7
        <4> QED BY <3>4, <3>5, <3>8, <4>1, <4>2, RampsFade
      <3>10. ConditioningFault([leading_padding |-> a, trailing_padding |-> b,
                                leading_ramp |-> ramp, trailing_ramp |-> ramp], q) = "ok"
        BY <3>4, <3>9, DeclarationIsConsistent
      <3>11. \A i \in l + ramp + 1 .. n - t - ramp : q[i + a] = s[i]
        <4>1. IsFaded(q, p, a + n + b, l + a, a + n - t, ramp)
          BY <3>1, <3>2, <3>9
        <4>2. a \in Nat /\ b \in Nat /\ ramp \in Nat
          OBVIOUS
        <4>3. l \in 0 .. n /\ t \in 0 .. n
          OBVIOUS
        <4>4. IsKept(q, s, n, l, t, a, ramp)
          BY <1>7, <4>1, <4>2, <4>3, SpeechIsKept, Zenon
        <4> QED BY <4>4 DEF IsKept
      <3>12. q \in Seq(Nat) /\ Len(q) = N /\ \A j \in 1 .. N : q[j] \in 0 .. 6
        BY <3>9 DEF IsFaded
      <3>13. IsConditioned(staged, s, l, t, a, b, ramp)
        BY <1>1, <3>1, <3>6, <3>10, <3>11, <3>12 DEF IsConditioned
      <3> QED BY <3>13
    <2> QED BY <2>1, <2>2
  <1> QED BY <1>1, <1>2, <1>3, <1>8, <1>10

\* The checks of the entry that a later build makes refuse none that this one let through.
LEMMA ConditionedEntryIsUsable ==
  ASSUME NEW s \in Seq(Nat), WavFault(s) = "ok", ~SilencesMeet(s), NEW wraps \in BOOLEAN,
         NEW staged, staged = ConditionEdges(s, wraps), Len(staged.samples) <= MaxSegment,
         ~ExposedEndpoint(staged.samples), ~InsufficientSilence(staged.samples)
  PROVE  Usable(s, EntryOf(staged))
  <1>1. s # <<>> /\ \A i \in 1 .. Len(s) : s[i] \in 0 .. 6
    BY WavIsInRange
  <1>2. PICK l \in 0 .. Len(s), t \in 0 .. Len(s), a \in 0 .. 4, b \in 0 .. 4, ramp \in 0 .. 2 :
           /\ EdgeSilence(s) = [leading |-> l, trailing |-> t]
           /\ IsConditioned(staged, s, l, t, a, b, ramp)
    BY <1>1, ConditioningConditions
  <1>3. PICK e : e = EntryOf(staged)
    OBVIOUS
  <1>4. e.samples = staged.samples /\ e.conditioning = staged.conditioning /\ e.frames = Len(staged.samples)
    BY <1>3 DEF EntryOf
  <1>5. EntryFault(e) = "ok"
    <2>1. Len(s) # 0
      BY <1>1
    <2>2. /\ staged.samples \in Seq(Nat) /\ Len(staged.samples) = a + Len(s) + b
          /\ \A j \in 1 .. a + Len(s) + b : staged.samples[j] \in 0 .. 6
      BY <1>2 DEF IsConditioned
    <2>3. staged.samples # <<>>
      BY <2>1, <2>2
    <2>4. WavFault(staged.samples) = "ok"
      BY <2>2, <2>3, WavIsInRange
    <2>5. ConditioningFault(staged.conditioning, staged.samples) = "ok"
      BY <1>2 DEF IsConditioned
    <2> QED BY <1>4, <2>4, <2>5 DEF EntryFault
  <1>6. \A silence \in {EdgeSilence(s)} :
           \A i \in silence.leading + e.conditioning.leading_ramp + 1
                   .. Len(s) - silence.trailing - e.conditioning.leading_ramp :
              e.samples[i + e.conditioning.leading_padding] = s[i]
    <2>1. e.conditioning.leading_ramp = ramp /\ e.conditioning.leading_padding = a
      BY <1>2, <1>4 DEF IsConditioned
    <2>2. EdgeSilence(s).leading = l /\ EdgeSilence(s).trailing = t
      BY <1>2
    <2>3. \A i \in l + ramp + 1 .. Len(s) - t - ramp : staged.samples[i + a] = s[i]
      BY <1>2 DEF IsConditioned
    <2> QED BY <1>4, <2>1, <2>2, <2>3
  <1> QED BY <1>3, <1>5, <1>6 DEF Usable

-----------------------------------------------------------------------------
\* What a recording can be, and what is published of it once it is whole.
AudioInv ==
  /\ spoken \in Seq(Magnitudes)
  /\ entry = <<>> \/ \E e : entry = <<e>> /\ (~SilencesMeet(spoken) => Usable(spoken, e))

THEOREM AudioInvariant == AudioSpec => []AudioInv
  <1>1. AudioInit => AudioInv
    BY DEF AudioInit, AudioInv
  <1>2. AudioInv /\ [AudioNext]_audioVars => AudioInv'
    <2> SUFFICES ASSUME AudioInv, [AudioNext]_audioVars
                 PROVE  AudioInv'
      OBVIOUS
    <2>1. CASE WriteSample
      BY <2>1 DEF WriteSample, AudioInv
    <2>2. CASE PublishConditioned
      <3>1. PICK wraps \in BOOLEAN : \E staged : /\ staged = ConditionEdges(spoken, wraps)
                                              /\ Len(staged.samples) <= MaxSegment
                                              /\ ~ExposedEndpoint(staged.samples)
                                              /\ ~InsufficientSilence(staged.samples)
                                              /\ entry' = <<EntryOf(staged)>>
        BY <2>2 DEF PublishConditioned, EntryOf
      <3>2. PICK staged : /\ staged = ConditionEdges(spoken, wraps)
                        /\ Len(staged.samples) <= MaxSegment
                        /\ ~ExposedEndpoint(staged.samples)
                        /\ ~InsufficientSilence(staged.samples)
                        /\ entry' = <<EntryOf(staged)>>
        BY <3>1
      <3>3. spoken \in Seq(Nat) /\ spoken' = spoken /\ WavFault(spoken) = "ok"
        <4>1. PICK s \in Seq(Magnitudes) : s = spoken
          BY DEF AudioInv
        <4>2. \A i \in 1 .. Len(s) : s[i] \in Nat
          <5>1. \A i \in 1 .. Len(s) : s[i] \in Magnitudes
            OBVIOUS
          <5> QED BY <5>1, AudioAssumption, Zenon
        <4>3. s \in Seq(Nat)
          BY <4>2
        <4> QED BY <2>2, <4>1, <4>3 DEF PublishConditioned
      <3>4. ~SilencesMeet(spoken) => Usable(spoken, EntryOf(staged))
        BY <3>2, <3>3, ConditionedEntryIsUsable
      <3>5. PICK e : e = EntryOf(staged)
        OBVIOUS
      <3>6. entry' = <<e>> /\ (~SilencesMeet(spoken') => Usable(spoken', e))
        BY <3>2, <3>3, <3>4, <3>5
      <3>7. spoken' \in Seq(Magnitudes)
        BY <3>3 DEF AudioInv
      <3> QED BY <3>6, <3>7, Zenon DEF AudioInv
    <2>3. CASE UNCHANGED audioVars
      <3>1. spoken' = spoken /\ entry' = entry
        BY <2>3 DEF audioVars
      <3> QED BY <3>1, Zenon DEF AudioInv
    <2> QED BY <2>1, <2>2, <2>3 DEF AudioNext
  <1> QED BY <1>1, <1>2, PTL DEF AudioSpec

\* cache.rs:1358-1361 and audio_edges.rs: wherever the two silences of a performance do not
\* overlap, for every recording, of every length and level, the entry published from it passes
\* every check a later build makes of it, and holds the recorded speech sample by sample
\* between its two ramps.
THEOREM SpeechIsUsable == AudioSpec => []ConditionedSpeechIsUsable
  <1>1. AudioInv => ConditionedSpeechIsUsable
    <2> SUFFICES ASSUME AudioInv, NEW e \in ToSet(entry), ~SilencesMeet(spoken)
                 PROVE  Usable(spoken, e)
      BY DEF ConditionedSpeechIsUsable, Usable
    <2>1. entry # <<>>
      BY DEF ToSet
    <2>2. PICK d : entry = <<d>> /\ Usable(spoken, d)
      BY <2>1 DEF AudioInv
    <2>3. e = d
      BY <2>2 DEF ToSet
    <2> QED BY <2>2, <2>3
  <1> QED BY <1>1, AudioInvariant, PTL

-----------------------------------------------------------------------------
(* The manifest of a production publication. *)

RowIsResolved(row, permitted) == row.id # "blank" /\ row.rights_record_id # "blank" /\ row.decision \in permitted

LEMMA RowIsChecked ==
  ASSUME NEW row, NEW permitted, NEW unresolved, unresolved # "ok"
  PROVE  LET checks == <<<<row.id = "blank", "EmptyManifestIdentifier">>,
                         <<row.rights_record_id = "blank", "EmptyManifestIdentifier">>,
                         <<row.decision \notin permitted, unresolved>>>>
         IN  /\ IsListOfChecks(checks)
             /\ FirstFault(checks) = "ok" <=> RowIsResolved(row, permitted)
             /\ FirstFault(checks) \in {"ok", "EmptyManifestIdentifier", unresolved}
  <1>1. PICK x, y, z \in BOOLEAN :
           x = (row.id = "blank") /\ y = (row.rights_record_id = "blank") /\ z = (row.decision \notin permitted)
    OBVIOUS
  <1>2. PICK a, b, c : a = <<x, "EmptyManifestIdentifier">> /\ b = <<y, "EmptyManifestIdentifier">> /\ c = <<z, unresolved>>
    OBVIOUS
  <1>3. /\ a[2] = "EmptyManifestIdentifier" /\ b[2] = "EmptyManifestIdentifier" /\ c[2] = unresolved
        /\ (a[1] <=> x) /\ (b[1] <=> y) /\ (c[1] <=> z)
    BY <1>2
  <1>4. a[2] # "ok" /\ b[2] # "ok" /\ c[2] # "ok"
    BY <1>3
  <1>5. /\ IsListOfChecks(<<a, b, c>>)
        /\ FirstFault(<<a, b, c>>) = IF a[1] THEN a[2] ELSE IF b[1] THEN b[2] ELSE IF c[1] THEN c[2] ELSE "ok"
    BY <1>4, ListOfThree, Zenon
  <1>6. PICK checks : checks = <<a, b, c>>
    OBVIOUS
  <1>7. checks = <<<<row.id = "blank", "EmptyManifestIdentifier">>,
                   <<row.rights_record_id = "blank", "EmptyManifestIdentifier">>,
                   <<row.decision \notin permitted, unresolved>>>>
    BY <1>1, <1>2, <1>6, Zenon
  <1>8. (x <=> row.id = "blank") /\ (y <=> row.rights_record_id = "blank") /\ (z <=> row.decision \notin permitted)
    BY <1>1
  <1>9. /\ IsListOfChecks(checks)
        /\ FirstFault(checks) = "ok" <=> RowIsResolved(row, permitted)
        /\ FirstFault(checks) \in {"ok", "EmptyManifestIdentifier", unresolved}
    <2>1. FirstFault(checks) = IF x THEN "EmptyManifestIdentifier" ELSE IF y THEN "EmptyManifestIdentifier"
                               ELSE IF z THEN unresolved ELSE "ok"
      BY <1>3, <1>5, <1>6
    <2> QED BY <1>4, <1>5, <1>6, <1>8, <2>1 DEF RowIsResolved
  <1> QED BY <1>7, <1>9, Zenon

LEMMA DeclarationsAreChecked ==
  ASSUME NEW section, NEW R, NEW rows \in Seq(R), rows = section.rows, Len(rows) \in 0 .. 2, NEW permitted,
         NEW undeclared, NEW unresolved, undeclared # "ok", unresolved # "ok",
         undeclared # "ProductionGatesUnavailable", unresolved # "ProductionGatesUnavailable"
  PROVE  /\ IsListOfChecks(DeclarationChecks(section, undeclared, unresolved, permitted))
         /\ FirstFault(DeclarationChecks(section, undeclared, unresolved, permitted)) = "ok" <=>
              /\ section.form # "malformed" /\ section.rows # <<>>
              /\ \A i \in DOMAIN section.rows : RowIsResolved(section.rows[i], permitted)
         /\ FirstFault(DeclarationChecks(section, undeclared, unresolved, permitted)) # "ProductionGatesUnavailable"
  <1> DEFINE row(i) == <<<<section.rows[i].id = "blank", "EmptyManifestIdentifier">>,
                         <<section.rows[i].rights_record_id = "blank", "EmptyManifestIdentifier">>,
                         <<section.rows[i].decision \notin permitted, unresolved>>>>
  <1>1. rows = section.rows
    OBVIOUS
  <1>2. DOMAIN rows = 1 .. Len(rows)
    OBVIOUS
  <1>3. PICK malformed, none \in BOOLEAN : malformed = (section.form = "malformed") /\ none = (section.rows = <<>>)
    OBVIOUS
  <1>4. PICK head : head = <<<<section.form = "malformed", "InvalidRightsDeclaration">>, <<section.rows = <<>>, undeclared>>>>
    OBVIOUS
  <1>5. /\ IsListOfChecks(head)
        /\ FirstFault(head) = IF malformed THEN "InvalidRightsDeclaration" ELSE IF none THEN undeclared ELSE "ok"
    <2>1. PICK a, b : a = <<malformed, "InvalidRightsDeclaration">> /\ b = <<none, undeclared>>
      OBVIOUS
    <2>2. a[2] = "InvalidRightsDeclaration" /\ b[2] = undeclared /\ (a[1] <=> malformed) /\ (b[1] <=> none)
      BY <2>1
    <2>3. /\ IsListOfChecks(<<a, b>>)
          /\ FirstFault(<<a, b>>) = IF a[1] THEN a[2] ELSE IF b[1] THEN b[2] ELSE "ok"
      BY <2>2, ListOfTwo
    <2>4. head = <<a, b>>
      BY <1>3, <1>4, <2>1, Zenon
    <2> QED BY <2>2, <2>3, <2>4
  <1>6. PICK one, two : one = row(1) /\ two = row(2)
    OBVIOUS
  <1>7. /\ IsListOfChecks(one)
        /\ FirstFault(one) = "ok" <=> RowIsResolved(section.rows[1], permitted)
        /\ FirstFault(one) \in {"ok", "EmptyManifestIdentifier", unresolved}
    BY <1>6, RowIsChecked, Zenon
  <1>8. /\ IsListOfChecks(two)
        /\ FirstFault(two) = "ok" <=> RowIsResolved(section.rows[2], permitted)
        /\ FirstFault(two) \in {"ok", "EmptyManifestIdentifier", unresolved}
    BY <1>6, RowIsChecked, Zenon
  <1>9. PICK rest : rest = IF section.rows = <<>> THEN <<>>
                           ELSE one \o IF Len(section.rows) = 1 THEN <<>> ELSE two
    OBVIOUS
  <1>10. PICK all : all = head \o rest
    OBVIOUS
  <1>11. DeclarationChecks(section, undeclared, unresolved, permitted) = all
    BY <1>4, <1>6, <1>9, <1>10, Zenon DEF DeclarationChecks
  <1>12. /\ IsListOfChecks(rest)
         /\ FirstFault(rest) = "ok" <=> \A i \in DOMAIN rows : RowIsResolved(rows[i], permitted)
         /\ FirstFault(rest) \in {"ok", "EmptyManifestIdentifier", unresolved}
    <2>1. CASE rows = <<>>
      <3>1. rest = <<>> /\ DOMAIN rows = {}
        BY <1>1, <1>9, <2>1
      <3> QED BY <3>1, ListOfNone
    <2>2. CASE Len(rows) = 1
      <3>1. PICK none1 : none1 = <<>>
        OBVIOUS
      <3>2. rest = one \o none1
        <4>1. section.rows # <<>> /\ Len(section.rows) = 1
          BY <1>1, <2>2
        <4> QED BY <1>9, <3>1, <4>1, Zenon
      <3>3. IsListOfChecks(none1) /\ FirstFault(none1) = "ok"
        BY <3>1, ListOfNone
      <3>4. IsListOfChecks(rest) /\ FirstFault(rest) = FirstFault(one)
        BY <1>7, <3>2, <3>3, RefusedBefore
      <3>5. (\A i \in DOMAIN rows : RowIsResolved(rows[i], permitted)) <=> RowIsResolved(rows[1], permitted)
        <4>1. DOMAIN rows = {1}
          BY <1>2, <2>2
        <4> QED BY <4>1
      <3> QED BY <1>1, <1>7, <3>4, <3>5
    <2>3. CASE Len(rows) = 2
      <3>1. rest = one \o two
        <4>1. section.rows # <<>> /\ ~(Len(section.rows) = 1)
          <5>1. rows # <<>> /\ ~(Len(rows) = 1)
            <6>1. Len(rows) # 0 /\ Len(rows) # 1
              BY <2>3
            <6>2. Len(<<>>) = 0
              OBVIOUS
            <6> QED BY <6>1, <6>2, Zenon
          <5> QED BY <5>1, Zenon
        <4> QED BY <1>9, <4>1, Zenon
      <3>2. /\ IsListOfChecks(rest)
            /\ FirstFault(rest) = IF FirstFault(one) = "ok" THEN FirstFault(two) ELSE FirstFault(one)
        BY <1>7, <1>8, <3>1, RefusedBefore
      <3>3. (\A i \in DOMAIN rows : RowIsResolved(rows[i], permitted))
               <=> RowIsResolved(rows[1], permitted) /\ RowIsResolved(rows[2], permitted)
        <4>1. DOMAIN rows = {1, 2}
          BY <1>2, <2>3
        <4> QED BY <4>1
      <3> QED BY <1>1, <1>7, <1>8, <3>2, <3>3
    <2>4. rows = <<>> \/ Len(rows) = 1 \/ Len(rows) = 2
      BY <1>2
    <2> QED BY <2>1, <2>2, <2>3, <2>4
  <1>13. /\ IsListOfChecks(all)
         /\ FirstFault(all) = IF FirstFault(head) = "ok" THEN FirstFault(rest) ELSE FirstFault(head)
    BY <1>5, <1>10, <1>12, RefusedBefore
  <1>14. FirstFault(all) = "ok" <=> ~malformed /\ ~none /\ \A i \in DOMAIN rows : RowIsResolved(rows[i], permitted)
    BY <1>5, <1>12, <1>13
  <1>15. FirstFault(all) # "ProductionGatesUnavailable"
    BY <1>5, <1>12, <1>13
  <1>16. (malformed <=> section.form = "malformed") /\ (none <=> section.rows = <<>>)
    BY <1>3
  <1> QED BY <1>1, <1>11, <1>13, <1>14, <1>15, <1>16, Zenon

LEMMA SixteenChecks ==
  ASSUME NEW m, NEW R, NEW S, NEW contents \in Seq(R), NEW voices \in Seq(S),
         contents = m.content_rights.rows, Len(contents) \in 0 .. 2, voices = m.voice_profiles.rows, Len(voices) \in 0 .. 2
  PROVE  ValidateProductionManifest(m) = "ProductionGatesUnavailable" <=>
            /\ m.json # "malformed" /\ m.schema_version = "1.0" /\ m.shape # "broken"
            /\ m.release_status = "production_release" /\ m.lesson_id \notin {"blank", "unportable"}
            /\ m.content_rights.form # "malformed" /\ m.content_rights.rows # <<>>
            /\ \A i \in DOMAIN m.content_rights.rows :
                  RowIsResolved(m.content_rights.rows[i], {c \in SourceClassification : PermitsProductionRelease(c)})
            /\ m.voice_profiles.form # "malformed" /\ m.voice_profiles.rows # <<>>
            /\ \A i \in DOMAIN m.voice_profiles.rows : RowIsResolved(m.voice_profiles.rows[i], {"approved"})
            /\ ~SelectsImplicitly(m)
  <1>1. PICK json, version, shape, status, blank, unportable, implicit \in BOOLEAN :
           /\ json = (m.json = "malformed") /\ version = (m.schema_version # "1.0") /\ shape = (m.shape = "broken")
           /\ status = (m.release_status # "production_release")
           /\ blank = (m.lesson_id = "blank") /\ unportable = (m.lesson_id = "unportable")
           /\ implicit = SelectsImplicitly(m)
    <2>1. SelectsImplicitly(m) \in BOOLEAN
      BY DEF SelectsImplicitly
    <2> QED BY <2>1
  <1>2. PICK head : head = <<<<m.json = "malformed", "MalformedProductionManifest">>,
                             <<m.schema_version # "1.0", "UnsupportedProductionManifest">>,
                             <<m.shape = "broken", "MalformedProductionManifest">>,
                             <<m.release_status # "production_release", "ManifestNotProductionRelease">>,
                             <<m.lesson_id = "blank", "MissingLessonId">>,
                             <<m.lesson_id = "unportable", "InvalidLessonId">>>>
    OBVIOUS
  <1>3. /\ IsListOfChecks(head)
        /\ FirstFault(head) = "ok" <=> ~json /\ ~version /\ ~shape /\ ~status /\ ~blank /\ ~unportable
        /\ FirstFault(head) # "ProductionGatesUnavailable"
    <2>1. PICK a, b, c, d, e, f :
             /\ a = <<json, "MalformedProductionManifest">> /\ b = <<version, "UnsupportedProductionManifest">>
             /\ c = <<shape, "MalformedProductionManifest">> /\ d = <<status, "ManifestNotProductionRelease">>
             /\ e = <<blank, "MissingLessonId">> /\ f = <<unportable, "InvalidLessonId">>
      OBVIOUS
    <2>2. /\ a[2] = "MalformedProductionManifest" /\ b[2] = "UnsupportedProductionManifest"
          /\ c[2] = "MalformedProductionManifest" /\ d[2] = "ManifestNotProductionRelease"
          /\ e[2] = "MissingLessonId" /\ f[2] = "InvalidLessonId"
          /\ (a[1] <=> json) /\ (b[1] <=> version) /\ (c[1] <=> shape) /\ (d[1] <=> status)
          /\ (e[1] <=> blank) /\ (f[1] <=> unportable)
      BY <2>1
    <2>3. a[2] # "ok" /\ b[2] # "ok" /\ c[2] # "ok" /\ d[2] # "ok" /\ e[2] # "ok" /\ f[2] # "ok"
      BY <2>2
    <2>4. /\ IsListOfChecks(<<a, b, c, d, e, f>>)
          /\ FirstFault(<<a, b, c, d, e, f>>) =
                IF a[1] THEN a[2] ELSE IF b[1] THEN b[2] ELSE IF c[1] THEN c[2]
                ELSE IF d[1] THEN d[2] ELSE IF e[1] THEN e[2] ELSE IF f[1] THEN f[2] ELSE "ok"
      BY <2>3, ListOfSix, Zenon
    <2>5. head = <<a, b, c, d, e, f>>
      BY <1>1, <1>2, <2>1, Zenon
    <2>6. PICK fault : fault = FirstFault(head)
      OBVIOUS
    <2>7. fault = IF a[1] THEN a[2] ELSE IF b[1] THEN b[2] ELSE IF c[1] THEN c[2]
                  ELSE IF d[1] THEN d[2] ELSE IF e[1] THEN e[2] ELSE IF f[1] THEN f[2] ELSE "ok"
      BY <2>4, <2>5, <2>6, Zenon
    <2>8. /\ fault = "ok" <=> ~json /\ ~version /\ ~shape /\ ~status /\ ~blank /\ ~unportable
          /\ fault # "ProductionGatesUnavailable"
      BY <2>2, <2>7
    <2> QED BY <2>4, <2>5, <2>6, <2>8, Zenon
  <1>4. PICK permitted : permitted = {c \in SourceClassification : PermitsProductionRelease(c)}
    OBVIOUS
  <1>5. PICK rights : rights = DeclarationChecks(m.content_rights, "MissingContentRightsDeclaration",
                                                 "UnresolvedContentRights", permitted)
    OBVIOUS
  <1>6. /\ IsListOfChecks(rights)
        /\ FirstFault(rights) = "ok" <=>
              /\ m.content_rights.form # "malformed" /\ m.content_rights.rows # <<>>
              /\ \A i \in DOMAIN m.content_rights.rows : RowIsResolved(m.content_rights.rows[i], permitted)
        /\ FirstFault(rights) # "ProductionGatesUnavailable"
    BY <1>5, DeclarationsAreChecked
  <1>7. PICK voice : voice = DeclarationChecks(m.voice_profiles, "MissingVoiceProfileDeclaration",
                                               "ProfileNotApproved", {"approved"})
    OBVIOUS
  <1>8. /\ IsListOfChecks(voice)
        /\ FirstFault(voice) = "ok" <=>
              /\ m.voice_profiles.form # "malformed" /\ m.voice_profiles.rows # <<>>
              /\ \A i \in DOMAIN m.voice_profiles.rows : RowIsResolved(m.voice_profiles.rows[i], {"approved"})
        /\ FirstFault(voice) # "ProductionGatesUnavailable"
    BY <1>7, DeclarationsAreChecked
  <1>9. PICK tail : tail = <<<<SelectsImplicitly(m), "ImplicitTakeSelection">>, <<TRUE, "ProductionGatesUnavailable">>>>
    OBVIOUS
  <1>10. /\ IsListOfChecks(tail)
         /\ FirstFault(tail) = IF implicit THEN "ImplicitTakeSelection" ELSE "ProductionGatesUnavailable"
    <2>1. PICK a, b : a = <<implicit, "ImplicitTakeSelection">> /\ b = <<TRUE, "ProductionGatesUnavailable">>
      OBVIOUS
    <2>2. a[2] = "ImplicitTakeSelection" /\ b[2] = "ProductionGatesUnavailable" /\ (a[1] <=> implicit) /\ b[1]
      BY <2>1
    <2>3. /\ IsListOfChecks(<<a, b>>)
          /\ FirstFault(<<a, b>>) = IF a[1] THEN a[2] ELSE IF b[1] THEN b[2] ELSE "ok"
      BY <2>2, ListOfTwo
    <2>4. tail = <<a, b>>
      BY <1>1, <1>9, <2>1, Zenon
    <2> QED BY <2>2, <2>3, <2>4
  <1>11. PICK two : two = head \o rights
    OBVIOUS
  <1>12. PICK three : three = two \o voice
    OBVIOUS
  <1>13. PICK four : four = three \o tail
    OBVIOUS
  <1>14. ValidateProductionManifest(m) = FirstFault(four)
    BY <1>2, <1>4, <1>5, <1>7, <1>9, <1>11, <1>12, <1>13, Zenon DEF ValidateProductionManifest
  <1>15. /\ IsListOfChecks(two)
         /\ FirstFault(two) = IF FirstFault(head) = "ok" THEN FirstFault(rights) ELSE FirstFault(head)
    BY <1>3, <1>6, <1>11, RefusedBefore
  <1>16. /\ IsListOfChecks(three)
         /\ FirstFault(three) = IF FirstFault(two) = "ok" THEN FirstFault(voice) ELSE FirstFault(two)
    BY <1>8, <1>12, <1>15, RefusedBefore
  <1>17. FirstFault(four) = IF FirstFault(three) = "ok" THEN FirstFault(tail) ELSE FirstFault(three)
    BY <1>10, <1>13, <1>16, RefusedBefore
  <1>18. ValidateProductionManifest(m) = "ProductionGatesUnavailable" <=>
            FirstFault(head) = "ok" /\ FirstFault(rights) = "ok" /\ FirstFault(voice) = "ok" /\ ~implicit
    BY <1>3, <1>6, <1>8, <1>10, <1>14, <1>15, <1>16, <1>17
  <1>19. /\ (json <=> m.json = "malformed") /\ (version <=> m.schema_version # "1.0") /\ (shape <=> m.shape = "broken")
         /\ (status <=> m.release_status # "production_release")
         /\ (blank <=> m.lesson_id = "blank") /\ (unportable <=> m.lesson_id = "unportable")
         /\ (implicit <=> SelectsImplicitly(m))
    BY <1>1
  <1> QED BY <1>3, <1>4, <1>6, <1>8, <1>18, <1>19, Zenon

ManifestDocument ==
  [json : {"malformed", "object"}, schema_version : {"missing", "1.0", "2.0"}, shape : {"broken", "sound"},
   release_status : {"private_preview", "production_release"}, lesson_id : {"blank", "unportable", "portable"},
   take_selection_source : {"absent", "implicit", "explicit"},
   content_rights : [form : {"absent", "malformed", "list"}, rows : Seq(Declaration(SourceClassification))],
   voice_profiles : [form : {"absent", "malformed", "list"}, rows : Seq(Declaration(RightsDecision))]]

\* A manifest of the shape the rules read: at most two declarations in a section, the
\* number its checks are written out for, and none in a section that is not a list.
IsManifest(m) ==
  /\ m \in ManifestDocument
  /\ \A section \in {m.content_rights, m.voice_profiles} :
        Len(section.rows) <= 2 /\ (section.form = "malformed" => section.rows = <<>>)

\* pipeline.rs: of every manifest, the refusal that the gates do not exist is the answer to
\* one with nothing else wrong and to no other, whichever of its fields are wrong together.
THEOREM GatesAreLast ==
  ASSUME NEW m, IsManifest(m)
  PROVE  ValidateProductionManifest(m) = "ProductionGatesUnavailable" <=>
            /\ m.json = "object" /\ m.schema_version = "1.0" /\ m.shape = "sound"
            /\ m.release_status = "production_release" /\ m.lesson_id = "portable"
            /\ RightsAreResolved(m) /\ m.take_selection_source = "explicit"
  <1>1. /\ m.json \in {"malformed", "object"} /\ m.shape \in {"broken", "sound"}
        /\ m.lesson_id \in {"blank", "unportable", "portable"}
        /\ m.take_selection_source \in {"absent", "implicit", "explicit"}
    BY DEF IsManifest, ManifestDocument
  <1>2. PICK contents, voices : contents = m.content_rights.rows /\ voices = m.voice_profiles.rows
    OBVIOUS
  <1>3. /\ contents \in Seq(Declaration(SourceClassification)) /\ voices \in Seq(Declaration(RightsDecision))
        /\ Len(contents) <= 2 /\ Len(voices) <= 2
        /\ m.content_rights.form = "malformed" => contents = <<>>
        /\ m.voice_profiles.form = "malformed" => voices = <<>>
    BY <1>2 DEF IsManifest, ManifestDocument
  <1>4. Len(contents) \in 0 .. 2 /\ Len(voices) \in 0 .. 2
    <2>1. Len(contents) \in Nat /\ Len(voices) \in Nat
      BY <1>3
    <2>2. PICK k \in Nat, n \in Nat : k = Len(contents) /\ n = Len(voices)
      BY <2>1
    <2>3. k <= 2 /\ n <= 2
      BY <1>3, <2>2
    <2>4. k \in 0 .. 2 /\ n \in 0 .. 2
      BY <2>3
    <2> QED BY <2>2, <2>4, Zenon
  <1>5. ValidateProductionManifest(m) = "ProductionGatesUnavailable" <=>
            /\ m.json # "malformed" /\ m.schema_version = "1.0" /\ m.shape # "broken"
            /\ m.release_status = "production_release" /\ m.lesson_id \notin {"blank", "unportable"}
            /\ m.content_rights.form # "malformed" /\ contents # <<>>
            /\ \A i \in DOMAIN contents :
                  RowIsResolved(contents[i], {c \in SourceClassification : PermitsProductionRelease(c)})
            /\ m.voice_profiles.form # "malformed" /\ voices # <<>>
            /\ \A i \in DOMAIN voices : RowIsResolved(voices[i], {"approved"})
            /\ ~SelectsImplicitly(m)
    BY <1>2, <1>3, <1>4, SixteenChecks, Zenon
  <1>6. ASSUME NEW i \in DOMAIN contents
        PROVE  RowIsResolved(contents[i], {c \in SourceClassification : PermitsProductionRelease(c)}) <=>
                  /\ contents[i].id # "blank" /\ contents[i].rights_record_id # "blank"
                  /\ PermitsProductionRelease(contents[i].decision)
    <2>1. PICK row \in Declaration(SourceClassification) : row = contents[i]
      BY <1>3
    <2>2. row.decision \in SourceClassification
      BY DEF Declaration
    <2>3. row.decision \in {c \in SourceClassification : PermitsProductionRelease(c)} <=> PermitsProductionRelease(row.decision)
      BY <2>2
    <2> QED BY <2>1, <2>3 DEF RowIsResolved
  <1>7. ASSUME NEW i \in DOMAIN voices
        PROVE  RowIsResolved(voices[i], {"approved"}) <=> voices[i] = SoundVoice
    <2>1. PICK row \in Declaration(RightsDecision) : row = voices[i]
      BY <1>3
    <2>2. /\ row.id \in {"blank", "id"} /\ row.rights_record_id \in {"blank", "id"}
          /\ row = [id |-> row.id, rights_record_id |-> row.rights_record_id, decision |-> row.decision]
      BY DEF Declaration
    <2>3. row = SoundVoice <=> row.id = "id" /\ row.rights_record_id = "id" /\ row.decision = "approved"
      BY <2>2 DEF SoundVoice
    <2> QED BY <2>1, <2>2, <2>3 DEF RowIsResolved
  <1>8. RightsAreResolved(m) <=>
            /\ contents # <<>> /\ voices # <<>>
            /\ \A i \in DOMAIN contents :
                  RowIsResolved(contents[i], {c \in SourceClassification : PermitsProductionRelease(c)})
            /\ \A i \in DOMAIN voices : RowIsResolved(voices[i], {"approved"})
    <2>1. (\A i \in DOMAIN contents :
             RowIsResolved(contents[i], {c \in SourceClassification : PermitsProductionRelease(c)})) <=>
          \A i \in DOMAIN contents : /\ contents[i].id # "blank" /\ contents[i].rights_record_id # "blank"
                                     /\ PermitsProductionRelease(contents[i].decision)
      BY <1>6, Zenon
    <2>2. (\A i \in DOMAIN voices : RowIsResolved(voices[i], {"approved"})) <=> \A i \in DOMAIN voices : voices[i] = SoundVoice
      BY <1>7, Zenon
    <2> QED BY <1>2, <2>1, <2>2, Zenon DEF RightsAreResolved
  <1>9. ~SelectsImplicitly(m) <=> m.take_selection_source = "explicit"
    BY <1>1 DEF SelectsImplicitly
  <1> QED BY <1>1, <1>3, <1>5, <1>8, <1>9

LEMMA SectionsAreSections ==
  ASSUME NEW D, NEW sound \in Declaration(D), NEW section \in Sections(sound, D)
  PROVE  /\ section \in [form : {"absent", "malformed", "list"}, rows : Seq(Declaration(D))]
         /\ Len(section.rows) <= 2 /\ (section.form = "malformed" => section.rows = <<>>)
  <1>1. \E form \in {"absent", "malformed", "list"}, rows \in Seq(Declaration(D)) :
           section = Section(form, rows) /\ Len(rows) <= 2 /\ (form = "malformed" => rows = <<>>)
    <2>1. CASE section \in {Section("absent", <<>>), Section("malformed", <<>>), Section("list", <<>>)}
      <3>1. PICK form \in {"absent", "malformed", "list"}, rows \in {<<>>} : section = Section(form, rows)
        BY <2>1
      <3>2. rows \in Seq(Declaration(D)) /\ Len(rows) <= 2
        BY <3>1
      <3> QED BY <3>1, <3>2
    <2>2. CASE section \in {Section("list", <<d>>) : d \in Declaration(D)}
      <3>1. PICK d \in Declaration(D) : section = Section("list", <<d>>)
        BY <2>2
      <3>2. PICK rows : rows = <<d>>
        OBVIOUS
      <3>3. rows \in Seq(Declaration(D)) /\ Len(rows) <= 2
        BY <3>2
      <3> QED BY <3>1, <3>2, <3>3
    <2>3. CASE section \in {Section("list", <<sound, d>>) : d \in Declaration(D)}
      <3>1. PICK d \in Declaration(D) : section = Section("list", <<sound, d>>)
        BY <2>3
      <3>2. PICK rows : rows = <<sound, d>>
        OBVIOUS
      <3>3. rows \in Seq(Declaration(D)) /\ Len(rows) <= 2
        BY <3>2
      <3> QED BY <3>1, <3>2, <3>3
    <2> QED BY <2>1, <2>2, <2>3 DEF Sections
  <1>2. PICK form \in {"absent", "malformed", "list"}, rows \in Seq(Declaration(D)) :
           section = Section(form, rows) /\ Len(rows) <= 2 /\ (form = "malformed" => rows = <<>>)
    BY <1>1
  <1>3. section = [form |-> form, rows |-> rows]
    BY <1>2 DEF Section
  <1> QED BY <1>2, <1>3

LEMMA EditsAreManifests ==
  ASSUME NEW m, IsManifest(m), NEW edited \in ManifestEdits(m)
  PROVE  IsManifest(edited)
  <1>1. PICK field \in DOMAIN ManifestValues : \E v \in ManifestValues[field] : edited = [m EXCEPT ![field] = v]
    BY DEF ManifestEdits
  <1>2. PICK v \in ManifestValues[field] : edited = [m EXCEPT ![field] = v]
    BY <1>1
  <1>3. SoundSource \in Declaration(SourceClassification) /\ SoundVoice \in Declaration(RightsDecision)
    BY DEF SoundSource, SoundVoice, Declaration, SourceClassification, RightsDecision
  <1>4. CASE field = "content_rights"
    <2>1. v \in Sections(SoundSource, SourceClassification)
      BY <1>4 DEF ManifestValues
    <2>2. /\ v \in [form : {"absent", "malformed", "list"}, rows : Seq(Declaration(SourceClassification))]
          /\ Len(v.rows) <= 2 /\ (v.form = "malformed" => v.rows = <<>>)
      BY <1>3, <2>1, SectionsAreSections
    <2> QED BY <1>2, <1>4, <2>2 DEF IsManifest, ManifestDocument
  <1>5. CASE field = "voice_profiles"
    <2>1. v \in Sections(SoundVoice, RightsDecision)
      BY <1>5 DEF ManifestValues
    <2>2. /\ v \in [form : {"absent", "malformed", "list"}, rows : Seq(Declaration(RightsDecision))]
          /\ Len(v.rows) <= 2 /\ (v.form = "malformed" => v.rows = <<>>)
      BY <1>3, <2>1, SectionsAreSections
    <2> QED BY <1>2, <1>5, <2>2 DEF IsManifest, ManifestDocument
  <1>6. CASE field \notin {"content_rights", "voice_profiles"}
    <2>1. edited \in ManifestDocument
      BY <1>2, <1>6 DEF ManifestValues, IsManifest, ManifestDocument
    <2>2. edited.content_rights = m.content_rights /\ edited.voice_profiles = m.voice_profiles
      BY <1>2, <1>6 DEF IsManifest, ManifestDocument
    <2> QED BY <2>1, <2>2 DEF IsManifest
  <1> QED BY <1>4, <1>5, <1>6

LEMMA SoundManifestIsAManifest == IsManifest(SoundManifest)
  <1>1. SoundSource \in Declaration(SourceClassification) /\ SoundVoice \in Declaration(RightsDecision)
    BY DEF SoundSource, SoundVoice, Declaration, SourceClassification, RightsDecision
  <1> QED BY <1>1 DEF IsManifest, ManifestDocument, SoundManifest, Section

\* The same of the manifests that edits of a sound one come to.
THEOREM GatesAreLastOfEveryEdit == ManifestSpec => []GatesAreTheLastObstacle
  <1>1. ManifestInit => IsManifest(manifest)
    BY SoundManifestIsAManifest, EditsAreManifests DEF ManifestInit
  <1>2. IsManifest(manifest) /\ [EditManifest]_manifest => IsManifest(manifest)'
    BY EditsAreManifests DEF EditManifest
  <1>3. IsManifest(manifest) => GatesAreTheLastObstacle
    BY GatesAreLast DEF GatesAreTheLastObstacle
  <1> QED BY <1>1, <1>2, <1>3, PTL DEF ManifestSpec

-----------------------------------------------------------------------------
(* A lesson. *)

\* The first key the deserializer stops at, or none when it stops at none.
LEMMA FirstKeyItStopsAt ==
  ASSUME NEW object, NEW keys, NEW n \in Nat, DOMAIN keys = 1 .. n, \A i \in 1 .. n : keys[i] # NoField
  PROVE  \/ /\ FirstKey(keys, LAMBDA key : StopsAt(object, key)) = NoField
            /\ \A i \in 1 .. n : ~StopsAt(object, keys[i])
         \/ \E i \in 1 .. n : FirstKey(keys, LAMBDA key : StopsAt(object, key)) = keys[i] /\ StopsAt(object, keys[i])
  <1>1. PICK failing : failing = {i \in DOMAIN keys : StopsAt(object, keys[i])}
    OBVIOUS
  <1>2. FirstKey(keys, LAMBDA key : StopsAt(object, key)) = IF failing = {} THEN NoField ELSE keys[Min(failing)]
    BY <1>1, Zenon DEF FirstKey
  <1>3. CASE failing = {}
    BY <1>1, <1>2, <1>3
  <1>4. CASE failing # {}
    <2>1. failing \in SUBSET Nat
      <3>1. failing \subseteq DOMAIN keys
        BY <1>1, Zenon
      <3> QED BY <3>1
    <2>2. Min(failing) \in failing
      BY <1>4, <2>1, FirstPosition
    <2> QED BY <1>1, <1>2, <1>4, <2>2
  <1> QED BY <1>3, <1>4

LEMMA FirstKeyItOmits ==
  ASSUME NEW object, NEW keys, NEW n \in Nat, DOMAIN keys = 1 .. n, \A i \in 1 .. n : keys[i] # NoField
  PROVE  \/ /\ FirstKey(keys, LAMBDA key : Omits(object, key)) = NoField
            /\ \A i \in 1 .. n : ~Omits(object, keys[i])
         \/ \E i \in 1 .. n : FirstKey(keys, LAMBDA key : Omits(object, key)) = keys[i] /\ Omits(object, keys[i])
  <1>1. PICK failing : failing = {i \in DOMAIN keys : Omits(object, keys[i])}
    OBVIOUS
  <1>2. FirstKey(keys, LAMBDA key : Omits(object, key)) = IF failing = {} THEN NoField ELSE keys[Min(failing)]
    BY <1>1, Zenon DEF FirstKey
  <1>3. CASE failing = {}
    BY <1>1, <1>2, <1>3
  <1>4. CASE failing # {}
    <2>1. failing \in SUBSET Nat
      <3>1. failing \subseteq DOMAIN keys
        BY <1>1, Zenon
      <3> QED BY <3>1
    <2>2. Min(failing) \in failing
      BY <1>4, <2>1, FirstPosition
    <2> QED BY <1>1, <1>2, <1>4, <2>2
  <1> QED BY <1>3, <1>4

ShapeCodes == {"UnknownSegmentRole", "MissingSegmentRole", "UnknownDeliveryStyle", "MissingDeliveryStyle",
               "UnknownReviewStatus", "MissingReviewStatus", "MalformedSourceContentHash", "InvalidJson"}

LEMMA ShapeCodeIsACode ==
  ASSUME NEW value, NEW segment, NEW field
  PROVE  ShapeCode(value, segment, field) \in ShapeCodes
  BY DEF ShapeCode, ShapeCodes

LEMMA RefusalsAreEqual ==
  ASSUME NEW c, NEW s, NEW f, NEW c2, NEW s2, NEW f2
  PROVE  Refusal(c, s, f) = Refusal(c2, s2, f2) <=> c = c2 /\ s = s2 /\ f = f2
  BY DEF Refusal

LEMMA ObjectIsRefused ==
  ASSUME NEW object, NEW segment, NEW keys, NEW n \in Nat, DOMAIN keys = 1 .. n, \A i \in 1 .. n : keys[i] # NoField
  PROVE  \/ ObjectRefusal(object, keys, segment) = Accepted /\ \A i \in 1 .. n : ~IsWrongAt(object, keys[i])
         \/ \E i \in 1 .. n :
               /\ ObjectRefusal(object, keys, segment) = Refusal(ShapeCode(object[keys[i]], segment, keys[i]), segment, keys[i])
               /\ ObjectRefusal(object, keys, segment) # Accepted
               /\ IsWrongAt(object, keys[i])
  <1>1. PICK read, omitted : /\ read = FirstKey(keys, LAMBDA key : StopsAt(object, key))
                             /\ omitted = FirstKey(keys, LAMBDA key : Omits(object, key))
    OBVIOUS
  <1>2. PICK at : at = IF read # NoField THEN read ELSE omitted
    OBVIOUS
  <1>3. ObjectRefusal(object, keys, segment) =
          IF at = NoField THEN Accepted ELSE Refusal(ShapeCode(object[at], segment, at), segment, at)
    BY <1>1, <1>2, Zenon DEF ObjectRefusal
  <1>4. \/ read = NoField /\ \A i \in 1 .. n : ~StopsAt(object, keys[i])
        \/ \E i \in 1 .. n : read = keys[i] /\ StopsAt(object, keys[i])
    BY <1>1, FirstKeyItStopsAt, Zenon
  <1>5. \/ omitted = NoField /\ \A i \in 1 .. n : ~Omits(object, keys[i])
        \/ \E i \in 1 .. n : omitted = keys[i] /\ Omits(object, keys[i])
    BY <1>1, FirstKeyItOmits, Zenon
  <1>6. CASE at = NoField
    BY <1>2, <1>3, <1>4, <1>5, <1>6 DEF IsWrongAt
  <1>7. CASE at # NoField
    <2>1. PICK i \in 1 .. n : at = keys[i] /\ IsWrongAt(object, keys[i])
      BY <1>2, <1>4, <1>5, <1>7 DEF IsWrongAt
    <2>2. ObjectRefusal(object, keys, segment) = Refusal(ShapeCode(object[at], segment, at), segment, at)
      BY <1>3, <1>7
    <2>3. ShapeCode(object[at], segment, at) # "ok"
      BY ShapeCodeIsACode DEF ShapeCodes
    <2>4. ObjectRefusal(object, keys, segment) # Accepted
      <3>1. PICK c : c = ShapeCode(object[at], segment, at)
        OBVIOUS
      <3>2. Refusal(c, segment, at) # Refusal("ok", 0, NoField)
        BY <2>3, <3>1, RefusalsAreEqual
      <3> QED BY <2>2, <3>1, <3>2, Zenon DEF Accepted
    <2> QED BY <2>1, <2>2, <2>4
  <1> QED BY <1>6, <1>7

LEMMA KeysAreNamed ==
  /\ DOMAIN DocumentKeys = 1 .. 9 /\ \A i \in 1 .. 9 : DocumentKeys[i] # NoField
  /\ DOMAIN SegmentKeys = 1 .. 10 /\ \A i \in 1 .. 10 : SegmentKeys[i] # NoField
  <1>1. PICK names : names = {"schema", "schema_version", "lesson_id", "title", "language", "learning_objectives",
                              "content_hash", "references", "speakers", "id", "speaker", "role", "source_refs",
                              "display_text", "spoken_text", "style", "pause_after_ms", "review_status", "editorial"}
    OBVIOUS
  <1>2. DOMAIN DocumentKeys = 1 .. 9 /\ \A i \in 1 .. 9 : DocumentKeys[i] \in names
    BY <1>1 DEF DocumentKeys
  <1>3. DOMAIN SegmentKeys = 1 .. 10 /\ \A i \in 1 .. 10 : SegmentKeys[i] \in names
    BY <1>1 DEF SegmentKeys
  <1>4. \A name \in names : name # NoField
    BY <1>1, Zenon DEF NoField
  <1> QED BY <1>2, <1>3, <1>4

\* Where a refusal of the shape is: at a key of the document, or of one of its segments.
ShapeIsRefusedAt(l, keys, object, segment) ==
  \E i \in DOMAIN keys :
     /\ ShapeRefusal(l) = Refusal(ShapeCode(object[keys[i]], segment, keys[i]), segment, keys[i])
     /\ ShapeRefusal(l) # Accepted
     /\ IsWrongAt(object, keys[i])

LEMMA ShapeIsRefused ==
  ASSUME NEW l, NEW n \in Nat, DOMAIN l.segments = 1 .. n
  PROVE  \/ /\ ShapeRefusal(l) = Accepted
            /\ \A i \in DOMAIN DocumentKeys : ~IsWrongAt(l, DocumentKeys[i])
            /\ \A k \in 1 .. n : \A i \in DOMAIN SegmentKeys : ~IsWrongAt(l.segments[k], SegmentKeys[i])
         \/ ShapeIsRefusedAt(l, DocumentKeys, l, 0)
         \/ \E k \in 1 .. n : ShapeIsRefusedAt(l, SegmentKeys, l.segments[k], k)
  <1> DEFINE read == FirstKey(DocumentKeys, LAMBDA key : StopsAt(l, key))
  <1> DEFINE segments == [i \in DOMAIN l.segments |-> ObjectRefusal(l.segments[i], SegmentKeys, i)]
  <1> DEFINE refused == {i \in DOMAIN segments : segments[i] # Accepted}
  <1>1. read = FirstKey(DocumentKeys, LAMBDA key : StopsAt(l, key))
    OBVIOUS
  <1>2. segments = [i \in DOMAIN l.segments |-> ObjectRefusal(l.segments[i], SegmentKeys, i)]
    OBVIOUS
  <1>3. ShapeRefusal(l) = IF read = NoField /\ refused # {} THEN segments[Min(refused)] ELSE ObjectRefusal(l, DocumentKeys, 0)
    BY Zenon DEF ShapeRefusal
  <1> HIDE DEF read, segments
  <1>4. PICK failed : failed = refused
    OBVIOUS
  <1>5. ShapeRefusal(l) = IF read = NoField /\ failed # {} THEN segments[Min(failed)] ELSE ObjectRefusal(l, DocumentKeys, 0)
    BY <1>3, <1>4, Zenon
  <1>6. DOMAIN l.segments = 1 .. n /\ DOMAIN segments = 1 .. n
    BY <1>2
  <1>7. \A k \in 1 .. n :
           \/ segments[k] = Accepted /\ \A i \in 1 .. 10 : ~IsWrongAt(l.segments[k], SegmentKeys[i])
           \/ \E i \in 1 .. 10 :
                 /\ segments[k] = Refusal(ShapeCode(l.segments[k][SegmentKeys[i]], k, SegmentKeys[i]), k, SegmentKeys[i])
                 /\ segments[k] # Accepted
                 /\ IsWrongAt(l.segments[k], SegmentKeys[i])
    <2>1. TAKE k \in 1 .. n
    <2>2. segments[k] = ObjectRefusal(l.segments[k], SegmentKeys, k)
      BY <1>2, <1>6
    <2>3. 10 \in Nat
      OBVIOUS
    <2> QED BY <2>2, <2>3, KeysAreNamed, ObjectIsRefused, Zenon
  <1>8. \/ ObjectRefusal(l, DocumentKeys, 0) = Accepted /\ \A i \in 1 .. 9 : ~IsWrongAt(l, DocumentKeys[i])
        \/ \E i \in 1 .. 9 :
              /\ ObjectRefusal(l, DocumentKeys, 0) = Refusal(ShapeCode(l[DocumentKeys[i]], 0, DocumentKeys[i]), 0, DocumentKeys[i])
              /\ ObjectRefusal(l, DocumentKeys, 0) # Accepted
              /\ IsWrongAt(l, DocumentKeys[i])
    <2>1. 9 \in Nat
      OBVIOUS
    <2> QED BY <2>1, KeysAreNamed, ObjectIsRefused, Zenon
  <1>9. CASE read = NoField /\ failed # {}
    <2>1. failed \in SUBSET Nat
      BY <1>4, <1>6
    <2>2. PICK k \in 1 .. n : k = Min(failed) /\ segments[k] # Accepted
      BY <1>4, <1>6, <1>9, <2>1, FirstPosition
    <2>3. ShapeRefusal(l) = segments[k]
      BY <1>5, <1>9, <2>2
    <2>4. ShapeIsRefusedAt(l, SegmentKeys, l.segments[k], k)
      BY <1>7, <2>2, <2>3, KeysAreNamed DEF ShapeIsRefusedAt
    <2> QED BY <2>4
  <1>10. CASE ~(read = NoField /\ failed # {})
    <2>1. ShapeRefusal(l) = ObjectRefusal(l, DocumentKeys, 0)
      BY <1>5, <1>10
    <2>2. CASE ShapeRefusal(l) # Accepted
      <3>1. ShapeIsRefusedAt(l, DocumentKeys, l, 0)
        BY <1>8, <2>1, <2>2, KeysAreNamed DEF ShapeIsRefusedAt
      <3> QED BY <3>1
    <2>3. CASE ShapeRefusal(l) = Accepted
      <3>1. \A i \in 1 .. 9 : ~IsWrongAt(l, DocumentKeys[i])
        BY <1>8, <2>1, <2>3
      <3>2. read = NoField
        <4>1. \/ read = NoField /\ \A i \in 1 .. 9 : ~StopsAt(l, DocumentKeys[i])
              \/ \E i \in 1 .. 9 : read = DocumentKeys[i] /\ StopsAt(l, DocumentKeys[i])
          <5>1. 9 \in Nat
            OBVIOUS
          <5> QED BY <1>1, <5>1, KeysAreNamed, FirstKeyItStopsAt, Zenon
        <4> QED BY <3>1, <4>1 DEF IsWrongAt
      <3>3. failed = {}
        BY <1>10, <3>2
      <3>4. \A k \in 1 .. n : segments[k] = Accepted
        BY <1>4, <1>6, <3>3
      <3>5. \A k \in 1 .. n : \A i \in 1 .. 10 : ~IsWrongAt(l.segments[k], SegmentKeys[i])
        BY <1>7, <3>4
      <3> QED BY <2>3, <3>1, <3>5, KeysAreNamed
    <2> QED BY <2>2, <2>3
  <1> QED BY <1>9, <1>10

\* A segment and a lesson as they can be written.
SegmentDocument ==
  [id : SegmentValues.id, speaker : SegmentValues.speaker, role : SegmentValues.role,
   source_refs : SegmentValues.source_refs, display_text : SegmentValues.display_text,
   spoken_text : SegmentValues.spoken_text, style : SegmentValues.style,
   pause_after_ms : SegmentValues.pause_after_ms, review_status : SegmentValues.review_status,
   editorial : SegmentValues.editorial]
LessonFields ==
  [size : DocumentValues.size, schema : DocumentValues.schema, schema_version : DocumentValues.schema_version,
   lesson_id : DocumentValues.lesson_id, title : DocumentValues.title, language : DocumentValues.language,
   learning_objectives : DocumentValues.learning_objectives, content_hash : DocumentValues.content_hash,
   references : DocumentValues.references, speakers : DocumentValues.speakers, segments : Seq(SegmentDocument)]

LEMMA DocumentIsWhole ==
  ASSUME NEW l \in LessonFields
  PROVE  (\A i \in DOMAIN DocumentKeys : ~IsWrongAt(l, DocumentKeys[i])) <=>
            /\ l.schema # "wrong" /\ l.schema_version \notin {"wrong", "absent"}
            /\ l.lesson_id \notin {"wrong", "absent"} /\ l.title = "text" /\ l.language \notin {"wrong", "absent"}
            /\ l.learning_objectives # "wrong" /\ l.content_hash \in {"no_source", "digest"}
            /\ l.speakers \notin {"wrong", "absent"}
  <1>1. /\ ~IsWrongAt(l, "schema") <=> l.schema # "wrong"
        /\ ~IsWrongAt(l, "schema_version") <=> l.schema_version \notin {"wrong", "absent"}
        /\ ~IsWrongAt(l, "lesson_id") <=> l.lesson_id \notin {"wrong", "absent"}
        /\ ~IsWrongAt(l, "title") <=> l.title = "text"
        /\ ~IsWrongAt(l, "language") <=> l.language \notin {"wrong", "absent"}
        /\ ~IsWrongAt(l, "learning_objectives") <=> l.learning_objectives # "wrong"
        /\ ~IsWrongAt(l, "content_hash") <=> l.content_hash \in {"no_source", "digest"}
        /\ ~IsWrongAt(l, "references")
        /\ ~IsWrongAt(l, "speakers") <=> l.speakers \notin {"wrong", "absent"}
    BY DEF IsWrongAt, StopsAt, Omits, OptionalKeys, LessonFields, DocumentValues
  <1>2. (\A i \in DOMAIN DocumentKeys : ~IsWrongAt(l, DocumentKeys[i])) <=>
           /\ ~IsWrongAt(l, "schema") /\ ~IsWrongAt(l, "schema_version") /\ ~IsWrongAt(l, "lesson_id")
           /\ ~IsWrongAt(l, "title") /\ ~IsWrongAt(l, "language") /\ ~IsWrongAt(l, "learning_objectives")
           /\ ~IsWrongAt(l, "content_hash") /\ ~IsWrongAt(l, "references") /\ ~IsWrongAt(l, "speakers")
    BY DEF DocumentKeys
  <1> QED BY <1>1, <1>2

LEMMA SegmentIsWhole ==
  ASSUME NEW s \in SegmentDocument
  PROVE  (\A i \in DOMAIN SegmentKeys : ~IsWrongAt(s, SegmentKeys[i])) <=>
            /\ s.id \notin {"wrong", "absent"} /\ s.speaker \notin {"wrong", "absent"}
            /\ s.role \in {"explanation", "recall_prompt"} /\ s.source_refs \notin {"wrong", "absent"}
            /\ s.display_text \notin {"wrong", "absent"} /\ s.spoken_text \notin {"wrong", "absent"}
            /\ s.style = "calm" /\ s.pause_after_ms \notin {"wrong", "absent"}
            /\ s.review_status \in {"draft", "needs_review", "approved"}
  <1>1. /\ ~IsWrongAt(s, "id") <=> s.id \notin {"wrong", "absent"}
        /\ ~IsWrongAt(s, "speaker") <=> s.speaker \notin {"wrong", "absent"}
        /\ ~IsWrongAt(s, "role") <=> s.role \in {"explanation", "recall_prompt"}
        /\ ~IsWrongAt(s, "source_refs") <=> s.source_refs \notin {"wrong", "absent"}
        /\ ~IsWrongAt(s, "display_text") <=> s.display_text \notin {"wrong", "absent"}
        /\ ~IsWrongAt(s, "spoken_text") <=> s.spoken_text \notin {"wrong", "absent"}
        /\ ~IsWrongAt(s, "style") <=> s.style = "calm"
        /\ ~IsWrongAt(s, "pause_after_ms") <=> s.pause_after_ms \notin {"wrong", "absent"}
        /\ ~IsWrongAt(s, "review_status") <=> s.review_status \in {"draft", "needs_review", "approved"}
        /\ ~IsWrongAt(s, "editorial")
    BY DEF IsWrongAt, StopsAt, Omits, OptionalKeys, SegmentDocument, SegmentValues
  <1>2. (\A i \in DOMAIN SegmentKeys : ~IsWrongAt(s, SegmentKeys[i])) <=>
           /\ ~IsWrongAt(s, "id") /\ ~IsWrongAt(s, "speaker") /\ ~IsWrongAt(s, "role")
           /\ ~IsWrongAt(s, "source_refs") /\ ~IsWrongAt(s, "display_text") /\ ~IsWrongAt(s, "spoken_text")
           /\ ~IsWrongAt(s, "style") /\ ~IsWrongAt(s, "pause_after_ms") /\ ~IsWrongAt(s, "review_status")
           /\ ~IsWrongAt(s, "editorial")
    BY DEF SegmentKeys
  <1> QED BY <1>1, <1>2

\* The checks of the code, each list as the cascade of its refusals.
LEMMA IdsAreChecked ==
  ASSUME NEW value, NEW missing, NEW invalid, missing # "ok", invalid # "ok"
  PROVE  /\ IsListOfChecks(IdChecks(value, missing, invalid))
         /\ FirstFault(IdChecks(value, missing, invalid)) =
              IF value = "blank" THEN missing ELSE
              IF value = "unportable" THEN invalid ELSE "ok"
         /\ \A code : Breaks(IdChecks(value, missing, invalid), code) <=>
              \/ code = missing /\ value = "blank"
              \/ code = invalid /\ value = "unportable"
  <1>1. PICK x1, x2 \in BOOLEAN :
           /\ x1 = (value = "blank")
           /\ x2 = (value = "unportable")
    OBVIOUS
  <1>2. PICK c1, c2 :
           /\ c1 = <<x1, missing>>
           /\ c2 = <<x2, invalid>>
    OBVIOUS
  <1>3. /\ c1[2] = missing /\ (c1[1] <=> x1)
        /\ c2[2] = invalid /\ (c2[1] <=> x2)
    BY <1>2
  <1>4. c1[2] # "ok" /\ c2[2] # "ok"
    BY <1>3
  <1>5. PICK checks : checks = <<c1, c2>>
    OBVIOUS
  <1>6. /\ IsListOfChecks(checks)
        /\ FirstFault(checks) =
             IF c1[1] THEN c1[2] ELSE
             IF c2[1] THEN c2[2] ELSE "ok"
    BY <1>4, <1>5, ListOfTwo, Zenon
  <1>7. IdChecks(value, missing, invalid) = checks
    BY <1>1, <1>2, <1>5, Zenon DEF IdChecks
  <1>8. /\ x1 <=> (value = "blank")
        /\ x2 <=> (value = "unportable")
    BY <1>1
  <1>9. FirstFault(checks) =
             IF value = "blank" THEN missing ELSE
             IF value = "unportable" THEN invalid ELSE "ok"
    BY <1>3, <1>6, <1>8
  <1>10. ASSUME NEW code
         PROVE  Breaks(checks, code) <=> (c1[1] /\ c1[2] = code) \/ (c2[1] /\ c2[2] = code)
    BY <1>5, TwoRules, Zenon
  <1>11. \A code : Breaks(checks, code) <=>
             \/ code = missing /\ value = "blank"
             \/ code = invalid /\ value = "unportable"
    BY <1>3, <1>8, <1>10
  <1> QED BY <1>6, <1>7, <1>9, <1>11, Zenon

LEMMA HeaderIsChecked ==
  ASSUME NEW lsn
  PROVE  /\ IsListOfChecks(HeaderChecks(lsn))
         /\ FirstFault(HeaderChecks(lsn)) =
              IF VersionFails(lsn.schema_version) THEN "UnsupportedSchema" ELSE
              IF lsn.schema = "v2" THEN "UnexpectedSchemaLink" ELSE "ok"
         /\ \A code : Breaks(HeaderChecks(lsn), code) <=>
              \/ code = "UnsupportedSchema" /\ VersionFails(lsn.schema_version)
              \/ code = "UnexpectedSchemaLink" /\ lsn.schema = "v2"
  <1>1. PICK x1, x2 \in BOOLEAN :
           /\ x1 = (VersionFails(lsn.schema_version))
           /\ x2 = (lsn.schema = "v2")
    <2>1. VersionFails(lsn.schema_version) \in BOOLEAN
      BY DEF VersionFails
    <2> QED BY <2>1
  <1>2. PICK c1, c2 :
           /\ c1 = <<x1, "UnsupportedSchema">>
           /\ c2 = <<x2, "UnexpectedSchemaLink">>
    OBVIOUS
  <1>3. /\ c1[2] = "UnsupportedSchema" /\ (c1[1] <=> x1)
        /\ c2[2] = "UnexpectedSchemaLink" /\ (c2[1] <=> x2)
    BY <1>2
  <1>4. c1[2] # "ok" /\ c2[2] # "ok"
    BY <1>3
  <1>5. PICK checks : checks = <<c1, c2>>
    OBVIOUS
  <1>6. /\ IsListOfChecks(checks)
        /\ FirstFault(checks) =
             IF c1[1] THEN c1[2] ELSE
             IF c2[1] THEN c2[2] ELSE "ok"
    BY <1>4, <1>5, ListOfTwo, Zenon
  <1>7. HeaderChecks(lsn) = checks
    BY <1>1, <1>2, <1>5, Zenon DEF HeaderChecks
  <1>8. /\ x1 <=> (VersionFails(lsn.schema_version))
        /\ x2 <=> (lsn.schema = "v2")
    BY <1>1
  <1>9. FirstFault(checks) =
             IF VersionFails(lsn.schema_version) THEN "UnsupportedSchema" ELSE
             IF lsn.schema = "v2" THEN "UnexpectedSchemaLink" ELSE "ok"
    BY <1>3, <1>6, <1>8
  <1>10. ASSUME NEW code
         PROVE  Breaks(checks, code) <=> (c1[1] /\ c1[2] = code) \/ (c2[1] /\ c2[2] = code)
    BY <1>5, TwoRules, Zenon
  <1>11. \A code : Breaks(checks, code) <=>
             \/ code = "UnsupportedSchema" /\ VersionFails(lsn.schema_version)
             \/ code = "UnexpectedSchemaLink" /\ lsn.schema = "v2"
    BY <1>3, <1>8, <1>10
  <1> QED BY <1>6, <1>7, <1>9, <1>11, Zenon

LEMMA LanguageIsChecked ==
  ASSUME NEW lsn
  PROVE  /\ IsListOfChecks(LanguageChecks(lsn))
         /\ FirstFault(LanguageChecks(lsn)) =
              IF lsn.language = "malformed" THEN "MalformedLanguage" ELSE "ok"
         /\ \A code : Breaks(LanguageChecks(lsn), code) <=>
              \/ code = "MalformedLanguage" /\ lsn.language = "malformed"
  <1>1. PICK x1 \in BOOLEAN :
           /\ x1 = (lsn.language = "malformed")
    OBVIOUS
  <1>2. PICK c1 :
           /\ c1 = <<x1, "MalformedLanguage">>
    OBVIOUS
  <1>3. /\ c1[2] = "MalformedLanguage" /\ (c1[1] <=> x1)
    BY <1>2
  <1>4. c1[2] # "ok"
    BY <1>3
  <1>5. PICK checks : checks = <<c1>>
    OBVIOUS
  <1>6. /\ IsListOfChecks(checks)
        /\ FirstFault(checks) =
             IF c1[1] THEN c1[2] ELSE "ok"
    BY <1>4, <1>5, ListOfACheck, Zenon
  <1>7. LanguageChecks(lsn) = checks
    BY <1>1, <1>2, <1>5, Zenon DEF LanguageChecks
  <1>8. /\ x1 <=> (lsn.language = "malformed")
    BY <1>1
  <1>9. FirstFault(checks) =
             IF lsn.language = "malformed" THEN "MalformedLanguage" ELSE "ok"
    BY <1>3, <1>6, <1>8
  <1>10. ASSUME NEW code
         PROVE  Breaks(checks, code) <=> (c1[1] /\ c1[2] = code)
    BY <1>5, OneRule, Zenon
  <1>11. \A code : Breaks(checks, code) <=>
             \/ code = "MalformedLanguage" /\ lsn.language = "malformed"
    BY <1>3, <1>8, <1>10
  <1> QED BY <1>6, <1>7, <1>9, <1>11, Zenon

LEMMA ProvenanceIsChecked ==
  ASSUME NEW lsn
  PROVE  /\ IsListOfChecks(ProvenanceChecks(lsn))
         /\ FirstFault(ProvenanceChecks(lsn)) =
              IF lsn.learning_objectives = "many" THEN "TooManyLearningObjectives" ELSE
              IF lsn.learning_objectives = "blank" THEN "EmptyLearningObjective" ELSE
              IF lsn.learning_objectives = "long" THEN "LearningObjectiveTooLong" ELSE
              IF lsn.content_hash # "no_source" /\ lsn.references = "many" THEN "TooManyLessonReferences" ELSE
              IF lsn.content_hash # "no_source" /\ lsn.references = "blank" THEN "EmptyLessonReference" ELSE
              IF lsn.content_hash # "no_source" /\ lsn.references = "long" THEN "LessonReferenceTooLong" ELSE "ok"
         /\ \A code : Breaks(ProvenanceChecks(lsn), code) <=>
              \/ code = "TooManyLearningObjectives" /\ lsn.learning_objectives = "many"
              \/ code = "EmptyLearningObjective" /\ lsn.learning_objectives = "blank"
              \/ code = "LearningObjectiveTooLong" /\ lsn.learning_objectives = "long"
              \/ code = "TooManyLessonReferences" /\ lsn.content_hash # "no_source" /\ lsn.references = "many"
              \/ code = "EmptyLessonReference" /\ lsn.content_hash # "no_source" /\ lsn.references = "blank"
              \/ code = "LessonReferenceTooLong" /\ lsn.content_hash # "no_source" /\ lsn.references = "long"
  <1>1. PICK x1, x2, x3, x4, x5, x6 \in BOOLEAN :
           /\ x1 = (lsn.learning_objectives = "many")
           /\ x2 = (lsn.learning_objectives = "blank")
           /\ x3 = (lsn.learning_objectives = "long")
           /\ x4 = (lsn.content_hash # "no_source" /\ lsn.references = "many")
           /\ x5 = (lsn.content_hash # "no_source" /\ lsn.references = "blank")
           /\ x6 = (lsn.content_hash # "no_source" /\ lsn.references = "long")
    OBVIOUS
  <1>2. PICK c1, c2, c3, c4, c5, c6 :
           /\ c1 = <<x1, "TooManyLearningObjectives">>
           /\ c2 = <<x2, "EmptyLearningObjective">>
           /\ c3 = <<x3, "LearningObjectiveTooLong">>
           /\ c4 = <<x4, "TooManyLessonReferences">>
           /\ c5 = <<x5, "EmptyLessonReference">>
           /\ c6 = <<x6, "LessonReferenceTooLong">>
    OBVIOUS
  <1>3. /\ c1[2] = "TooManyLearningObjectives" /\ (c1[1] <=> x1)
        /\ c2[2] = "EmptyLearningObjective" /\ (c2[1] <=> x2)
        /\ c3[2] = "LearningObjectiveTooLong" /\ (c3[1] <=> x3)
        /\ c4[2] = "TooManyLessonReferences" /\ (c4[1] <=> x4)
        /\ c5[2] = "EmptyLessonReference" /\ (c5[1] <=> x5)
        /\ c6[2] = "LessonReferenceTooLong" /\ (c6[1] <=> x6)
    BY <1>2
  <1>4. c1[2] # "ok" /\ c2[2] # "ok" /\ c3[2] # "ok" /\ c4[2] # "ok" /\ c5[2] # "ok" /\ c6[2] # "ok"
    BY <1>3
  <1>5. PICK checks : checks = <<c1, c2, c3, c4, c5, c6>>
    OBVIOUS
  <1>6. /\ IsListOfChecks(checks)
        /\ FirstFault(checks) =
             IF c1[1] THEN c1[2] ELSE
             IF c2[1] THEN c2[2] ELSE
             IF c3[1] THEN c3[2] ELSE
             IF c4[1] THEN c4[2] ELSE
             IF c5[1] THEN c5[2] ELSE
             IF c6[1] THEN c6[2] ELSE "ok"
    BY <1>4, <1>5, ListOfSix, Zenon
  <1>7. ProvenanceChecks(lsn) = checks
    BY <1>1, <1>2, <1>5, Zenon DEF ProvenanceChecks
  <1>8. /\ x1 <=> (lsn.learning_objectives = "many")
        /\ x2 <=> (lsn.learning_objectives = "blank")
        /\ x3 <=> (lsn.learning_objectives = "long")
        /\ x4 <=> (lsn.content_hash # "no_source" /\ lsn.references = "many")
        /\ x5 <=> (lsn.content_hash # "no_source" /\ lsn.references = "blank")
        /\ x6 <=> (lsn.content_hash # "no_source" /\ lsn.references = "long")
    BY <1>1
  <1>9. FirstFault(checks) =
             IF lsn.learning_objectives = "many" THEN "TooManyLearningObjectives" ELSE
             IF lsn.learning_objectives = "blank" THEN "EmptyLearningObjective" ELSE
             IF lsn.learning_objectives = "long" THEN "LearningObjectiveTooLong" ELSE
             IF lsn.content_hash # "no_source" /\ lsn.references = "many" THEN "TooManyLessonReferences" ELSE
             IF lsn.content_hash # "no_source" /\ lsn.references = "blank" THEN "EmptyLessonReference" ELSE
             IF lsn.content_hash # "no_source" /\ lsn.references = "long" THEN "LessonReferenceTooLong" ELSE "ok"
    BY <1>3, <1>6, <1>8
  <1>10. ASSUME NEW code
         PROVE  Breaks(checks, code) <=> \/ c1[1] /\ c1[2] = code
                                         \/ c2[1] /\ c2[2] = code
                                         \/ c3[1] /\ c3[2] = code
                                         \/ c4[1] /\ c4[2] = code
                                         \/ c5[1] /\ c5[2] = code
                                         \/ c6[1] /\ c6[2] = code
    BY <1>5, SixRules
  <1>11. \A code : Breaks(checks, code) <=>
             \/ code = "TooManyLearningObjectives" /\ lsn.learning_objectives = "many"
             \/ code = "EmptyLearningObjective" /\ lsn.learning_objectives = "blank"
             \/ code = "LearningObjectiveTooLong" /\ lsn.learning_objectives = "long"
             \/ code = "TooManyLessonReferences" /\ lsn.content_hash # "no_source" /\ lsn.references = "many"
             \/ code = "EmptyLessonReference" /\ lsn.content_hash # "no_source" /\ lsn.references = "blank"
             \/ code = "LessonReferenceTooLong" /\ lsn.content_hash # "no_source" /\ lsn.references = "long"
    BY <1>3, <1>8, <1>10
  <1> QED BY <1>6, <1>7, <1>9, <1>11, Zenon

LEMMA BoundsAreChecked ==
  ASSUME NEW lsn, Len(lsn.segments) \in Nat
  PROVE  /\ IsListOfChecks(BoundChecks(lsn))
         /\ FirstFault(BoundChecks(lsn)) =
              IF lsn.segments = <<>> THEN "MissingSegments" ELSE
              IF Len(lsn.segments) > LessonSegments THEN "TooManySegments" ELSE
              IF lsn.speakers = "blank_voice" THEN "MissingVoiceProfile" ELSE
              IF lsn.speakers = "unportable_voice" THEN "InvalidVoiceProfile" ELSE "ok"
         /\ \A code : Breaks(BoundChecks(lsn), code) <=>
              \/ code = "MissingSegments" /\ lsn.segments = <<>>
              \/ code = "TooManySegments" /\ Len(lsn.segments) > LessonSegments
              \/ code = "MissingVoiceProfile" /\ lsn.speakers = "blank_voice"
              \/ code = "InvalidVoiceProfile" /\ lsn.speakers = "unportable_voice"
  <1>1. PICK x1, x2, x3, x4 \in BOOLEAN :
           /\ x1 = (lsn.segments = <<>>)
           /\ x2 = (Len(lsn.segments) > LessonSegments)
           /\ x3 = (lsn.speakers = "blank_voice")
           /\ x4 = (lsn.speakers = "unportable_voice")
    <2>1. (Len(lsn.segments) > LessonSegments) \in BOOLEAN
      BY LessonAssumption
    <2> QED BY <2>1
  <1>2. PICK c1, c2, c3, c4 :
           /\ c1 = <<x1, "MissingSegments">>
           /\ c2 = <<x2, "TooManySegments">>
           /\ c3 = <<x3, "MissingVoiceProfile">>
           /\ c4 = <<x4, "InvalidVoiceProfile">>
    OBVIOUS
  <1>3. /\ c1[2] = "MissingSegments" /\ (c1[1] <=> x1)
        /\ c2[2] = "TooManySegments" /\ (c2[1] <=> x2)
        /\ c3[2] = "MissingVoiceProfile" /\ (c3[1] <=> x3)
        /\ c4[2] = "InvalidVoiceProfile" /\ (c4[1] <=> x4)
    BY <1>2
  <1>4. c1[2] # "ok" /\ c2[2] # "ok" /\ c3[2] # "ok" /\ c4[2] # "ok"
    BY <1>3
  <1>5. PICK checks : checks = <<c1, c2, c3, c4>>
    OBVIOUS
  <1>6. /\ IsListOfChecks(checks)
        /\ FirstFault(checks) =
             IF c1[1] THEN c1[2] ELSE
             IF c2[1] THEN c2[2] ELSE
             IF c3[1] THEN c3[2] ELSE
             IF c4[1] THEN c4[2] ELSE "ok"
    BY <1>4, <1>5, ListOfFour, Zenon
  <1>7. BoundChecks(lsn) = checks
    BY <1>1, <1>2, <1>5, Zenon DEF BoundChecks
  <1>8. /\ x1 <=> (lsn.segments = <<>>)
        /\ x2 <=> (Len(lsn.segments) > LessonSegments)
        /\ x3 <=> (lsn.speakers = "blank_voice")
        /\ x4 <=> (lsn.speakers = "unportable_voice")
    BY <1>1
  <1>9. FirstFault(checks) =
             IF lsn.segments = <<>> THEN "MissingSegments" ELSE
             IF Len(lsn.segments) > LessonSegments THEN "TooManySegments" ELSE
             IF lsn.speakers = "blank_voice" THEN "MissingVoiceProfile" ELSE
             IF lsn.speakers = "unportable_voice" THEN "InvalidVoiceProfile" ELSE "ok"
    BY <1>3, <1>6, <1>8
  <1>10. ASSUME NEW code
         PROVE  Breaks(checks, code) <=> \/ c1[1] /\ c1[2] = code
                                         \/ c2[1] /\ c2[2] = code
                                         \/ c3[1] /\ c3[2] = code
                                         \/ c4[1] /\ c4[2] = code
    BY <1>5, FourRules
  <1>11. \A code : Breaks(checks, code) <=>
             \/ code = "MissingSegments" /\ lsn.segments = <<>>
             \/ code = "TooManySegments" /\ Len(lsn.segments) > LessonSegments
             \/ code = "MissingVoiceProfile" /\ lsn.speakers = "blank_voice"
             \/ code = "InvalidVoiceProfile" /\ lsn.speakers = "unportable_voice"
    BY <1>3, <1>8, <1>10
  <1> QED BY <1>6, <1>7, <1>9, <1>11, Zenon

LEMMA UniquenessIsChecked ==
  ASSUME NEW segment, NEW seen
  PROVE  /\ IsListOfChecks(UniqueChecks(segment, seen))
         /\ FirstFault(UniqueChecks(segment, seen)) =
              IF segment.id \in seen THEN "DuplicateSegmentId" ELSE "ok"
         /\ \A code : Breaks(UniqueChecks(segment, seen), code) <=>
              \/ code = "DuplicateSegmentId" /\ segment.id \in seen
  <1>1. PICK x1 \in BOOLEAN :
           /\ x1 = (segment.id \in seen)
    <2>1. (segment.id \in seen) \in BOOLEAN
      OBVIOUS
    <2> QED BY <2>1, Zenon
  <1>2. PICK c1 :
           /\ c1 = <<x1, "DuplicateSegmentId">>
    OBVIOUS
  <1>3. /\ c1[2] = "DuplicateSegmentId" /\ (c1[1] <=> x1)
    BY <1>2
  <1>4. c1[2] # "ok"
    BY <1>3
  <1>5. PICK checks : checks = <<c1>>
    OBVIOUS
  <1>6. /\ IsListOfChecks(checks)
        /\ FirstFault(checks) =
             IF c1[1] THEN c1[2] ELSE "ok"
    BY <1>4, <1>5, ListOfACheck, Zenon
  <1>7. UniqueChecks(segment, seen) = checks
    BY <1>1, <1>2, <1>5, Zenon DEF UniqueChecks
  <1>8. /\ x1 <=> (segment.id \in seen)
    BY <1>1
  <1>9. FirstFault(checks) =
             IF segment.id \in seen THEN "DuplicateSegmentId" ELSE "ok"
    BY <1>3, <1>6, <1>8
  <1>10. ASSUME NEW code
         PROVE  Breaks(checks, code) <=> (c1[1] /\ c1[2] = code)
    BY <1>5, OneRule, Zenon
  <1>11. \A code : Breaks(checks, code) <=>
             \/ code = "DuplicateSegmentId" /\ segment.id \in seen
    BY <1>3, <1>8, <1>10
  <1> QED BY <1>6, <1>7, <1>9, <1>11, Zenon

LEMMA TextsAreChecked ==
  ASSUME NEW segment
  PROVE  /\ IsListOfChecks(TextChecks(segment))
         /\ FirstFault(TextChecks(segment)) =
              IF segment.spoken_text = "blank" THEN "MissingSpokenText" ELSE
              IF segment.spoken_text = "long" THEN "SpokenTextTooLong" ELSE
              IF segment.display_text = "blank" THEN "MissingDisplayText" ELSE
              IF segment.display_text = "long" THEN "DisplayTextTooLong" ELSE "ok"
         /\ \A code : Breaks(TextChecks(segment), code) <=>
              \/ code = "MissingSpokenText" /\ segment.spoken_text = "blank"
              \/ code = "SpokenTextTooLong" /\ segment.spoken_text = "long"
              \/ code = "MissingDisplayText" /\ segment.display_text = "blank"
              \/ code = "DisplayTextTooLong" /\ segment.display_text = "long"
  <1>1. PICK x1, x2, x3, x4 \in BOOLEAN :
           /\ x1 = (segment.spoken_text = "blank")
           /\ x2 = (segment.spoken_text = "long")
           /\ x3 = (segment.display_text = "blank")
           /\ x4 = (segment.display_text = "long")
    OBVIOUS
  <1>2. PICK c1, c2, c3, c4 :
           /\ c1 = <<x1, "MissingSpokenText">>
           /\ c2 = <<x2, "SpokenTextTooLong">>
           /\ c3 = <<x3, "MissingDisplayText">>
           /\ c4 = <<x4, "DisplayTextTooLong">>
    OBVIOUS
  <1>3. /\ c1[2] = "MissingSpokenText" /\ (c1[1] <=> x1)
        /\ c2[2] = "SpokenTextTooLong" /\ (c2[1] <=> x2)
        /\ c3[2] = "MissingDisplayText" /\ (c3[1] <=> x3)
        /\ c4[2] = "DisplayTextTooLong" /\ (c4[1] <=> x4)
    BY <1>2
  <1>4. c1[2] # "ok" /\ c2[2] # "ok" /\ c3[2] # "ok" /\ c4[2] # "ok"
    BY <1>3
  <1>5. PICK checks : checks = <<c1, c2, c3, c4>>
    OBVIOUS
  <1>6. /\ IsListOfChecks(checks)
        /\ FirstFault(checks) =
             IF c1[1] THEN c1[2] ELSE
             IF c2[1] THEN c2[2] ELSE
             IF c3[1] THEN c3[2] ELSE
             IF c4[1] THEN c4[2] ELSE "ok"
    BY <1>4, <1>5, ListOfFour, Zenon
  <1>7. TextChecks(segment) = checks
    BY <1>1, <1>2, <1>5, Zenon DEF TextChecks
  <1>8. /\ x1 <=> (segment.spoken_text = "blank")
        /\ x2 <=> (segment.spoken_text = "long")
        /\ x3 <=> (segment.display_text = "blank")
        /\ x4 <=> (segment.display_text = "long")
    BY <1>1
  <1>9. FirstFault(checks) =
             IF segment.spoken_text = "blank" THEN "MissingSpokenText" ELSE
             IF segment.spoken_text = "long" THEN "SpokenTextTooLong" ELSE
             IF segment.display_text = "blank" THEN "MissingDisplayText" ELSE
             IF segment.display_text = "long" THEN "DisplayTextTooLong" ELSE "ok"
    BY <1>3, <1>6, <1>8
  <1>10. ASSUME NEW code
         PROVE  Breaks(checks, code) <=> \/ c1[1] /\ c1[2] = code
                                         \/ c2[1] /\ c2[2] = code
                                         \/ c3[1] /\ c3[2] = code
                                         \/ c4[1] /\ c4[2] = code
    BY <1>5, FourRules
  <1>11. \A code : Breaks(checks, code) <=>
             \/ code = "MissingSpokenText" /\ segment.spoken_text = "blank"
             \/ code = "SpokenTextTooLong" /\ segment.spoken_text = "long"
             \/ code = "MissingDisplayText" /\ segment.display_text = "blank"
             \/ code = "DisplayTextTooLong" /\ segment.display_text = "long"
    BY <1>3, <1>8, <1>10
  <1> QED BY <1>6, <1>7, <1>9, <1>11, Zenon

LEMMA SourcesAreChecked ==
  ASSUME NEW segment
  PROVE  /\ IsListOfChecks(SourceChecks(segment))
         /\ FirstFault(SourceChecks(segment)) =
              IF segment.source_refs = "none" /\ segment.editorial = "false" THEN "MissingSourceRefs" ELSE
              IF segment.source_refs = "many" THEN "TooManySourceRefs" ELSE
              IF segment.source_refs = "blank" THEN "EmptySourceRef" ELSE
              IF segment.source_refs = "long" THEN "SourceRefTooLong" ELSE "ok"
         /\ \A code : Breaks(SourceChecks(segment), code) <=>
              \/ code = "MissingSourceRefs" /\ segment.source_refs = "none" /\ segment.editorial = "false"
              \/ code = "TooManySourceRefs" /\ segment.source_refs = "many"
              \/ code = "EmptySourceRef" /\ segment.source_refs = "blank"
              \/ code = "SourceRefTooLong" /\ segment.source_refs = "long"
  <1>1. PICK x1, x2, x3, x4 \in BOOLEAN :
           /\ x1 = (segment.source_refs = "none" /\ segment.editorial = "false")
           /\ x2 = (segment.source_refs = "many")
           /\ x3 = (segment.source_refs = "blank")
           /\ x4 = (segment.source_refs = "long")
    OBVIOUS
  <1>2. PICK c1, c2, c3, c4 :
           /\ c1 = <<x1, "MissingSourceRefs">>
           /\ c2 = <<x2, "TooManySourceRefs">>
           /\ c3 = <<x3, "EmptySourceRef">>
           /\ c4 = <<x4, "SourceRefTooLong">>
    OBVIOUS
  <1>3. /\ c1[2] = "MissingSourceRefs" /\ (c1[1] <=> x1)
        /\ c2[2] = "TooManySourceRefs" /\ (c2[1] <=> x2)
        /\ c3[2] = "EmptySourceRef" /\ (c3[1] <=> x3)
        /\ c4[2] = "SourceRefTooLong" /\ (c4[1] <=> x4)
    BY <1>2
  <1>4. c1[2] # "ok" /\ c2[2] # "ok" /\ c3[2] # "ok" /\ c4[2] # "ok"
    BY <1>3
  <1>5. PICK checks : checks = <<c1, c2, c3, c4>>
    OBVIOUS
  <1>6. /\ IsListOfChecks(checks)
        /\ FirstFault(checks) =
             IF c1[1] THEN c1[2] ELSE
             IF c2[1] THEN c2[2] ELSE
             IF c3[1] THEN c3[2] ELSE
             IF c4[1] THEN c4[2] ELSE "ok"
    BY <1>4, <1>5, ListOfFour, Zenon
  <1>7. SourceChecks(segment) = checks
    BY <1>1, <1>2, <1>5, Zenon DEF SourceChecks
  <1>8. /\ x1 <=> (segment.source_refs = "none" /\ segment.editorial = "false")
        /\ x2 <=> (segment.source_refs = "many")
        /\ x3 <=> (segment.source_refs = "blank")
        /\ x4 <=> (segment.source_refs = "long")
    BY <1>1
  <1>9. FirstFault(checks) =
             IF segment.source_refs = "none" /\ segment.editorial = "false" THEN "MissingSourceRefs" ELSE
             IF segment.source_refs = "many" THEN "TooManySourceRefs" ELSE
             IF segment.source_refs = "blank" THEN "EmptySourceRef" ELSE
             IF segment.source_refs = "long" THEN "SourceRefTooLong" ELSE "ok"
    BY <1>3, <1>6, <1>8
  <1>10. ASSUME NEW code
         PROVE  Breaks(checks, code) <=> \/ c1[1] /\ c1[2] = code
                                         \/ c2[1] /\ c2[2] = code
                                         \/ c3[1] /\ c3[2] = code
                                         \/ c4[1] /\ c4[2] = code
    BY <1>5, FourRules
  <1>11. \A code : Breaks(checks, code) <=>
             \/ code = "MissingSourceRefs" /\ segment.source_refs = "none" /\ segment.editorial = "false"
             \/ code = "TooManySourceRefs" /\ segment.source_refs = "many"
             \/ code = "EmptySourceRef" /\ segment.source_refs = "blank"
             \/ code = "SourceRefTooLong" /\ segment.source_refs = "long"
    BY <1>3, <1>8, <1>10
  <1> QED BY <1>6, <1>7, <1>9, <1>11, Zenon

LEMMA DeliveryIsChecked ==
  ASSUME NEW lsn, NEW segment
  PROVE  /\ IsListOfChecks(DeliveryChecks(lsn, segment))
         /\ FirstFault(DeliveryChecks(lsn, segment)) =
              IF segment.review_status # "approved" THEN "UnapprovedSegment" ELSE
              IF segment.speaker = "blank" THEN "MissingSpeaker" ELSE
              IF ~Declares(lsn, segment.speaker) THEN "UndeclaredSpeaker" ELSE
              IF segment.pause_after_ms = "excessive" THEN "PauseOutOfRange" ELSE "ok"
         /\ \A code : Breaks(DeliveryChecks(lsn, segment), code) <=>
              \/ code = "UnapprovedSegment" /\ segment.review_status # "approved"
              \/ code = "MissingSpeaker" /\ segment.speaker = "blank"
              \/ code = "UndeclaredSpeaker" /\ ~Declares(lsn, segment.speaker)
              \/ code = "PauseOutOfRange" /\ segment.pause_after_ms = "excessive"
  <1>1. PICK x1, x2, x3, x4 \in BOOLEAN :
           /\ x1 = (segment.review_status # "approved")
           /\ x2 = (segment.speaker = "blank")
           /\ x3 = (~Declares(lsn, segment.speaker))
           /\ x4 = (segment.pause_after_ms = "excessive")
    <2>1. Declares(lsn, segment.speaker) \in BOOLEAN
      BY DEF Declares
    <2> QED BY <2>1
  <1>2. PICK c1, c2, c3, c4 :
           /\ c1 = <<x1, "UnapprovedSegment">>
           /\ c2 = <<x2, "MissingSpeaker">>
           /\ c3 = <<x3, "UndeclaredSpeaker">>
           /\ c4 = <<x4, "PauseOutOfRange">>
    OBVIOUS
  <1>3. /\ c1[2] = "UnapprovedSegment" /\ (c1[1] <=> x1)
        /\ c2[2] = "MissingSpeaker" /\ (c2[1] <=> x2)
        /\ c3[2] = "UndeclaredSpeaker" /\ (c3[1] <=> x3)
        /\ c4[2] = "PauseOutOfRange" /\ (c4[1] <=> x4)
    BY <1>2
  <1>4. c1[2] # "ok" /\ c2[2] # "ok" /\ c3[2] # "ok" /\ c4[2] # "ok"
    BY <1>3
  <1>5. PICK checks : checks = <<c1, c2, c3, c4>>
    OBVIOUS
  <1>6. /\ IsListOfChecks(checks)
        /\ FirstFault(checks) =
             IF c1[1] THEN c1[2] ELSE
             IF c2[1] THEN c2[2] ELSE
             IF c3[1] THEN c3[2] ELSE
             IF c4[1] THEN c4[2] ELSE "ok"
    BY <1>4, <1>5, ListOfFour, Zenon
  <1>7. DeliveryChecks(lsn, segment) = checks
    BY <1>1, <1>2, <1>5, Zenon DEF DeliveryChecks
  <1>8. /\ x1 <=> (segment.review_status # "approved")
        /\ x2 <=> (segment.speaker = "blank")
        /\ x3 <=> (~Declares(lsn, segment.speaker))
        /\ x4 <=> (segment.pause_after_ms = "excessive")
    BY <1>1
  <1>9. FirstFault(checks) =
             IF segment.review_status # "approved" THEN "UnapprovedSegment" ELSE
             IF segment.speaker = "blank" THEN "MissingSpeaker" ELSE
             IF ~Declares(lsn, segment.speaker) THEN "UndeclaredSpeaker" ELSE
             IF segment.pause_after_ms = "excessive" THEN "PauseOutOfRange" ELSE "ok"
    BY <1>3, <1>6, <1>8
  <1>10. ASSUME NEW code
         PROVE  Breaks(checks, code) <=> \/ c1[1] /\ c1[2] = code
                                         \/ c2[1] /\ c2[2] = code
                                         \/ c3[1] /\ c3[2] = code
                                         \/ c4[1] /\ c4[2] = code
    BY <1>5, FourRules
  <1>11. \A code : Breaks(checks, code) <=>
             \/ code = "UnapprovedSegment" /\ segment.review_status # "approved"
             \/ code = "MissingSpeaker" /\ segment.speaker = "blank"
             \/ code = "UndeclaredSpeaker" /\ ~Declares(lsn, segment.speaker)
             \/ code = "PauseOutOfRange" /\ segment.pause_after_ms = "excessive"
    BY <1>3, <1>8, <1>10
  <1> QED BY <1>6, <1>7, <1>9, <1>11, Zenon

LEMMA RecallIsChecked ==
  ASSUME NEW segment
  PROVE  /\ IsListOfChecks(RecallChecks(segment))
         /\ FirstFault(RecallChecks(segment)) =
              IF segment.role = "recall_prompt" /\ segment.pause_after_ms = "short" THEN "RecallPromptWithoutResponseInterval" ELSE
              IF segment.role = "recall_prompt" /\ segment.pause_after_ms = "long" THEN "RecallPromptResponseIntervalTooLong" ELSE "ok"
         /\ \A code : Breaks(RecallChecks(segment), code) <=>
              \/ code = "RecallPromptWithoutResponseInterval" /\ segment.role = "recall_prompt" /\ segment.pause_after_ms = "short"
              \/ code = "RecallPromptResponseIntervalTooLong" /\ segment.role = "recall_prompt" /\ segment.pause_after_ms = "long"
  <1>1. PICK x1, x2 \in BOOLEAN :
           /\ x1 = (segment.role = "recall_prompt" /\ segment.pause_after_ms = "short")
           /\ x2 = (segment.role = "recall_prompt" /\ segment.pause_after_ms = "long")
    OBVIOUS
  <1>2. PICK c1, c2 :
           /\ c1 = <<x1, "RecallPromptWithoutResponseInterval">>
           /\ c2 = <<x2, "RecallPromptResponseIntervalTooLong">>
    OBVIOUS
  <1>3. /\ c1[2] = "RecallPromptWithoutResponseInterval" /\ (c1[1] <=> x1)
        /\ c2[2] = "RecallPromptResponseIntervalTooLong" /\ (c2[1] <=> x2)
    BY <1>2
  <1>4. c1[2] # "ok" /\ c2[2] # "ok"
    BY <1>3
  <1>5. PICK checks : checks = <<c1, c2>>
    OBVIOUS
  <1>6. /\ IsListOfChecks(checks)
        /\ FirstFault(checks) =
             IF c1[1] THEN c1[2] ELSE
             IF c2[1] THEN c2[2] ELSE "ok"
    BY <1>4, <1>5, ListOfTwo, Zenon
  <1>7. RecallChecks(segment) = checks
    BY <1>1, <1>2, <1>5, Zenon DEF RecallChecks
  <1>8. /\ x1 <=> (segment.role = "recall_prompt" /\ segment.pause_after_ms = "short")
        /\ x2 <=> (segment.role = "recall_prompt" /\ segment.pause_after_ms = "long")
    BY <1>1
  <1>9. FirstFault(checks) =
             IF segment.role = "recall_prompt" /\ segment.pause_after_ms = "short" THEN "RecallPromptWithoutResponseInterval" ELSE
             IF segment.role = "recall_prompt" /\ segment.pause_after_ms = "long" THEN "RecallPromptResponseIntervalTooLong" ELSE "ok"
    BY <1>3, <1>6, <1>8
  <1>10. ASSUME NEW code
         PROVE  Breaks(checks, code) <=> (c1[1] /\ c1[2] = code) \/ (c2[1] /\ c2[2] = code)
    BY <1>5, TwoRules, Zenon
  <1>11. \A code : Breaks(checks, code) <=>
             \/ code = "RecallPromptWithoutResponseInterval" /\ segment.role = "recall_prompt" /\ segment.pause_after_ms = "short"
             \/ code = "RecallPromptResponseIntervalTooLong" /\ segment.role = "recall_prompt" /\ segment.pause_after_ms = "long"
    BY <1>3, <1>8, <1>10
  <1> QED BY <1>6, <1>7, <1>9, <1>11, Zenon

\* What check_document accepts, and what is wrong where it refuses.
DocumentIsInBounds(l) ==
  /\ ~VersionFails(l.schema_version) /\ l.schema # "v2" /\ l.lesson_id \notin {"blank", "unportable"}
  /\ l.language # "malformed" /\ l.learning_objectives \notin {"many", "blank", "long"}
  /\ l.content_hash # "no_source" => l.references \notin {"many", "blank", "long"}
  /\ l.segments # <<>> /\ ~(Len(l.segments) > LessonSegments)
  /\ l.speakers \notin {"blank_voice", "unportable_voice"}

\* The rules of check_document that a lesson breaks.
DocumentBreaks(l, code) ==
  \/ code = "UnsupportedSchema" /\ VersionFails(l.schema_version)
  \/ code = "UnexpectedSchemaLink" /\ l.schema = "v2"
  \/ code = "MissingLessonId" /\ l.lesson_id = "blank"
  \/ code = "InvalidLessonId" /\ l.lesson_id = "unportable"
  \/ code = "MalformedLanguage" /\ l.language = "malformed"
  \/ code = "TooManyLearningObjectives" /\ l.learning_objectives = "many"
  \/ code = "EmptyLearningObjective" /\ l.learning_objectives = "blank"
  \/ code = "LearningObjectiveTooLong" /\ l.learning_objectives = "long"
  \/ code = "TooManyLessonReferences" /\ l.content_hash # "no_source" /\ l.references = "many"
  \/ code = "EmptyLessonReference" /\ l.content_hash # "no_source" /\ l.references = "blank"
  \/ code = "LessonReferenceTooLong" /\ l.content_hash # "no_source" /\ l.references = "long"
  \/ code = "MissingSegments" /\ l.segments = <<>>
  \/ code = "TooManySegments" /\ Len(l.segments) > LessonSegments
  \/ code = "MissingVoiceProfile" /\ l.speakers = "blank_voice"
  \/ code = "InvalidVoiceProfile" /\ l.speakers = "unportable_voice"

LEMMA FieldsOfDocuments ==
  /\ FieldOf("LessonJsonTooLarge") = NoField
  /\ FieldOf("UnsupportedSchema") = "schema_version" /\ FieldOf("UnexpectedSchemaLink") = "schema"
  /\ FieldOf("MissingLessonId") = "lesson_id" /\ FieldOf("InvalidLessonId") = "lesson_id"
  /\ FieldOf("MalformedLanguage") = "language"
  /\ FieldOf("TooManyLearningObjectives") = "learning_objectives"
  /\ FieldOf("EmptyLearningObjective") = "learning_objectives"
  /\ FieldOf("LearningObjectiveTooLong") = "learning_objectives"
  /\ FieldOf("TooManyLessonReferences") = "references" /\ FieldOf("EmptyLessonReference") = "references"
  /\ FieldOf("LessonReferenceTooLong") = "references"
  /\ FieldOf("MissingSegments") = "segments" /\ FieldOf("TooManySegments") = "segments"
  /\ FieldOf("MissingVoiceProfile") = "speakers" /\ FieldOf("InvalidVoiceProfile") = "speakers"
  /\ FieldOf("DuplicateSpeaker") = "speakers"
  BY DEF FieldOf

LEMMA FieldsOfSegments ==
  /\ FieldOf("MissingSegmentId") = "id" /\ FieldOf("InvalidSegmentId") = "id" /\ FieldOf("DuplicateSegmentId") = "id"
  /\ FieldOf("MissingSpokenText") = "spoken_text" /\ FieldOf("SpokenTextTooLong") = "spoken_text"
  /\ FieldOf("MissingDisplayText") = "display_text" /\ FieldOf("DisplayTextTooLong") = "display_text"
  /\ FieldOf("MissingSourceRefs") = "source_refs" /\ FieldOf("TooManySourceRefs") = "source_refs"
  /\ FieldOf("EmptySourceRef") = "source_refs" /\ FieldOf("SourceRefTooLong") = "source_refs"
  /\ FieldOf("UnapprovedSegment") = "review_status"
  /\ FieldOf("MissingSpeaker") = "speaker" /\ FieldOf("UndeclaredSpeaker") = "speaker"
  /\ FieldOf("PauseOutOfRange") = "pause_after_ms"
  /\ FieldOf("RecallPromptWithoutResponseInterval") = "pause_after_ms"
  /\ FieldOf("RecallPromptResponseIntervalTooLong") = "pause_after_ms"
  BY DEF FieldOf

LEMMA DocumentIsChecked ==
  ASSUME NEW l, Len(l.segments) \in Nat
  PROVE  /\ IsListOfChecks(DocumentChecks(l))
         /\ FirstFault(DocumentChecks(l)) = "ok" <=> DocumentIsInBounds(l)
         /\ \A code : Breaks(DocumentChecks(l), code) <=> DocumentBreaks(l, code)
  <1>1. PICK ids : ids = IdChecks(l.lesson_id, "MissingLessonId", "InvalidLessonId")
    OBVIOUS
  <1>2. /\ IsListOfChecks(ids)
        /\ FirstFault(ids) = IF l.lesson_id = "blank" THEN "MissingLessonId" ELSE
                             IF l.lesson_id = "unportable" THEN "InvalidLessonId" ELSE "ok"
    <2>1. "MissingLessonId" # "ok" /\ "InvalidLessonId" # "ok"
      OBVIOUS
    <2>2. /\ IsListOfChecks(IdChecks(l.lesson_id, "MissingLessonId", "InvalidLessonId"))
          /\ FirstFault(IdChecks(l.lesson_id, "MissingLessonId", "InvalidLessonId")) =
               IF l.lesson_id = "blank" THEN "MissingLessonId" ELSE
               IF l.lesson_id = "unportable" THEN "InvalidLessonId" ELSE "ok"
      BY <2>1, IdsAreChecked, Zenon
    <2> QED BY <1>1, <2>2
  <1>3. PICK a, b, c, d : /\ a = HeaderChecks(l) \o ids /\ b = a \o LanguageChecks(l)
                          /\ c = b \o ProvenanceChecks(l) /\ d = c \o BoundChecks(l)
    OBVIOUS
  <1>4. DocumentChecks(l) = d
    BY <1>1, <1>3, Zenon DEF DocumentChecks
  <1>14. /\ IsListOfChecks(HeaderChecks(l)) /\ IsListOfChecks(LanguageChecks(l))
         /\ IsListOfChecks(ProvenanceChecks(l)) /\ IsListOfChecks(BoundChecks(l))
    BY HeaderIsChecked, LanguageIsChecked, ProvenanceIsChecked, BoundsAreChecked, Zenon
  <1>5. /\ IsListOfChecks(a)
        /\ FirstFault(a) = IF FirstFault(HeaderChecks(l)) = "ok" THEN FirstFault(ids) ELSE FirstFault(HeaderChecks(l))
    <2>1. a = HeaderChecks(l) \o ids
      BY <1>3
    <2> QED BY <1>2, <1>14, <2>1, RefusedBefore, Zenon
  <1>6. /\ IsListOfChecks(b)
        /\ FirstFault(b) = IF FirstFault(a) = "ok" THEN FirstFault(LanguageChecks(l)) ELSE FirstFault(a)
    <2>1. b = a \o LanguageChecks(l)
      BY <1>3
    <2> QED BY <1>5, <1>14, <2>1, RefusedBefore, Zenon
  <1>7. /\ IsListOfChecks(c)
        /\ FirstFault(c) = IF FirstFault(b) = "ok" THEN FirstFault(ProvenanceChecks(l)) ELSE FirstFault(b)
    <2>1. c = b \o ProvenanceChecks(l)
      BY <1>3
    <2> QED BY <1>6, <1>14, <2>1, RefusedBefore, Zenon
  <1>8. /\ IsListOfChecks(d)
        /\ FirstFault(d) = IF FirstFault(c) = "ok" THEN FirstFault(BoundChecks(l)) ELSE FirstFault(c)
    <2>1. d = c \o BoundChecks(l)
      BY <1>3
    <2> QED BY <1>7, <1>14, <2>1, RefusedBefore, Zenon
  <1>9. PICK h, g, p, m, code : /\ h = FirstFault(HeaderChecks(l)) /\ g = FirstFault(LanguageChecks(l))
                                /\ p = FirstFault(ProvenanceChecks(l)) /\ m = FirstFault(BoundChecks(l))
                                /\ code = FirstFault(d)
    OBVIOUS
  <1>10. code = "ok" <=> h = "ok" /\ FirstFault(ids) = "ok" /\ g = "ok" /\ p = "ok" /\ m = "ok"
    BY <1>5, <1>6, <1>7, <1>8, <1>9
  <1>11. \A x : Breaks(ids, x) <=> \/ x = "MissingLessonId" /\ l.lesson_id = "blank"
                                   \/ x = "InvalidLessonId" /\ l.lesson_id = "unportable"
    <2>1. "MissingLessonId" # "ok" /\ "InvalidLessonId" # "ok"
      OBVIOUS
    <2> QED BY <1>1, <2>1, IdsAreChecked, Zenon
  <1>12. code = "ok" <=> DocumentIsInBounds(l)
    <2>1. h = "ok" <=> ~VersionFails(l.schema_version) /\ l.schema # "v2"
      BY <1>9, HeaderIsChecked
    <2>2. FirstFault(ids) = "ok" <=> l.lesson_id \notin {"blank", "unportable"}
      BY <1>2
    <2>3. g = "ok" <=> l.language # "malformed"
      BY <1>9, LanguageIsChecked
    <2>4. p = "ok" <=> /\ l.learning_objectives \notin {"many", "blank", "long"}
                       /\ l.content_hash # "no_source" => l.references \notin {"many", "blank", "long"}
      BY <1>9, ProvenanceIsChecked
    <2>5. m = "ok" <=> /\ l.segments # <<>> /\ ~(Len(l.segments) > LessonSegments)
                       /\ l.speakers \notin {"blank_voice", "unportable_voice"}
      BY <1>9, BoundsAreChecked
    <2> QED BY <1>10, <2>1, <2>2, <2>3, <2>4, <2>5 DEF DocumentIsInBounds
  <1>13. ASSUME NEW x
         PROVE  Breaks(d, x) <=> DocumentBreaks(l, x)
    <2>1. Breaks(a, x) <=> Breaks(HeaderChecks(l), x) \/ Breaks(ids, x)
      <3>1. a = HeaderChecks(l) \o ids
        BY <1>3
      <3> QED BY <1>2, <1>14, <3>1, BrokenInBoth, Zenon
    <2>2. Breaks(b, x) <=> Breaks(a, x) \/ Breaks(LanguageChecks(l), x)
      <3>1. b = a \o LanguageChecks(l)
        BY <1>3
      <3> QED BY <1>5, <1>14, <3>1, BrokenInBoth, Zenon
    <2>3. Breaks(c, x) <=> Breaks(b, x) \/ Breaks(ProvenanceChecks(l), x)
      <3>1. c = b \o ProvenanceChecks(l)
        BY <1>3
      <3> QED BY <1>6, <1>14, <3>1, BrokenInBoth, Zenon
    <2>4. Breaks(d, x) <=> Breaks(c, x) \/ Breaks(BoundChecks(l), x)
      <3>1. d = c \o BoundChecks(l)
        BY <1>3
      <3> QED BY <1>7, <1>14, <3>1, BrokenInBoth, Zenon
    <2>5. Breaks(HeaderChecks(l), x) <=> \/ x = "UnsupportedSchema" /\ VersionFails(l.schema_version)
                                         \/ x = "UnexpectedSchemaLink" /\ l.schema = "v2"
      BY HeaderIsChecked, Zenon
    <2>6. Breaks(LanguageChecks(l), x) <=> x = "MalformedLanguage" /\ l.language = "malformed"
      BY LanguageIsChecked, Zenon
    <2>7. Breaks(ProvenanceChecks(l), x) <=>
            \/ x = "TooManyLearningObjectives" /\ l.learning_objectives = "many"
            \/ x = "EmptyLearningObjective" /\ l.learning_objectives = "blank"
            \/ x = "LearningObjectiveTooLong" /\ l.learning_objectives = "long"
            \/ x = "TooManyLessonReferences" /\ l.content_hash # "no_source" /\ l.references = "many"
            \/ x = "EmptyLessonReference" /\ l.content_hash # "no_source" /\ l.references = "blank"
            \/ x = "LessonReferenceTooLong" /\ l.content_hash # "no_source" /\ l.references = "long"
      BY ProvenanceIsChecked, Zenon
    <2>8. Breaks(BoundChecks(l), x) <=> \/ x = "MissingSegments" /\ l.segments = <<>>
                                        \/ x = "TooManySegments" /\ Len(l.segments) > LessonSegments
                                        \/ x = "MissingVoiceProfile" /\ l.speakers = "blank_voice"
                                        \/ x = "InvalidVoiceProfile" /\ l.speakers = "unportable_voice"
      BY BoundsAreChecked, Zenon
    <2> QED BY <1>11, <2>1, <2>2, <2>3, <2>4, <2>5, <2>6, <2>7, <2>8, Zenon DEF DocumentBreaks
  <1> QED BY <1>4, <1>8, <1>9, <1>12, <1>13, Zenon

\* What check_segment accepts, and what is wrong where it refuses.
IdsBefore(l, i) == {l.segments[j].id : j \in 1 .. i - 1}
SegmentIsInBounds(l, i) ==
  LET s == l.segments[i]
  IN  /\ s.id \notin {"blank", "unportable"} /\ s.id \notin IdsBefore(l, i)
      /\ s.spoken_text \notin {"blank", "long"} /\ s.display_text \notin {"blank", "long"}
      /\ ~(s.source_refs = "none" /\ s.editorial = "false") /\ s.source_refs \notin {"many", "blank", "long"}
      /\ s.review_status = "approved" /\ s.speaker # "blank" /\ Declares(l, s.speaker)
      /\ s.pause_after_ms # "excessive"
      /\ s.role = "recall_prompt" => s.pause_after_ms \notin {"short", "long"}

\* The rules of check_segment that a segment breaks.
SegmentBreaks(l, i, code) ==
  LET s == l.segments[i]
  IN  \/ code = "MissingSegmentId" /\ s.id = "blank"
      \/ code = "InvalidSegmentId" /\ s.id = "unportable"
      \/ code = "DuplicateSegmentId" /\ s.id \in IdsBefore(l, i)
      \/ code = "MissingSpokenText" /\ s.spoken_text = "blank"
      \/ code = "SpokenTextTooLong" /\ s.spoken_text = "long"
      \/ code = "MissingDisplayText" /\ s.display_text = "blank"
      \/ code = "DisplayTextTooLong" /\ s.display_text = "long"
      \/ code = "MissingSourceRefs" /\ s.source_refs = "none" /\ s.editorial = "false"
      \/ code = "TooManySourceRefs" /\ s.source_refs = "many"
      \/ code = "EmptySourceRef" /\ s.source_refs = "blank"
      \/ code = "SourceRefTooLong" /\ s.source_refs = "long"
      \/ code = "UnapprovedSegment" /\ s.review_status # "approved"
      \/ code = "MissingSpeaker" /\ s.speaker = "blank"
      \/ code = "UndeclaredSpeaker" /\ ~Declares(l, s.speaker)
      \/ code = "PauseOutOfRange" /\ s.pause_after_ms = "excessive"
      \/ code = "RecallPromptWithoutResponseInterval" /\ s.role = "recall_prompt" /\ s.pause_after_ms = "short"
      \/ code = "RecallPromptResponseIntervalTooLong" /\ s.role = "recall_prompt" /\ s.pause_after_ms = "long"

LEMMA SegmentIsChecked ==
  ASSUME NEW l, NEW i
  PROVE  /\ IsListOfChecks(SegmentChecks(l, i))
         /\ FirstFault(SegmentChecks(l, i)) = "ok" <=> SegmentIsInBounds(l, i)
         /\ \A code : Breaks(SegmentChecks(l, i), code) <=> SegmentBreaks(l, i, code)
  <1>0. PICK s : s = l.segments[i]
    OBVIOUS
  <1>1. PICK ids, seen : /\ ids = IdChecks(s.id, "MissingSegmentId", "InvalidSegmentId")
                         /\ seen = IdsBefore(l, i)
    OBVIOUS
  <1>2. /\ IsListOfChecks(ids)
        /\ FirstFault(ids) = IF s.id = "blank" THEN "MissingSegmentId" ELSE
                             IF s.id = "unportable" THEN "InvalidSegmentId" ELSE "ok"
    <2>1. "MissingSegmentId" # "ok" /\ "InvalidSegmentId" # "ok"
      OBVIOUS
    <2>2. /\ IsListOfChecks(IdChecks(s.id, "MissingSegmentId", "InvalidSegmentId"))
          /\ FirstFault(IdChecks(s.id, "MissingSegmentId", "InvalidSegmentId")) =
               IF s.id = "blank" THEN "MissingSegmentId" ELSE
               IF s.id = "unportable" THEN "InvalidSegmentId" ELSE "ok"
      BY <2>1, IdsAreChecked, Zenon
    <2>3. ids = IdChecks(s.id, "MissingSegmentId", "InvalidSegmentId")
      BY <1>1
    <2> QED BY <2>2, <2>3
  <1>3. PICK a, b, c, d, e : /\ a = ids \o UniqueChecks(s, seen) /\ b = a \o TextChecks(s)
                             /\ c = b \o SourceChecks(s) /\ d = c \o DeliveryChecks(l, s)
                             /\ e = d \o RecallChecks(s)
    OBVIOUS
  <1>4. SegmentChecks(l, i) = e
    BY <1>0, <1>1, <1>3, Zenon DEF SegmentChecks, IdsBefore
  <1>5. /\ IsListOfChecks(UniqueChecks(s, seen)) /\ IsListOfChecks(TextChecks(s))
        /\ IsListOfChecks(SourceChecks(s)) /\ IsListOfChecks(DeliveryChecks(l, s))
        /\ IsListOfChecks(RecallChecks(s))
    BY UniquenessIsChecked, TextsAreChecked, SourcesAreChecked, DeliveryIsChecked, RecallIsChecked, Zenon
  <1>6. /\ IsListOfChecks(a)
        /\ FirstFault(a) = IF FirstFault(ids) = "ok" THEN FirstFault(UniqueChecks(s, seen)) ELSE FirstFault(ids)
    <2>1. a = ids \o UniqueChecks(s, seen)
      BY <1>3
    <2> QED BY <1>2, <1>5, <2>1, RefusedBefore, Zenon
  <1>7. /\ IsListOfChecks(b)
        /\ FirstFault(b) = IF FirstFault(a) = "ok" THEN FirstFault(TextChecks(s)) ELSE FirstFault(a)
    <2>1. b = a \o TextChecks(s)
      BY <1>3
    <2> QED BY <1>5, <1>6, <2>1, RefusedBefore, Zenon
  <1>8. /\ IsListOfChecks(c)
        /\ FirstFault(c) = IF FirstFault(b) = "ok" THEN FirstFault(SourceChecks(s)) ELSE FirstFault(b)
    <2>1. c = b \o SourceChecks(s)
      BY <1>3
    <2> QED BY <1>5, <1>7, <2>1, RefusedBefore, Zenon
  <1>9. /\ IsListOfChecks(d)
        /\ FirstFault(d) = IF FirstFault(c) = "ok" THEN FirstFault(DeliveryChecks(l, s)) ELSE FirstFault(c)
    <2>1. d = c \o DeliveryChecks(l, s)
      BY <1>3
    <2> QED BY <1>5, <1>8, <2>1, RefusedBefore, Zenon
  <1>10. /\ IsListOfChecks(e)
         /\ FirstFault(e) = IF FirstFault(d) = "ok" THEN FirstFault(RecallChecks(s)) ELSE FirstFault(d)
    <2>1. e = d \o RecallChecks(s)
      BY <1>3
    <2> QED BY <1>5, <1>9, <2>1, RefusedBefore, Zenon
  <1>11. PICK u, t, r, v, w, code : /\ u = FirstFault(UniqueChecks(s, seen)) /\ t = FirstFault(TextChecks(s))
                                    /\ r = FirstFault(SourceChecks(s)) /\ v = FirstFault(DeliveryChecks(l, s))
                                    /\ w = FirstFault(RecallChecks(s)) /\ code = FirstFault(e)
    OBVIOUS
  <1>12. code = "ok" <=> FirstFault(ids) = "ok" /\ u = "ok" /\ t = "ok" /\ r = "ok" /\ v = "ok" /\ w = "ok"
    BY <1>6, <1>7, <1>8, <1>9, <1>10, <1>11
  <1>13. \A x : Breaks(ids, x) <=> \/ x = "MissingSegmentId" /\ s.id = "blank"
                                   \/ x = "InvalidSegmentId" /\ s.id = "unportable"
    <2>1. "MissingSegmentId" # "ok" /\ "InvalidSegmentId" # "ok"
      OBVIOUS
    <2> QED BY <1>1, <2>1, IdsAreChecked, Zenon
  <1>14. code = "ok" <=> SegmentIsInBounds(l, i)
    <2>1. FirstFault(ids) = "ok" <=> s.id \notin {"blank", "unportable"}
      BY <1>2
    <2>2. u = "ok" <=> s.id \notin seen
      BY <1>11, UniquenessIsChecked
    <2>3. t = "ok" <=> s.spoken_text \notin {"blank", "long"} /\ s.display_text \notin {"blank", "long"}
      BY <1>11, TextsAreChecked
    <2>4. r = "ok" <=> /\ ~(s.source_refs = "none" /\ s.editorial = "false")
                       /\ s.source_refs \notin {"many", "blank", "long"}
      BY <1>11, SourcesAreChecked
    <2>5. v = "ok" <=> /\ s.review_status = "approved" /\ s.speaker # "blank" /\ Declares(l, s.speaker)
                       /\ s.pause_after_ms # "excessive"
      BY <1>11, DeliveryIsChecked
    <2>6. w = "ok" <=> (s.role = "recall_prompt" => s.pause_after_ms \notin {"short", "long"})
      BY <1>11, RecallIsChecked
    <2> QED BY <1>0, <1>1, <1>12, <2>1, <2>2, <2>3, <2>4, <2>5, <2>6 DEF SegmentIsInBounds
  <1>15. ASSUME NEW x
         PROVE  Breaks(e, x) <=> SegmentBreaks(l, i, x)
    <2>1. Breaks(a, x) <=> Breaks(ids, x) \/ Breaks(UniqueChecks(s, seen), x)
      <3>1. a = ids \o UniqueChecks(s, seen)
        BY <1>3
      <3> QED BY <1>2, <1>5, <3>1, BrokenInBoth, Zenon
    <2>2. Breaks(b, x) <=> Breaks(a, x) \/ Breaks(TextChecks(s), x)
      <3>1. b = a \o TextChecks(s)
        BY <1>3
      <3> QED BY <1>5, <1>6, <3>1, BrokenInBoth, Zenon
    <2>3. Breaks(c, x) <=> Breaks(b, x) \/ Breaks(SourceChecks(s), x)
      <3>1. c = b \o SourceChecks(s)
        BY <1>3
      <3> QED BY <1>5, <1>7, <3>1, BrokenInBoth, Zenon
    <2>4. Breaks(d, x) <=> Breaks(c, x) \/ Breaks(DeliveryChecks(l, s), x)
      <3>1. d = c \o DeliveryChecks(l, s)
        BY <1>3
      <3> QED BY <1>5, <1>8, <3>1, BrokenInBoth, Zenon
    <2>5. Breaks(e, x) <=> Breaks(d, x) \/ Breaks(RecallChecks(s), x)
      <3>1. e = d \o RecallChecks(s)
        BY <1>3
      <3> QED BY <1>5, <1>9, <3>1, BrokenInBoth, Zenon
    <2>6. Breaks(UniqueChecks(s, seen), x) <=> x = "DuplicateSegmentId" /\ s.id \in seen
      BY UniquenessIsChecked, Zenon
    <2>7. Breaks(TextChecks(s), x) <=> \/ x = "MissingSpokenText" /\ s.spoken_text = "blank"
                                       \/ x = "SpokenTextTooLong" /\ s.spoken_text = "long"
                                       \/ x = "MissingDisplayText" /\ s.display_text = "blank"
                                       \/ x = "DisplayTextTooLong" /\ s.display_text = "long"
      BY TextsAreChecked, Zenon
    <2>8. Breaks(SourceChecks(s), x) <=>
            \/ x = "MissingSourceRefs" /\ s.source_refs = "none" /\ s.editorial = "false"
            \/ x = "TooManySourceRefs" /\ s.source_refs = "many"
            \/ x = "EmptySourceRef" /\ s.source_refs = "blank"
            \/ x = "SourceRefTooLong" /\ s.source_refs = "long"
      BY SourcesAreChecked, Zenon
    <2>9. Breaks(DeliveryChecks(l, s), x) <=> \/ x = "UnapprovedSegment" /\ s.review_status # "approved"
                                              \/ x = "MissingSpeaker" /\ s.speaker = "blank"
                                              \/ x = "UndeclaredSpeaker" /\ ~Declares(l, s.speaker)
                                              \/ x = "PauseOutOfRange" /\ s.pause_after_ms = "excessive"
      BY DeliveryIsChecked, Zenon
    <2>10. Breaks(RecallChecks(s), x) <=>
             \/ x = "RecallPromptWithoutResponseInterval" /\ s.role = "recall_prompt" /\ s.pause_after_ms = "short"
             \/ x = "RecallPromptResponseIntervalTooLong" /\ s.role = "recall_prompt" /\ s.pause_after_ms = "long"
      BY RecallIsChecked, Zenon
    <2> QED BY <1>0, <1>1, <1>13, <2>1, <2>2, <2>3, <2>4, <2>5, <2>6, <2>7, <2>8, <2>9, <2>10 DEF SegmentBreaks
  <1> QED BY <1>4, <1>10, <1>11, <1>14, <1>15, Zenon

LEMMA LocatedIsARefusal ==
  ASSUME NEW code, NEW i
  PROVE  IF code = "ok" THEN Located(code, i) = Accepted
         ELSE /\ Located(code, i) # Accepted
              /\ Located(code, i).code = code /\ Located(code, i).segment = i
              /\ Located(code, i).field = FieldOf(code)
  BY DEF Located, Accepted, Refusal

LEMMA ValidateIsChecked ==
  ASSUME NEW l, NEW n \in Nat, n = Len(l.segments), DOMAIN l.segments = 1 .. n
  PROVE  /\ Validate(l) = Accepted <=> DocumentIsInBounds(l) /\ \A i \in DOMAIN l.segments : SegmentIsInBounds(l, i)
         /\ Validate(l) # Accepted => IsFaultOf(l, Validate(l))
  <1> DEFINE document == Located(FirstFault(DocumentChecks(l)), 0)
  <1> DEFINE segment == [i \in DOMAIN l.segments |-> Located(FirstFault(SegmentChecks(l, i)), i)]
  <1> DEFINE refused == {i \in DOMAIN segment : segment[i] # Accepted}
  <1>1. Validate(l) = IF document # Accepted \/ refused = {} THEN document ELSE segment[Min(refused)]
    BY Zenon DEF Validate
  <1>2. segment = [i \in DOMAIN l.segments |-> Located(FirstFault(SegmentChecks(l, i)), i)]
    OBVIOUS
  <1>3. document = Located(FirstFault(DocumentChecks(l)), 0)
    OBVIOUS
  <1> HIDE DEF document, segment
  <1>4. PICK failed : failed = refused
    OBVIOUS
  <1>6. DOMAIN segment = 1 .. n /\ \A i \in 1 .. n : segment[i] = Located(FirstFault(SegmentChecks(l, i)), i)
    BY <1>2
  <1>7. /\ document = Accepted <=> DocumentIsInBounds(l)
        /\ document # Accepted => IsFaultOf(l, document)
    <2>1. PICK code : code = FirstFault(DocumentChecks(l))
      OBVIOUS
    <2>2. code = "ok" <=> DocumentIsInBounds(l)
      BY <2>1, DocumentIsChecked
    <2>3. code # "ok" => Breaks(DocumentChecks(l), code)
      BY <2>1, DocumentIsChecked, FirstFaultIsBroken, Zenon
    <2>4. document = Located(code, 0)
      BY <1>3, <2>1
    <2> QED BY <2>2, <2>3, <2>4, LocatedIsARefusal DEF IsFaultOf
  <1>8. \A i \in 1 .. n : /\ segment[i] = Accepted <=> SegmentIsInBounds(l, i)
                          /\ segment[i] # Accepted => IsFaultOf(l, segment[i])
    <2>1. TAKE i \in 1 .. n
    <2>2. PICK code : code = FirstFault(SegmentChecks(l, i))
      OBVIOUS
    <2>3. code = "ok" <=> SegmentIsInBounds(l, i)
      BY <2>2, SegmentIsChecked, Zenon
    <2>4. code # "ok" => Breaks(SegmentChecks(l, i), code)
      BY <2>2, SegmentIsChecked, FirstFaultIsBroken, Zenon
    <2>5. segment[i] = Located(code, i)
      BY <1>6, <2>2
    <2> QED BY <2>3, <2>4, <2>5, LocatedIsARefusal DEF IsFaultOf
  <1>9. Validate(l) = IF document # Accepted \/ failed = {} THEN document ELSE segment[Min(failed)]
    BY <1>1, <1>4, Zenon
  <1>10. failed \in SUBSET Nat
    BY <1>4, <1>6
  <1>11. CASE document # Accepted \/ failed = {}
    <2>1. Validate(l) = document
      BY <1>9, <1>11
    <2>2. document = Accepted => \A i \in 1 .. n : segment[i] = Accepted
      BY <1>4, <1>6, <1>11
    <2> QED BY <1>7, <1>8, <2>1, <2>2
  <1>12. CASE ~(document # Accepted \/ failed = {})
    <2>1. PICK k \in 1 .. n : k = Min(failed) /\ segment[k] # Accepted
      BY <1>4, <1>6, <1>10, <1>12, FirstPosition
    <2>2. Validate(l) = segment[k]
      BY <1>9, <1>12, <2>1
    <2> QED BY <1>8, <2>1, <2>2
  <1> QED BY <1>11, <1>12

\* The deserializer accepts a document whose every key it can read.
ShapeIsWhole(l) ==
  /\ \A i \in DOMAIN DocumentKeys : ~IsWrongAt(l, DocumentKeys[i])
  /\ \A k \in DOMAIN l.segments : \A i \in DOMAIN SegmentKeys : ~IsWrongAt(l.segments[k], SegmentKeys[i])

LEMMA ShapeIsChecked ==
  ASSUME NEW l, NEW n \in Nat, DOMAIN l.segments = 1 .. n
  PROVE  /\ ShapeRefusal(l) = Accepted <=> ShapeIsWhole(l)
         /\ ShapeRefusal(l) # Accepted => IsFaultOf(l, ShapeRefusal(l))
  <1>1. \/ ShapeRefusal(l) = Accepted /\ ShapeIsWhole(l)
        \/ ShapeIsRefusedAt(l, DocumentKeys, l, 0)
        \/ \E k \in 1 .. n : ShapeIsRefusedAt(l, SegmentKeys, l.segments[k], k)
    BY ShapeIsRefused DEF ShapeIsWhole
  <1>2. CASE ShapeIsRefusedAt(l, DocumentKeys, l, 0)
    BY <1>2, Zenon DEF ShapeIsRefusedAt, ShapeIsWhole, IsFaultOf
  <1>3. ASSUME NEW k \in 1 .. n, ShapeIsRefusedAt(l, SegmentKeys, l.segments[k], k)
        PROVE  ShapeRefusal(l) # Accepted /\ ~ShapeIsWhole(l) /\ IsFaultOf(l, ShapeRefusal(l))
    <2>1. k \in DOMAIN l.segments
      BY <1>3
    <2> QED BY <1>3, <2>1, Zenon DEF ShapeIsRefusedAt, ShapeIsWhole, IsFaultOf
  <1> QED BY <1>1, <1>2, <1>3

\* What can be written is what the deserializer is given.
LEMMA EachIsASegment ==
  ASSUME NEW l \in LessonFields
  PROVE  /\ \E n \in Nat : n = Len(l.segments) /\ DOMAIN l.segments = 1 .. n
         /\ \A i \in DOMAIN l.segments : l.segments[i] \in SegmentDocument
  <1>1. l.segments \in Seq(SegmentDocument)
    BY DEF LessonFields
  <1> QED BY <1>1

LEMMA IdsAreUnique ==
  ASSUME NEW l \in LessonFields
  PROVE  (\A i \in DOMAIN l.segments : l.segments[i].id \notin IdsBefore(l, i)) <=>
           \A i, j \in DOMAIN l.segments : l.segments[i].id = l.segments[j].id => i = j
  <1>1. PICK n \in Nat : DOMAIN l.segments = 1 .. n
    BY EachIsASegment
  <1>2. PICK id : id = [i \in 1 .. n |-> l.segments[i].id]
    OBVIOUS
  <1>3. \A i \in 1 .. n : l.segments[i].id \in IdsBefore(l, i) <=> \E j \in 1 .. i - 1 : id[j] = id[i]
    BY <1>1, <1>2 DEF IdsBefore
  <1>4. (\A i \in 1 .. n : \A j \in 1 .. i - 1 : id[j] # id[i]) <=> \A i, j \in 1 .. n : id[i] = id[j] => i = j
    <2>1. ASSUME \A i \in 1 .. n : \A j \in 1 .. i - 1 : id[j] # id[i], NEW i \in 1 .. n, NEW j \in 1 .. n, id[i] = id[j]
          PROVE  i = j
      <3>1. ~(i < j) /\ ~(j < i)
        BY <2>1
      <3> QED BY <3>1
    <2>2. ASSUME \A i, j \in 1 .. n : id[i] = id[j] => i = j, NEW i \in 1 .. n, NEW j \in 1 .. i - 1
          PROVE  id[j] # id[i]
      BY <2>2
    <2> QED BY <2>1, <2>2
  <1>5. \A i, j \in 1 .. n : l.segments[i].id = l.segments[j].id <=> id[i] = id[j]
    BY <1>2
  <1>6. (\A i \in 1 .. n : l.segments[i].id \notin IdsBefore(l, i)) <=>
           \A i \in 1 .. n : \A j \in 1 .. i - 1 : id[j] # id[i]
    BY <1>3
  <1>7. (\A i, j \in 1 .. n : l.segments[i].id = l.segments[j].id => i = j) <=>
           \A i, j \in 1 .. n : id[i] = id[j] => i = j
    BY <1>5
  <1> QED BY <1>1, <1>4, <1>6, <1>7

LEMMA WhatIsReadIsSound ==
  ASSUME NEW l \in LessonFields
  PROVE  LessonIsSound(l) <=>
           /\ l.size # "oversized" /\ ~DeclaredVersionFails(l) /\ ShapeIsWhole(l) /\ ~RepeatsSpeaker(l)
           /\ DocumentIsInBounds(l) /\ \A i \in DOMAIN l.segments : SegmentIsInBounds(l, i)
  <1>1. PICK n \in Nat : n = Len(l.segments) /\ DOMAIN l.segments = 1 .. n
    BY EachIsASegment
  <1>2. \A i \in 1 .. n : l.segments[i] \in SegmentDocument
    BY <1>1, EachIsASegment
  <1>3. l.segments = <<>> <=> n = 0
    BY <1>1 DEF LessonFields
  <1>4. \A i \in 1 .. n :
           l.speakers = "teacher" =>
             ((\A k \in DOMAIN SegmentKeys : ~IsWrongAt(l.segments[i], SegmentKeys[k])) /\ SegmentIsInBounds(l, i)
                <=> SegmentIsSound(l, l.segments[i]) /\ l.segments[i].id \notin IdsBefore(l, i))
    <2>1. SUFFICES ASSUME NEW i \in 1 .. n, l.speakers = "teacher"
                   PROVE  (\A k \in DOMAIN SegmentKeys : ~IsWrongAt(l.segments[i], SegmentKeys[k])) /\ SegmentIsInBounds(l, i)
                            <=> SegmentIsSound(l, l.segments[i]) /\ l.segments[i].id \notin IdsBefore(l, i)
      OBVIOUS
    <2>2. PICK s \in SegmentDocument : s = l.segments[i]
      BY <1>2
    <2>3. (\A k \in DOMAIN SegmentKeys : ~IsWrongAt(s, SegmentKeys[k])) /\ SegmentIsInBounds(l, i)
            <=> SegmentIsSound(l, s) /\ s.id \notin IdsBefore(l, i)
      BY <2>1, <2>2, SegmentIsWhole DEF SegmentIsInBounds, SegmentIsSound, Declares, SegmentDocument, SegmentValues
    <2> QED BY <2>2, <2>3
  <1>5. ASSUME l.speakers = "none", NEW i \in 1 .. n
        PROVE  ~SegmentIsInBounds(l, i)
    BY <1>5 DEF SegmentIsInBounds, Declares
  <1>6. DocumentIsInBounds(l) => n >= 1 /\ n <= LessonSegments
    BY <1>1, <1>3, LessonAssumption DEF DocumentIsInBounds
  <1>7. (\A i \in DOMAIN l.segments : l.segments[i].id \notin IdsBefore(l, i)) <=>
           \A i, j \in DOMAIN l.segments : l.segments[i].id = l.segments[j].id => i = j
    BY IdsAreUnique
  <1>8. ASSUME LessonIsSound(l)
        PROVE  /\ l.size # "oversized" /\ ~DeclaredVersionFails(l) /\ ShapeIsWhole(l) /\ ~RepeatsSpeaker(l)
               /\ DocumentIsInBounds(l) /\ \A i \in DOMAIN l.segments : SegmentIsInBounds(l, i)
    <2>1. l.speakers = "teacher" /\ n \in 1 .. LessonSegments
      BY <1>1, <1>8 DEF LessonIsSound
    <2>2. \A i \in 1 .. n : /\ \A k \in DOMAIN SegmentKeys : ~IsWrongAt(l.segments[i], SegmentKeys[k])
                            /\ SegmentIsInBounds(l, i)
      BY <1>1, <1>4, <1>7, <1>8, <2>1 DEF LessonIsSound
    <2>3. \A i \in DOMAIN DocumentKeys : ~IsWrongAt(l, DocumentKeys[i])
      BY <1>8, DocumentIsWhole DEF LessonIsSound
    <2>4. l.size # "oversized" /\ ~DeclaredVersionFails(l) /\ ~RepeatsSpeaker(l)
      BY <1>8 DEF LessonIsSound, DeclaredVersionFails, VersionFails, RepeatsSpeaker
    <2>5. DocumentIsInBounds(l)
      <3>1. l.segments # <<>> /\ ~(Len(l.segments) > LessonSegments)
        BY <1>1, <1>3, <2>1, LessonAssumption
      <3>2. ~VersionFails(l.schema_version)
        BY <1>8 DEF LessonIsSound, VersionFails
      <3> QED BY <1>8, <3>1, <3>2 DEF LessonIsSound, DocumentIsInBounds, LessonFields, DocumentValues
    <2> QED BY <1>1, <2>2, <2>3, <2>4, <2>5 DEF ShapeIsWhole
  <1>9. ASSUME l.size # "oversized", ~DeclaredVersionFails(l), ShapeIsWhole(l), ~RepeatsSpeaker(l),
               DocumentIsInBounds(l), \A i \in DOMAIN l.segments : SegmentIsInBounds(l, i)
        PROVE  LessonIsSound(l)
    <2>1. /\ l.schema # "wrong" /\ l.schema_version \notin {"wrong", "absent"}
          /\ l.lesson_id \notin {"wrong", "absent"} /\ l.title = "text" /\ l.language \notin {"wrong", "absent"}
          /\ l.learning_objectives # "wrong" /\ l.content_hash \in {"no_source", "digest"}
          /\ l.speakers \notin {"wrong", "absent"}
      BY <1>9, DocumentIsWhole DEF ShapeIsWhole
    <2>2. n \in 1 .. LessonSegments
      BY <1>6, <1>9, LessonAssumption
    <2>3. l.speakers = "teacher"
      <3>1. 1 \in 1 .. n
        BY <2>2, LessonAssumption
      <3>2. l.speakers # "none"
        BY <1>1, <1>5, <1>9, <3>1
      <3> QED BY <1>9, <2>1, <3>2 DEF LessonFields, DocumentValues, DocumentIsInBounds, RepeatsSpeaker
    <2>4. \A i \in 1 .. n : SegmentIsSound(l, l.segments[i]) /\ l.segments[i].id \notin IdsBefore(l, i)
      BY <1>1, <1>4, <1>9, <2>3 DEF ShapeIsWhole
    <2>5. /\ l.size = "fits" /\ l.schema \in {"absent", "v3"} /\ l.schema_version \in {"3.0", "3.1"}
          /\ l.lesson_id = "portable" /\ l.language = "tag" /\ l.learning_objectives = "few"
          /\ l.content_hash = "digest" => l.references = "few"
      BY <1>9, <2>1 DEF LessonFields, DocumentValues, DocumentIsInBounds, VersionFails
    <2> QED BY <1>1, <1>7, <2>1, <2>2, <2>3, <2>4, <2>5 DEF LessonIsSound
  <1> QED BY <1>8, <1>9

\* from_json answers with something that is wrong with the lesson, or accepts it
\* because nothing is.
LEMMA EveryRefusalIsOfAFault ==
  ASSUME NEW l, NEW n \in Nat, n = Len(l.segments), DOMAIN l.segments = 1 .. n
  PROVE  /\ FromJson(l) # Accepted => IsFaultOf(l, FromJson(l))
         /\ FromJson(l) = Accepted <=>
              /\ l.size # "oversized" /\ ~DeclaredVersionFails(l) /\ ShapeIsWhole(l) /\ ~RepeatsSpeaker(l)
              /\ DocumentIsInBounds(l) /\ \A i \in DOMAIN l.segments : SegmentIsInBounds(l, i)
  <1>1. CASE l.size = "oversized"
    <2>1. FromJson(l) = Located("LessonJsonTooLarge", 0)
      BY <1>1 DEF FromJson
    <2> QED BY <1>1, <2>1, LocatedIsARefusal DEF IsFaultOf
  <1>2. CASE l.size # "oversized" /\ DeclaredVersionFails(l)
    <2>1. FromJson(l) = Located("UnsupportedSchema", 0)
      BY <1>2 DEF FromJson
    <2> QED BY <1>2, <2>1, LocatedIsARefusal DEF IsFaultOf
  <1>3. CASE l.size # "oversized" /\ ~DeclaredVersionFails(l)
    <2>1. FromJson(l) = IF ShapeRefusal(l) # Accepted THEN ShapeRefusal(l)
                        ELSE IF RepeatsSpeaker(l) THEN Located("DuplicateSpeaker", 0)
                        ELSE Validate(l)
      BY <1>3 DEF FromJson
    <2>2. CASE ShapeRefusal(l) # Accepted
      BY <2>1, <2>2, ShapeIsChecked
    <2>3. CASE ShapeRefusal(l) = Accepted /\ RepeatsSpeaker(l)
      <3>1. FromJson(l) = Located("DuplicateSpeaker", 0)
        BY <2>1, <2>3
      <3> QED BY <2>3, <3>1, LocatedIsARefusal DEF IsFaultOf
    <2>4. CASE ShapeRefusal(l) = Accepted /\ ~RepeatsSpeaker(l)
      <3>1. FromJson(l) = Validate(l)
        BY <2>1, <2>4
      <3>2. ShapeIsWhole(l)
        BY <2>4, ShapeIsChecked
      <3> QED BY <1>3, <2>4, <3>1, <3>2, ValidateIsChecked
    <2> QED BY <2>2, <2>3, <2>4
  <1> QED BY <1>1, <1>2, <1>3

\* A field of the document, and one of a segment, rewritten.
LEMMA DocumentIsRewritten ==
  ASSUME NEW l \in LessonFields, NEW field \in DOMAIN DocumentValues, NEW v \in DocumentValues[field]
  PROVE  /\ WithField(l, 0, field, v) \in LessonFields
         /\ \A key \in DOMAIN DocumentValues : WithField(l, 0, field, v)[key] = IF key = field THEN v ELSE l[key]
         /\ WithField(l, 0, field, v).segments = l.segments
  <1>1. WithField(l, 0, field, v) = [l EXCEPT ![field] = v]
    BY DEF WithField
  <1>2. /\ DOMAIN DocumentValues = {"size", "schema", "schema_version", "lesson_id", "title", "language",
                                    "learning_objectives", "content_hash", "references", "speakers"}
        /\ field \in DOMAIN DocumentValues
    BY DEF DocumentValues
  <1>3. PICK new : new = [l EXCEPT ![field] = v]
    OBVIOUS
  <1>4. new \in LessonFields
    BY <1>2, <1>3 DEF LessonFields, DocumentValues
  <1>5. DOMAIN l = DOMAIN DocumentValues \cup {"segments"} /\ "segments" \notin DOMAIN DocumentValues
    BY <1>2 DEF LessonFields
  <1>6. \A key \in DOMAIN DocumentValues : new[key] = IF key = field THEN v ELSE l[key]
    BY <1>3, <1>5
  <1>7. new.segments = l.segments
    BY <1>2, <1>3, <1>5
  <1> QED BY <1>1, <1>3, <1>4, <1>6, <1>7

LEMMA SegmentIsRewritten ==
  ASSUME NEW l \in LessonFields, NEW k \in DOMAIN l.segments, NEW field \in DOMAIN SegmentValues, NEW v,
         NEW new, new = WithField(l, k, field, v)
  PROVE  /\ \A key \in DOMAIN DocumentValues : new[key] = l[key]
         /\ Len(new.segments) = Len(l.segments) /\ DOMAIN new.segments = DOMAIN l.segments
         /\ \A i \in DOMAIN l.segments : i # k => new.segments[i] = l.segments[i]
         /\ \A key \in DOMAIN SegmentValues : new.segments[k][key] = IF key = field THEN v ELSE l.segments[k][key]
         /\ v \in SegmentValues[field] => new \in LessonFields
  <1>1. k # 0 /\ k \in Nat
    BY EachIsASegment
  <1>2. new = [l EXCEPT !.segments[k][field] = v]
    BY <1>1 DEF WithField
  <1>3. /\ DOMAIN SegmentValues = {"id", "speaker", "role", "source_refs", "display_text", "spoken_text", "style",
                                   "pause_after_ms", "review_status", "editorial"}
        /\ field \in DOMAIN SegmentValues
    BY DEF SegmentValues
  <1>4. PICK s \in SegmentDocument : s = l.segments[k]
    BY EachIsASegment
  <1>5. PICK t : t = [s EXCEPT ![field] = v]
    OBVIOUS
  <1>6. \A key \in DOMAIN SegmentValues : t[key] = IF key = field THEN v ELSE s[key]
    <2>1. DOMAIN s = DOMAIN SegmentValues
      BY <1>3 DEF SegmentDocument
    <2> QED BY <1>5, <2>1
  <1>7. v \in SegmentValues[field] => t \in SegmentDocument
    BY <1>3, <1>5 DEF SegmentDocument, SegmentValues
  <1>8. PICK segments : segments = [l.segments EXCEPT ![k] = t]
    OBVIOUS
  <1>9. PICK n \in Nat : n = Len(l.segments) /\ DOMAIN l.segments = 1 .. n
    BY EachIsASegment
  <1>10. /\ DOMAIN segments = 1 .. n /\ Len(segments) = n
         /\ \A i \in 1 .. n : segments[i] = IF i = k THEN t ELSE l.segments[i]
    <2>1. DOMAIN segments = 1 .. n /\ \A i \in 1 .. n : segments[i] = IF i = k THEN t ELSE l.segments[i]
      BY <1>8, <1>9
    <2>2. \A i \in 1 .. n : segments[i] \in {l.segments[j] : j \in 1 .. n} \cup {t}
      BY <2>1
    <2>3. segments = [i \in 1 .. n |-> segments[i]]
      BY <1>8, <1>9, <2>1
    <2>4. PICK S : S = {l.segments[j] : j \in 1 .. n} \cup {t}
      OBVIOUS
    <2>5. segments \in [1 .. n -> S]
      BY <2>2, <2>3, <2>4, Zenon
    <2>6. segments \in Seq(S)
      BY <2>5
    <2>7. Len(segments) = n
      BY <2>1, <2>6
    <2> QED BY <2>1, <2>7
  <1>11. v \in SegmentValues[field] => segments \in Seq(SegmentDocument)
    <2>1. l.segments \in Seq(SegmentDocument)
      BY DEF LessonFields
    <2> QED BY <1>7, <1>8, <2>1
  <1>12. PICK written : written = [l EXCEPT !.segments = segments]
    OBVIOUS
  <1>13. new = written
    BY <1>2, <1>4, <1>5, <1>8, <1>12
  <1>14. /\ written.segments = segments
         /\ \A key \in DOMAIN DocumentValues : written[key] = l[key]
    <2>1. DOMAIN l = DOMAIN DocumentValues \cup {"segments"} /\ "segments" \notin DOMAIN DocumentValues
      BY DEF LessonFields, DocumentValues
    <2> QED BY <1>12, <2>1
  <1>15. v \in SegmentValues[field] => written \in LessonFields
    BY <1>11, <1>12 DEF LessonFields
  <1> QED BY <1>4, <1>6, <1>9, <1>10, <1>13, <1>14, <1>15

LEMMA FieldsAreNamed ==
  /\ \A field \in DOMAIN DocumentValues : field # NoField /\ field # "segments"
  /\ \A field \in DOMAIN SegmentValues : field # NoField
  <1>1. PICK names : names = {"size", "schema", "schema_version", "lesson_id", "title", "language",
                              "learning_objectives", "content_hash", "references", "speakers", "id", "speaker", "role",
                              "source_refs", "display_text", "spoken_text", "style", "pause_after_ms",
                              "review_status", "editorial"}
    OBVIOUS
  <1>2. /\ \A field \in DOMAIN DocumentValues : field \in names
        /\ \A field \in DOMAIN SegmentValues : field \in names
    BY <1>1 DEF DocumentValues, SegmentValues
  <1>3. \A name \in names : name # NoField
    BY <1>1, Zenon DEF NoField
  <1>4. \A name \in names : name # "segments"
    BY <1>1
  <1> QED BY <1>2, <1>3, <1>4

\* What a valid lesson has in a field is a value of the field.
LEMMA ValidValues ==
  /\ \A field \in DOMAIN DocumentValues : ValidLesson[field] \in DocumentValues[field]
  /\ \A field \in DOMAIN SegmentValues : ValidSegment("a")[field] \in SegmentValues[field]
  BY DEF DocumentValues, SegmentValues, ValidLesson, ValidSegment

\* Where each rule is located, and that a key of the document that cannot be read is
\* one of its fields.
LEMMA DocumentRulesAreLocated ==
  ASSUME NEW l, NEW code, DocumentBreaks(l, code)
  PROVE  /\ code # "ok"
         /\ FieldOf(code) \in {"schema_version", "schema", "lesson_id", "language", "learning_objectives",
                               "references", "segments", "speakers"}
  BY FieldsOfDocuments DEF DocumentBreaks

LEMMA SegmentRulesAreLocated ==
  ASSUME NEW l, NEW i, NEW code, SegmentBreaks(l, i, code)
  PROVE  code # "ok" /\ FieldOf(code) \in DOMAIN SegmentValues /\ FieldOf(code) # "editorial"
  BY FieldsOfSegments DEF SegmentBreaks, SegmentValues

LEMMA KeysAreFields ==
  /\ \A k \in DOMAIN DocumentKeys : DocumentKeys[k] \in DOMAIN DocumentValues
  /\ \A k \in DOMAIN SegmentKeys : SegmentKeys[k] \in DOMAIN SegmentValues
  BY DEF DocumentKeys, SegmentKeys, DocumentValues, SegmentValues

\* What is wrong with a lesson, by where it is.
LEMMA FaultsAreLocated ==
  ASSUME NEW l, Len(l.segments) \in Nat, NEW d
  PROVE  IsFaultOf(l, d) <=>
           \/ l.size = "oversized" /\ d = Located("LessonJsonTooLarge", 0)
           \/ DeclaredVersionFails(l) /\ d = Located("UnsupportedSchema", 0)
           \/ \E k \in DOMAIN DocumentKeys :
                 /\ IsWrongAt(l, DocumentKeys[k])
                 /\ d = Refusal(ShapeCode(l[DocumentKeys[k]], 0, DocumentKeys[k]), 0, DocumentKeys[k])
           \/ \E i \in DOMAIN l.segments, k \in DOMAIN SegmentKeys :
                 /\ IsWrongAt(l.segments[i], SegmentKeys[k])
                 /\ d = Refusal(ShapeCode(l.segments[i][SegmentKeys[k]], i, SegmentKeys[k]), i, SegmentKeys[k])
           \/ RepeatsSpeaker(l) /\ d = Located("DuplicateSpeaker", 0)
           \/ DocumentBreaks(l, d.code) /\ d = Located(d.code, 0)
           \/ \E i \in DOMAIN l.segments : SegmentBreaks(l, i, d.code) /\ d = Located(d.code, i)
  <1>1. Breaks(DocumentChecks(l), d.code) <=> DocumentBreaks(l, d.code)
    BY DocumentIsChecked, Zenon
  <1>2. \A i \in DOMAIN l.segments : Breaks(SegmentChecks(l, i), d.code) <=> SegmentBreaks(l, i, d.code)
    BY SegmentIsChecked, Zenon
  <1> QED BY <1>1, <1>2, Zenon DEF IsFaultOf

\* A refusal is where it says.
LEMMA PlacesOfRefusals ==
  ASSUME NEW code, NEW i, NEW f
  PROVE  Refusal(code, i, f).code = code /\ Refusal(code, i, f).segment = i /\ Refusal(code, i, f).field = f
  BY DEF Refusal

LEMMA FaultsHaveAPlace ==
  ASSUME NEW l \in LessonFields, NEW d, IsFaultOf(l, d)
  PROVE  \/ d.field \in {NoField, "segments"}
         \/ /\ d.segment = 0 /\ d.field \in DOMAIN DocumentValues
            /\ d.field = "content_hash" => l.content_hash # "no_source"
         \/ /\ d.segment \in DOMAIN l.segments /\ d.field \in DOMAIN SegmentValues
            /\ d.field # "editorial"
  <1>1. Len(l.segments) \in Nat
    BY EachIsASegment
  <1>2. CASE d = Located("LessonJsonTooLarge", 0)
    BY <1>2, LocatedIsARefusal, FieldsOfDocuments
  <1>3. CASE d = Located("UnsupportedSchema", 0) \/ d = Located("DuplicateSpeaker", 0)
    <2>1. d.segment = 0 /\ d.field \in {"schema_version", "speakers"}
      BY <1>3, LocatedIsARefusal, FieldsOfDocuments
    <2> QED BY <2>1 DEF DocumentValues
  <1>4. ASSUME NEW k \in DOMAIN DocumentKeys, IsWrongAt(l, DocumentKeys[k]),
               d = Refusal(ShapeCode(l[DocumentKeys[k]], 0, DocumentKeys[k]), 0, DocumentKeys[k])
        PROVE  /\ d.segment = 0 /\ d.field \in DOMAIN DocumentValues
               /\ d.field = "content_hash" => l.content_hash # "no_source"
    <2>1. d.segment = 0 /\ d.field = DocumentKeys[k]
      BY <1>4, PlacesOfRefusals
    <2>2. IsWrongAt(l, "content_hash") => l.content_hash # "no_source"
      BY DEF IsWrongAt, StopsAt, Omits
    <2> QED BY <1>4, <2>1, <2>2, KeysAreFields
  <1>5. ASSUME NEW i \in DOMAIN l.segments, NEW k \in DOMAIN SegmentKeys, IsWrongAt(l.segments[i], SegmentKeys[k]),
               d = Refusal(ShapeCode(l.segments[i][SegmentKeys[k]], i, SegmentKeys[k]), i, SegmentKeys[k])
        PROVE  d.segment \in DOMAIN l.segments /\ d.field \in DOMAIN SegmentValues /\ d.field # "editorial"
    <2>1. d.segment = i /\ d.field = SegmentKeys[k]
      BY <1>5, PlacesOfRefusals
    <2>2. PICK s \in SegmentDocument : s = l.segments[i]
      BY EachIsASegment
    <2>3. ~IsWrongAt(s, "editorial")
      BY DEF IsWrongAt, StopsAt, Omits, OptionalKeys, SegmentDocument, SegmentValues
    <2> QED BY <1>5, <2>1, <2>2, <2>3, KeysAreFields
  <1>6. CASE DocumentBreaks(l, d.code) /\ d = Located(d.code, 0)
    <2>1. d.segment = 0 /\ d.field \in {"schema_version", "schema", "lesson_id", "language", "learning_objectives",
                                        "references", "segments", "speakers"}
      BY <1>6, DocumentRulesAreLocated, LocatedIsARefusal
    <2> QED BY <2>1 DEF DocumentValues
  <1>7. ASSUME NEW i \in DOMAIN l.segments, SegmentBreaks(l, i, d.code), d = Located(d.code, i)
        PROVE  d.segment \in DOMAIN l.segments /\ d.field \in DOMAIN SegmentValues /\ d.field # "editorial"
    BY <1>7, SegmentRulesAreLocated, LocatedIsARefusal
  <1> QED BY <1>1, <1>2, <1>3, <1>4, <1>5, <1>6, <1>7, FaultsAreLocated

\* A field of the document made valid mends what is located at it, and breaks nothing.
LEMMA DocumentIsMended ==
  ASSUME NEW l \in LessonFields, NEW field \in DOMAIN DocumentValues,
         field = "content_hash" => l.content_hash # "no_source",
         NEW m \in LessonFields, m.segments = l.segments,
         \A key \in DOMAIN DocumentValues : m[key] = IF key = field THEN ValidLesson[field] ELSE l[key],
         NEW d, IsFaultOf(m, d)
  PROVE  IsFaultOf(l, d) /\ ~(d.segment = 0 /\ d.field = field)
  <1>1. Len(l.segments) \in Nat /\ 0 \notin DOMAIN l.segments
    BY EachIsASegment
  <1>2. /\ m.size = IF field = "size" THEN "fits" ELSE l.size
        /\ m.schema = IF field = "schema" THEN "v3" ELSE l.schema
        /\ m.schema_version = IF field = "schema_version" THEN "3.1" ELSE l.schema_version
        /\ m.lesson_id = IF field = "lesson_id" THEN "portable" ELSE l.lesson_id
        /\ m.title = IF field = "title" THEN "text" ELSE l.title
        /\ m.language = IF field = "language" THEN "tag" ELSE l.language
        /\ m.learning_objectives = IF field = "learning_objectives" THEN "few" ELSE l.learning_objectives
        /\ m.content_hash = IF field = "content_hash" THEN "digest" ELSE l.content_hash
        /\ m.references = IF field = "references" THEN "few" ELSE l.references
        /\ m.speakers = IF field = "speakers" THEN "teacher" ELSE l.speakers
    BY DEF DocumentValues, ValidLesson
  <1>3. CASE m.size = "oversized" /\ d = Located("LessonJsonTooLarge", 0)
    <2>1. l.size = "oversized"
      BY <1>2, <1>3
    <2>2. d.field = NoField
      BY <1>3, LocatedIsARefusal, FieldsOfDocuments
    <2> QED BY <1>1, <1>3, <2>1, <2>2, FaultsAreLocated, FieldsAreNamed
  <1>4. CASE DeclaredVersionFails(m) /\ d = Located("UnsupportedSchema", 0)
    <2>1. field # "schema_version" /\ DeclaredVersionFails(l)
      BY <1>2, <1>4 DEF DeclaredVersionFails, VersionFails
    <2>2. d.field = "schema_version"
      BY <1>4, LocatedIsARefusal, FieldsOfDocuments
    <2> QED BY <1>1, <1>4, <2>1, <2>2, FaultsAreLocated
  <1>5. ASSUME NEW k \in DOMAIN DocumentKeys, IsWrongAt(m, DocumentKeys[k]),
               d = Refusal(ShapeCode(m[DocumentKeys[k]], 0, DocumentKeys[k]), 0, DocumentKeys[k])
        PROVE  IsFaultOf(l, d) /\ d.field # field
    <2>1. PICK key \in DOMAIN DocumentValues : key = DocumentKeys[k]
      BY KeysAreFields
    <2>2. key # field
      <3>1. key = field => m[key] = ValidLesson[key]
        OBVIOUS
      <3>2. m[key] = ValidLesson[key] => ~IsWrongAt(m, key)
        BY DEF IsWrongAt, StopsAt, Omits, ValidLesson, DocumentValues
      <3> QED BY <1>5, <2>1, <3>1, <3>2
    <2>3. m[key] = l[key]
      BY <2>2
    <2>4. IsWrongAt(l, key)
      BY <1>5, <2>1, <2>3 DEF IsWrongAt, StopsAt, Omits
    <2>5. d = Refusal(ShapeCode(l[DocumentKeys[k]], 0, DocumentKeys[k]), 0, DocumentKeys[k])
      BY <1>5, <2>1, <2>3
    <2>6. d.field = key
      BY <1>5, <2>1, PlacesOfRefusals
    <2> QED BY <1>1, <2>1, <2>2, <2>4, <2>5, <2>6, FaultsAreLocated
  <1>6. ASSUME NEW i \in DOMAIN m.segments, NEW k \in DOMAIN SegmentKeys, IsWrongAt(m.segments[i], SegmentKeys[k]),
               d = Refusal(ShapeCode(m.segments[i][SegmentKeys[k]], i, SegmentKeys[k]), i, SegmentKeys[k])
        PROVE  IsFaultOf(l, d) /\ d.segment # 0
    <2>1. d.segment # 0
      BY <1>1, <1>6, PlacesOfRefusals
    <2> QED BY <1>1, <1>6, <2>1, FaultsAreLocated
  <1>7. CASE RepeatsSpeaker(m) /\ d = Located("DuplicateSpeaker", 0)
    <2>1. field # "speakers" /\ RepeatsSpeaker(l)
      BY <1>2, <1>7 DEF RepeatsSpeaker
    <2>2. d.field = "speakers"
      BY <1>7, LocatedIsARefusal, FieldsOfDocuments
    <2> QED BY <1>1, <1>7, <2>1, <2>2, FaultsAreLocated
  <1>8. CASE DocumentBreaks(m, d.code) /\ d = Located(d.code, 0)
    <2>1. PICK code : code = d.code
      OBVIOUS
    <2>2. DocumentBreaks(l, code) /\ FieldOf(code) # field
      <3>1. field # "segments"
        BY FieldsAreNamed
      <3> QED BY <1>2, <1>8, <2>1, <3>1, FieldsOfDocuments DEF DocumentBreaks, VersionFails
    <2>3. d.field = FieldOf(code)
      BY <1>8, <2>1, DocumentRulesAreLocated, LocatedIsARefusal
    <2> QED BY <1>1, <1>8, <2>1, <2>2, <2>3, FaultsAreLocated
  <1>9. ASSUME NEW i \in DOMAIN m.segments, SegmentBreaks(m, i, d.code), d = Located(d.code, i)
        PROVE  IsFaultOf(l, d) /\ d.segment # 0
    <2>1. PICK code : code = d.code
      OBVIOUS
    <2>2. ~Declares(m, l.segments[i].speaker) => ~Declares(l, l.segments[i].speaker)
      BY <1>2 DEF Declares
    <2>3. IdsBefore(m, i) = IdsBefore(l, i)
      BY DEF IdsBefore
    <2>4. SegmentBreaks(l, i, code)
      BY <1>9, <2>1, <2>2, <2>3 DEF SegmentBreaks
    <2>5. d.segment # 0
      BY <1>1, <1>9, SegmentRulesAreLocated, LocatedIsARefusal
    <2> QED BY <1>1, <1>9, <2>1, <2>4, <2>5, FaultsAreLocated
  <1> QED BY <1>1, <1>3, <1>4, <1>5, <1>6, <1>7, <1>8, <1>9, FaultsAreLocated

\* A field of a segment made valid mends what is located at it, unless no voice is
\* bound to any speaker, and breaks nothing; an id is made one no segment has.
LEMMA SegmentIsMended ==
  ASSUME NEW l \in LessonFields, NEW k \in DOMAIN l.segments, NEW field \in DOMAIN SegmentValues, NEW m,
         field # "editorial",
         \A key \in DOMAIN DocumentValues : m[key] = l[key],
         Len(m.segments) = Len(l.segments), DOMAIN m.segments = DOMAIN l.segments,
         \A i \in DOMAIN l.segments : i # k => m.segments[i] = l.segments[i],
         \A key \in DOMAIN SegmentValues : m.segments[k][key] =
            IF key # field THEN l.segments[k][key] ELSE IF field = "id" THEN "new" ELSE ValidSegment("a")[field],
         NEW d, IsFaultOf(m, d)
  PROVE  /\ IsFaultOf(l, d)
         /\ d.segment = k /\ d.field = field => d.code = "UndeclaredSpeaker" /\ l.speakers = "none"
  <1>1. PICK n \in Nat : n = Len(l.segments) /\ DOMAIN l.segments = 1 .. n
    BY EachIsASegment
  <1>2. Len(l.segments) \in Nat /\ Len(m.segments) \in Nat /\ k # 0 /\ k \in Nat
    BY <1>1
  <1>3. /\ m.size = l.size /\ m.schema = l.schema /\ m.schema_version = l.schema_version
        /\ m.lesson_id = l.lesson_id /\ m.title = l.title /\ m.language = l.language
        /\ m.learning_objectives = l.learning_objectives /\ m.content_hash = l.content_hash
        /\ m.references = l.references /\ m.speakers = l.speakers
    BY DEF DocumentValues
  <1>4. PICK s, t : s = l.segments[k] /\ t = m.segments[k]
    OBVIOUS
  <1>5. /\ t.id = IF field = "id" THEN "new" ELSE s.id
        /\ t.speaker = IF field = "speaker" THEN "teacher" ELSE s.speaker
        /\ t.role = IF field = "role" THEN "explanation" ELSE s.role
        /\ t.source_refs = IF field = "source_refs" THEN "some" ELSE s.source_refs
        /\ t.display_text = IF field = "display_text" THEN "text" ELSE s.display_text
        /\ t.spoken_text = IF field = "spoken_text" THEN "text" ELSE s.spoken_text
        /\ t.style = IF field = "style" THEN "calm" ELSE s.style
        /\ t.pause_after_ms = IF field = "pause_after_ms" THEN "response" ELSE s.pause_after_ms
        /\ t.review_status = IF field = "review_status" THEN "approved" ELSE s.review_status
        /\ t.editorial = IF field = "editorial" THEN "false" ELSE s.editorial
    BY <1>4 DEF SegmentValues, ValidSegment
  <1>6. \A i \in 1 .. n : l.segments[i].id # "new"
    <2>1. \A i \in 1 .. n : l.segments[i].id \in SegmentValues["id"]
      BY <1>1, EachIsASegment DEF SegmentDocument
    <2>2. "new" \notin SegmentValues["id"]
      BY DEF SegmentValues
    <2> QED BY <2>1, <2>2
  <1>7. CASE m.size = "oversized" /\ d = Located("LessonJsonTooLarge", 0)
    <2>1. d.segment = 0
      BY <1>7, LocatedIsARefusal
    <2> QED BY <1>2, <1>3, <1>7, <2>1, FaultsAreLocated
  <1>8. CASE DeclaredVersionFails(m) /\ d = Located("UnsupportedSchema", 0)
    <2>1. d.segment = 0
      BY <1>8, LocatedIsARefusal
    <2>2. DeclaredVersionFails(l)
      BY <1>3, <1>8 DEF DeclaredVersionFails
    <2> QED BY <1>2, <1>8, <2>1, <2>2, FaultsAreLocated
  <1>9. ASSUME NEW j \in DOMAIN DocumentKeys, IsWrongAt(m, DocumentKeys[j]),
               d = Refusal(ShapeCode(m[DocumentKeys[j]], 0, DocumentKeys[j]), 0, DocumentKeys[j])
        PROVE  IsFaultOf(l, d) /\ d.segment = 0
    <2>1. m[DocumentKeys[j]] = l[DocumentKeys[j]]
      BY KeysAreFields
    <2>2. IsWrongAt(l, DocumentKeys[j])
      BY <1>9, <2>1 DEF IsWrongAt, StopsAt, Omits
    <2>3. d.segment = 0
      BY <1>9, PlacesOfRefusals
    <2> QED BY <1>2, <1>9, <2>1, <2>2, <2>3, FaultsAreLocated
  <1>10. ASSUME NEW i \in DOMAIN m.segments, NEW j \in DOMAIN SegmentKeys, IsWrongAt(m.segments[i], SegmentKeys[j]),
                d = Refusal(ShapeCode(m.segments[i][SegmentKeys[j]], i, SegmentKeys[j]), i, SegmentKeys[j])
         PROVE  IsFaultOf(l, d) /\ ~(d.segment = k /\ d.field = field)
    <2>1. PICK key \in DOMAIN SegmentValues : key = SegmentKeys[j]
      BY KeysAreFields
    <2>2. d.segment = i /\ d.field = key
      BY <1>10, <2>1, PlacesOfRefusals
    <2>3. ~(i = k /\ key = field)
      <3>1. SUFFICES ASSUME i = k, key = field PROVE FALSE
        OBVIOUS
      <3>2. m.segments[k][key] = IF key = "id" THEN "new" ELSE ValidSegment("a")[key]
        BY <3>1
      <3>3. ~IsWrongAt(m.segments[k], key)
        BY <3>2 DEF IsWrongAt, StopsAt, Omits, ValidSegment, SegmentValues
      <3> QED BY <1>10, <2>1, <3>1, <3>3
    <2>4. m.segments[i][key] = l.segments[i][key]
      BY <2>3
    <2>5. IsWrongAt(l.segments[i], key)
      BY <1>10, <2>1, <2>4 DEF IsWrongAt, StopsAt, Omits
    <2>6. d = Refusal(ShapeCode(l.segments[i][SegmentKeys[j]], i, SegmentKeys[j]), i, SegmentKeys[j])
      BY <1>10, <2>1, <2>4
    <2> QED BY <1>2, <2>1, <2>2, <2>3, <2>5, <2>6, FaultsAreLocated
  <1>11. CASE RepeatsSpeaker(m) /\ d = Located("DuplicateSpeaker", 0)
    <2>1. d.segment = 0 /\ RepeatsSpeaker(l)
      BY <1>3, <1>11, LocatedIsARefusal DEF RepeatsSpeaker
    <2> QED BY <1>2, <1>11, <2>1, FaultsAreLocated
  <1>12. CASE DocumentBreaks(m, d.code) /\ d = Located(d.code, 0)
    <2>1. m.segments = <<>> => l.segments = <<>>
      <3>1. m.segments = <<>> => DOMAIN m.segments = {}
        OBVIOUS
      <3>2. DOMAIN l.segments = {} => l.segments = <<>>
        BY DEF LessonFields
      <3> QED BY <3>1, <3>2
    <2>2. DocumentBreaks(l, d.code)
      BY <1>3, <1>12, <2>1 DEF DocumentBreaks
    <2>3. d.segment = 0
      BY <1>12, DocumentRulesAreLocated, LocatedIsARefusal
    <2> QED BY <1>2, <1>12, <2>2, <2>3, FaultsAreLocated
  <1>13. ASSUME NEW i \in DOMAIN m.segments, SegmentBreaks(m, i, d.code), d = Located(d.code, i)
         PROVE  /\ IsFaultOf(l, d)
                /\ d.segment = k /\ d.field = field => d.code = "UndeclaredSpeaker" /\ l.speakers = "none"
    <2>1. PICK code : code = d.code
      OBVIOUS
    <2>2. d.segment = i /\ d.field = FieldOf(code)
      BY <1>13, <2>1, SegmentRulesAreLocated, LocatedIsARefusal
    <2>3. /\ m.segments[i].id \in IdsBefore(m, i) => l.segments[i].id \in IdsBefore(l, i)
          /\ i = k /\ field = "id" => m.segments[i].id \notin IdsBefore(m, i)
      <3>1. PICK old, new : /\ old = [j \in 1 .. n |-> l.segments[j].id]
                            /\ new = [j \in 1 .. n |-> m.segments[j].id]
        OBVIOUS
      <3>2. \A j \in 1 .. n : /\ j # k => new[j] = old[j]
                              /\ j = k => new[j] = IF field = "id" THEN "new" ELSE old[j]
                              /\ old[j] # "new"
        BY <1>1, <1>4, <1>5, <1>6, <3>1
      <3>3. /\ i \in 1 .. n /\ l.segments[i].id = old[i] /\ m.segments[i].id = new[i]
            /\ IdsBefore(l, i) = {old[j] : j \in 1 .. i - 1}
            /\ IdsBefore(m, i) = {new[j] : j \in 1 .. i - 1}
        <4>1. i \in 1 .. n /\ \A j \in 1 .. i - 1 : j \in 1 .. n
          BY <1>1
        <4> QED BY <3>1, <4>1 DEF IdsBefore
      <3>4. \A j \in 1 .. i - 1 : j \in 1 .. n /\ j # i
        BY <3>3
      <3> QED BY <3>2, <3>3, <3>4
    <2>4. ~Declares(m, m.segments[i].speaker) => ~Declares(l, l.segments[i].speaker)
      BY <1>3, <1>4, <1>5 DEF Declares
    <2>5. CASE i # k
      <3>1. SegmentBreaks(l, i, code)
        BY <1>13, <2>1, <2>3, <2>4, <2>5 DEF SegmentBreaks
      <3> QED BY <1>2, <1>13, <2>1, <2>2, <2>5, <3>1, FaultsAreLocated
    <2>6. CASE i = k
      <3>1. SegmentBreaks(l, i, code)
        <4>1. l.segments[i] = s /\ m.segments[i] = t
          BY <1>4, <2>6
        <4>2. /\ t.id \in {"blank", "unportable"} => s.id = t.id
              /\ t.spoken_text \in {"blank", "long"} => s.spoken_text = t.spoken_text
              /\ t.display_text \in {"blank", "long"} => s.display_text = t.display_text
              /\ t.source_refs \in {"none", "many", "blank", "long"} => s.source_refs = t.source_refs
              /\ t.review_status # "approved" => s.review_status = t.review_status
              /\ t.speaker = "blank" => s.speaker = t.speaker
              /\ t.pause_after_ms \in {"short", "long", "excessive"} => s.pause_after_ms = t.pause_after_ms
              /\ t.role = "recall_prompt" => s.role = t.role
          BY <1>5
        <4>3. t.source_refs = "none" /\ t.editorial = "false" /\ s.editorial # "false" => FALSE
          BY <1>5
        <4> QED BY <1>13, <2>1, <2>3, <2>4, <4>1, <4>2, <4>3 DEF SegmentBreaks
      <3>2. FieldOf(code) = field => code = "UndeclaredSpeaker" /\ l.speakers = "none"
        BY <1>3, <1>4, <1>5, <1>13, <2>1, <2>3, <2>6, FieldsOfSegments DEF SegmentBreaks, Declares
      <3> QED BY <1>2, <1>13, <2>1, <2>2, <3>1, <3>2, FaultsAreLocated
    <2> QED BY <2>5, <2>6
  <1> QED BY <1>1, <1>2, <1>7, <1>8, <1>9, <1>10, <1>11, <1>12, <1>13, FaultsAreLocated

LEMMA FaultsCanBeCorrected ==
  ASSUME NEW l \in LessonFields, FromJson(l) # Accepted
  PROVE  CorrectionExists(l, FromJson(l))
  <1>1. PICK n \in Nat : n = Len(l.segments) /\ DOMAIN l.segments = 1 .. n
    BY EachIsASegment
  <1>2. PICK d : d = FromJson(l)
    OBVIOUS
  <1>3. IsFaultOf(l, d)
    BY <1>1, <1>2, EveryRefusalIsOfAFault
  <1>4. CASE d.field \in {NoField, "segments"}
    BY <1>2, <1>4 DEF CorrectionExists
  <1>5. CASE /\ d.segment = 0 /\ d.field \in DOMAIN DocumentValues
             /\ d.field = "content_hash" => l.content_hash # "no_source"
    <2>1. PICK field \in DOMAIN DocumentValues : field = d.field
      BY <1>5
    <2>2. PICK v \in DocumentValues[field] : v = ValidLesson[field]
      BY ValidValues
    <2>3. PICK m \in LessonFields : m = WithField(l, d.segment, d.field, v)
      BY <1>5, <2>1, DocumentIsRewritten
    <2>4. /\ m.segments = l.segments
          /\ \A key \in DOMAIN DocumentValues : m[key] = IF key = field THEN ValidLesson[field] ELSE l[key]
      BY <1>5, <2>1, <2>2, <2>3, DocumentIsRewritten
    <2>5. \A e : IsFaultOf(m, e) => IsFaultOf(l, e) /\ ~(e.segment = 0 /\ e.field = field)
      BY <1>5, <2>1, <2>4, DocumentIsMended
    <2>6. PICK e : e = FromJson(m)
      OBVIOUS
    <2>7. e = Accepted \/ IsFaultOf(m, e)
      BY <1>1, <2>4, <2>6, EveryRefusalIsOfAFault
    <2>8. e # d /\ (e = Accepted \/ IsFaultOf(l, e))
      BY <1>2, <1>5, <2>1, <2>5, <2>7
    <2>9. v \in Corrections(d)
      BY <1>5, <2>1 DEF Corrections, ValuesAt
    <2> QED BY <1>2, <2>3, <2>6, <2>8, <2>9 DEF CorrectionExists
  <1>6. CASE d.segment \in DOMAIN l.segments /\ d.field \in DOMAIN SegmentValues /\ d.field # "editorial"
    <2>1. PICK k \in DOMAIN l.segments, field \in DOMAIN SegmentValues :
             k = d.segment /\ field = d.field /\ field # "editorial"
      BY <1>6
    <2>2. PICK v : v = IF field = "id" THEN "new" ELSE ValidSegment("a")[field]
      OBVIOUS
    <2>3. PICK m : m = WithField(l, k, field, v)
      OBVIOUS
    <2>4. /\ \A key \in DOMAIN DocumentValues : m[key] = l[key]
          /\ Len(m.segments) = Len(l.segments) /\ DOMAIN m.segments = DOMAIN l.segments
          /\ \A i \in DOMAIN l.segments : i # k => m.segments[i] = l.segments[i]
          /\ \A key \in DOMAIN SegmentValues : m.segments[k][key] = IF key = field THEN v ELSE l.segments[k][key]
      BY <2>3, SegmentIsRewritten
    <2>5. \A key \in DOMAIN SegmentValues : m.segments[k][key] =
            IF key # field THEN l.segments[k][key] ELSE IF field = "id" THEN "new" ELSE ValidSegment("a")[field]
      BY <2>2, <2>4
    <2>6. \A e : IsFaultOf(m, e) =>
            /\ IsFaultOf(l, e)
            /\ e.segment = k /\ e.field = field => e.code = "UndeclaredSpeaker" /\ l.speakers = "none"
      BY <2>1, <2>4, <2>5, SegmentIsMended
    <2>7. PICK e : e = FromJson(m)
      OBVIOUS
    <2>8. e = Accepted \/ IsFaultOf(m, e)
      BY <1>1, <2>4, <2>7, EveryRefusalIsOfAFault
    <2>9. CASE e = d
      <3>1. d.code = "UndeclaredSpeaker" /\ l.speakers = "none"
        BY <1>2, <2>1, <2>6, <2>8, <2>9
      <3> QED BY <1>2, <3>1 DEF CorrectionExists
    <2>10. CASE e # d
      <3>1. v \in Corrections(d)
        <4>1. d.segment # 0
          BY <1>1, <1>6
        <4> QED BY <2>1, <2>2, <4>1, ValidValues DEF Corrections, ValuesAt
      <3>2. e = Accepted \/ IsFaultOf(l, e)
        BY <2>6, <2>8
      <3> QED BY <1>2, <2>1, <2>3, <2>7, <2>10, <3>1, <3>2 DEF CorrectionExists
    <2> QED BY <2>9, <2>10
  <1> QED BY <1>3, <1>4, <1>5, <1>6, FaultsHaveAPlace

\* The lessons an author comes to by any number of changes of one field, of an added
\* segment or of none left.
LEMMA SegmentsAreWritten ==
  /\ ValidSegment("a") \in SegmentDocument /\ ValidSegment("b") \in SegmentDocument
  /\ ValidSegment("c") \in SegmentDocument
  BY DEF ValidSegment, SegmentDocument, SegmentValues

LEMMA ValidLessonIsWritten == ValidLesson \in LessonFields
  <1>1. PICK segments : segments = <<ValidSegment("a"), ValidSegment("b")>>
    OBVIOUS
  <1>2. segments \in Seq(SegmentDocument)
    BY <1>1, SegmentsAreWritten
  <1> QED BY <1>1, <1>2 DEF ValidLesson, LessonFields, DocumentValues

LEMMA EditsAreWritten ==
  ASSUME NEW l \in LessonFields, NEW m \in EditsOf(l)
  PROVE  m \in LessonFields
  <1>1. \/ \E field \in DOMAIN DocumentValues : \E v \in DocumentValues[field] : m = WithField(l, 0, field, v)
        \/ \E i \in DOMAIN l.segments : \E field \in DOMAIN SegmentValues : \E v \in SegmentValues[field] :
             m = WithField(l, i, field, v)
        \/ m = [l EXCEPT !.segments = <<>>]
        \/ m = [l EXCEPT !.segments = Append(@, ValidSegment("c"))]
    <2>1. PICK A, B, C :
             /\ A = UNION {{WithField(l, 0, field, v) : v \in DocumentValues[field]} : field \in DOMAIN DocumentValues}
             /\ B = UNION {UNION {{WithField(l, i, field, v) : v \in SegmentValues[field]} :
                                    field \in DOMAIN SegmentValues} : i \in DOMAIN l.segments}
             /\ C = {[l EXCEPT !.segments = <<>>], [l EXCEPT !.segments = Append(@, ValidSegment("c"))]}
      OBVIOUS
    <2>2. EditsOf(l) = (A \cup B) \cup C
      BY <2>1, Zenon DEF EditsOf
    <2>3. m \in A \/ m \in B \/ m \in C
      BY <2>2
    <2>4. CASE m \in A
      <3>1. PICK field \in DOMAIN DocumentValues : m \in {WithField(l, 0, field, v) : v \in DocumentValues[field]}
        BY <2>1, <2>4
      <3> QED BY <3>1
    <2>5. CASE m \in B
      <3>1. PICK i \in DOMAIN l.segments :
               m \in UNION {{WithField(l, i, field, v) : v \in SegmentValues[field]} : field \in DOMAIN SegmentValues}
        BY <2>1, <2>5
      <3>2. PICK field \in DOMAIN SegmentValues : m \in {WithField(l, i, field, v) : v \in SegmentValues[field]}
        BY <3>1
      <3> QED BY <3>2
    <2>6. CASE m \in C
      BY <2>1, <2>6
    <2> QED BY <2>3, <2>4, <2>5, <2>6
  <1>2. ASSUME NEW field \in DOMAIN DocumentValues, NEW v \in DocumentValues[field], m = WithField(l, 0, field, v)
        PROVE  m \in LessonFields
    BY <1>2, DocumentIsRewritten
  <1>3. \A i \in DOMAIN l.segments : \A field \in DOMAIN SegmentValues : \A v \in SegmentValues[field] :
           WithField(l, i, field, v) \in LessonFields
    BY SegmentIsRewritten, Zenon
  <1>4. CASE m = [l EXCEPT !.segments = <<>>]
    <2>1. PICK segments \in Seq(SegmentDocument) : segments = <<>>
      <3>1. <<>> \in Seq(SegmentDocument)
        OBVIOUS
      <3> QED BY <3>1, Zenon
    <2>2. m = [l EXCEPT !.segments = segments]
      BY <1>4, <2>1
    <2> QED BY <2>2 DEF LessonFields
  <1>5. CASE m = [l EXCEPT !.segments = Append(@, ValidSegment("c"))]
    <2>1. Append(l.segments, ValidSegment("c")) \in Seq(SegmentDocument)
      BY SegmentsAreWritten DEF LessonFields
    <2>2. PICK segments \in Seq(SegmentDocument) : segments = Append(l.segments, ValidSegment("c"))
      BY <2>1
    <2>3. m = [l EXCEPT !.segments = segments]
      BY <1>5, <2>2 DEF LessonFields
    <2> QED BY <2>3 DEF LessonFields
  <1> QED BY <1>1, <1>2, <1>3, <1>4, <1>5

\* from_json accepts exactly the lessons that meet every rule, and a refusal names a
\* field that can be corrected, alone, so that the lesson is then accepted or refused
\* only for what was wrong with it before and is asked later: of every lesson that can
\* be written, with any number of segments and any bound on it, whatever faults it has
\* at once.
THEOREM EveryRefusalIsAtTheFault ==
  ASSUME NEW l \in LessonFields
  PROVE  /\ FromJson(l) = Accepted <=> LessonIsSound(l)
         /\ FromJson(l) # Accepted => CorrectionExists(l, FromJson(l))
  <1>1. PICK n \in Nat : n = Len(l.segments) /\ DOMAIN l.segments = 1 .. n
    BY EachIsASegment
  <1>2. FromJson(l) = Accepted <=> LessonIsSound(l)
    BY <1>1, EveryRefusalIsOfAFault, WhatIsReadIsSound
  <1> QED BY <1>2, FaultsCanBeCorrected

\* The same of the lessons that an author's changes come to.
THEOREM RefusalsAreAtTheFault == LessonSpec => []RefusalIsAtTheFault
  <1> DEFINE Written == lesson \in LessonFields
  <1>1. LessonInit => Written
    BY ValidLessonIsWritten, EditsAreWritten DEF LessonInit
  <1>2. Written /\ [EditLesson]_lesson => Written'
    BY EditsAreWritten DEF EditLesson
  <1>3. Written => RefusalIsAtTheFault
    BY EveryRefusalIsAtTheFault DEF RefusalIsAtTheFault
  <1> QED BY <1>1, <1>2, <1>3, PTL DEF LessonSpec
=============================================================================
