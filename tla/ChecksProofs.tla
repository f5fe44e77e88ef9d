---------------------------- MODULE ChecksProofs ----------------------------
(***************************************************************************)
(* What a function that refuses at its first failing check accepts and     *)
(* names, for any list of checks.                                          *)
(***************************************************************************)
EXTENDS Checks, WellFoundedInduction, TLAPS

\* A set of positions has a first one.
LEMMA FirstPosition ==
  ASSUME NEW S \in SUBSET Nat, S # {}
  PROVE  Min(S) \in S /\ \A y \in S : Min(S) =< y
  <1>1. PICK x \in S : \A y \in S : ~(<<y, x>> \in OpToRel(<, Nat))
    BY WFMin, NatLessThanWellFounded
  <1>2. \A y \in S : ~(y < x)
    BY <1>1 DEF OpToRel
  <1>3. \A y \in S : x =< y
    BY <1>2
  <1> QED BY <1>3 DEF Min

\* The refusal is the error of a check that fails while those before it do not.
LEMMA FirstFaultOfChecks ==
  ASSUME NEW n \in Nat, NEW checks, DOMAIN checks = 1 .. n
  PROVE  \/ FirstFault(checks) = "ok" /\ \A i \in 1 .. n : ~checks[i][1]
         \/ \E i \in 1 .. n :
               /\ checks[i][1] /\ FirstFault(checks) = checks[i][2]
               /\ \A j \in 1 .. i - 1 : ~checks[j][1]
  <1> DEFINE failing == {i \in DOMAIN checks : checks[i][1]}
  <1>1. CASE failing = {}
    BY <1>1 DEF FirstFault
  <1>2. CASE failing # {}
    <2>1. failing \in SUBSET Nat
      OBVIOUS
    <2>2. Min(failing) \in failing /\ \A y \in failing : Min(failing) =< y
      BY <1>2, <2>1, FirstPosition
    <2>3. FirstFault(checks) = checks[Min(failing)][2]
      BY <1>2 DEF FirstFault
    <2>4. Min(failing) \in 1 .. n /\ checks[Min(failing)][1]
      BY <2>2
    <2>5. \A j \in 1 .. n : checks[j][1] => j \in failing
      OBVIOUS
    <2>6. \A j \in 1 .. Min(failing) - 1 : ~checks[j][1]
      <3> HIDE DEF failing
      <3> QED BY <2>2, <2>4, <2>5
    <2> QED BY <2>3, <2>4, <2>6
  <1> QED BY <1>1, <1>2

\* What is accepted fails no check, and what fails none is accepted.
LEMMA FirstFaultAccepts ==
  ASSUME NEW n \in Nat, NEW checks, DOMAIN checks = 1 .. n, \A i \in 1 .. n : checks[i][2] # "ok"
  PROVE  FirstFault(checks) = "ok" <=> \A i \in 1 .. n : ~checks[i][1]
  BY FirstFaultOfChecks

\* There is one first.
LEMMA FirstFaultIsAt ==
  ASSUME NEW n \in Nat, NEW checks, DOMAIN checks = 1 .. n
  PROVE  \A i \in 1 .. n :
            checks[i][1] /\ (\A j \in 1 .. i - 1 : ~checks[j][1]) => FirstFault(checks) = checks[i][2]
  <1>1. SUFFICES ASSUME NEW i \in 1 .. n, checks[i][1], \A j \in 1 .. i - 1 : ~checks[j][1]
                 PROVE  FirstFault(checks) = checks[i][2]
    OBVIOUS
  <1>2. PICK k \in 1 .. n : /\ checks[k][1] /\ FirstFault(checks) = checks[k][2]
                           /\ \A j \in 1 .. k - 1 : ~checks[j][1]
    BY <1>1, FirstFaultOfChecks
  <1>3. ~(k < i) /\ ~(i < k)
    BY <1>1, <1>2
  <1> QED BY <1>2, <1>3

\* The same of a list of results, each "ok" or an error.
LEMMA FirstFaultOfResults ==
  ASSUME NEW n \in Nat, NEW results, DOMAIN results = 1 .. n
  PROVE  FirstFault([i \in DOMAIN results |-> <<results[i] # "ok", results[i]>>]) = "ok"
            <=> \A i \in 1 .. n : results[i] = "ok"
  <1> DEFINE checks == [i \in DOMAIN results |-> <<results[i] # "ok", results[i]>>]
  <1>1. PICK asked : asked = checks
    OBVIOUS
  <1>2. DOMAIN asked = 1 .. n
    BY <1>1
  <1>3. \A i \in 1 .. n : (asked[i][1] <=> results[i] # "ok") /\ asked[i][2] = results[i]
    BY <1>1
  <1>4. FirstFault(asked) = "ok" <=> \A i \in 1 .. n : results[i] = "ok"
    BY <1>2, <1>3, FirstFaultOfChecks
  <1> QED BY <1>1, <1>4

\* Of two lists in a row, the second is asked when the first has let pass.
LEMMA FirstFaultOfBoth ==
  ASSUME NEW S, NEW s \in Seq(S), NEW t \in Seq(S), \A i \in DOMAIN s : s[i][2] # "ok"
  PROVE  FirstFault(s \o t) = IF FirstFault(s) = "ok" THEN FirstFault(t) ELSE FirstFault(s)
  <1>1. Len(s) \in Nat /\ DOMAIN s = 1 .. Len(s) /\ Len(t) \in Nat /\ DOMAIN t = 1 .. Len(t)
    OBVIOUS
  <1>2. PICK both : both = s \o t
    OBVIOUS
  <1>3. DOMAIN both = 1 .. Len(s) + Len(t)
    BY <1>2
  <1>4. /\ \A i \in 1 .. Len(s) : both[i] = s[i]
        /\ \A i \in 1 .. Len(t) : both[Len(s) + i] = t[i]
    BY <1>1, <1>2
  <1>5. FirstFault(both) = IF FirstFault(s) = "ok" THEN FirstFault(t) ELSE FirstFault(s)
    <2>1. CASE FirstFault(s) # "ok"
      <3>1. PICK i \in 1 .. Len(s) : /\ s[i][1] /\ FirstFault(s) = s[i][2]
                                     /\ \A j \in 1 .. i - 1 : ~s[j][1]
        BY <1>1, <2>1, FirstFaultOfChecks
      <3>2. i \in 1 .. Len(s) + Len(t) /\ both[i][1] /\ \A j \in 1 .. i - 1 : ~both[j][1]
        BY <1>1, <1>4, <3>1
      <3>3. FirstFault(both) = both[i][2]
        BY <1>1, <1>3, <3>2, FirstFaultIsAt
      <3> QED BY <1>4, <2>1, <3>1, <3>3
    <2>2. CASE FirstFault(s) = "ok"
      <3>1. \A i \in 1 .. Len(s) : ~s[i][1]
        BY <1>1, <2>2, FirstFaultAccepts
      <3>2. CASE FirstFault(t) = "ok" /\ \A i \in 1 .. Len(t) : ~t[i][1]
        <4>1. \A i \in 1 .. Len(s) + Len(t) : ~both[i][1]
          <5>1. TAKE i \in 1 .. Len(s) + Len(t)
          <5>2. CASE i <= Len(s)
            BY <1>1, <1>4, <3>1, <5>2
          <5>3. CASE i > Len(s)
            <6>1. i - Len(s) \in 1 .. Len(t) /\ i = Len(s) + (i - Len(s))
              BY <1>1, <5>3
            <6> QED BY <1>4, <3>2, <6>1
          <5> QED BY <1>1, <5>2, <5>3
        <4>2. Len(s) + Len(t) \in Nat
          BY <1>1
        <4>3. FirstFault(both) = "ok"
          BY <1>3, <4>1, <4>2, FirstFaultOfChecks
        <4> QED BY <2>2, <3>2, <4>3
      <3>3. ASSUME NEW i \in 1 .. Len(t), t[i][1], FirstFault(t) = t[i][2],
                   \A j \in 1 .. i - 1 : ~t[j][1]
            PROVE  FirstFault(both) = FirstFault(t)
        <4>1. Len(s) + i \in 1 .. Len(s) + Len(t) /\ both[Len(s) + i] = t[i]
          BY <1>1, <1>4
        <4>2. \A j \in 1 .. Len(s) + i - 1 : ~both[j][1]
          <5>1. TAKE j \in 1 .. Len(s) + i - 1
          <5>2. CASE j <= Len(s)
            BY <1>1, <1>4, <3>1, <5>2
          <5>3. CASE j > Len(s)
            <6>1. j - Len(s) \in 1 .. Len(t) /\ j - Len(s) \in 1 .. i - 1 /\ j = Len(s) + (j - Len(s))
              BY <1>1, <5>3
            <6> QED BY <1>4, <3>3, <6>1
          <5> QED BY <1>1, <5>2, <5>3
        <4>3. PICK k, n \in Nat : k = Len(s) + i /\ n = Len(s) + Len(t)
          BY <1>1
        <4>4. k \in 1 .. n /\ both[k][1]
          BY <3>3, <4>1, <4>3
        <4>5. \A j \in 1 .. k - 1 : ~both[j][1]
          BY <4>2, <4>3
        <4>6. DOMAIN both = 1 .. n
          BY <1>3, <4>3
        <4>7. FirstFault(both) = both[k][2]
          BY <4>4, <4>5, <4>6, FirstFaultIsAt
        <4> QED BY <3>3, <4>1, <4>3, <4>7
      <3>4. FirstFault(both) = FirstFault(t)
        BY <1>1, <2>2, <3>2, <3>3, FirstFaultOfChecks
      <3> QED BY <2>2, <3>4
    <2> QED BY <2>1, <2>2
  <1> QED BY <1>2, <1>5

\* A list of checks, none of which is called "ok".
IsListOfChecks(checks) == (\E S : checks \in Seq(S)) /\ \A i \in DOMAIN checks : checks[i][2] # "ok"

LEMMA RefusedBefore ==
  ASSUME NEW s, NEW t, IsListOfChecks(s), IsListOfChecks(t), NEW both, both = s \o t
  PROVE  /\ IsListOfChecks(both)
         /\ FirstFault(both) = IF FirstFault(s) = "ok" THEN FirstFault(t) ELSE FirstFault(s)
  <1>1. PICK S, T : s \in Seq(S) /\ t \in Seq(T)
    BY DEF IsListOfChecks
  <1>2. PICK U : U = S \cup T
    OBVIOUS
  <1>3. s \in Seq(U) /\ t \in Seq(U)
    <2>1. \A i \in 1 .. Len(s) : s[i] \in U
      BY <1>1, <1>2
    <2>2. \A i \in 1 .. Len(t) : t[i] \in U
      BY <1>1, <1>2
    <2>3. s \in Seq(U)
      BY <1>1, <2>1
    <2>4. t \in Seq(U)
      BY <1>1, <2>2
    <2> QED BY <2>3, <2>4
  <1>4. both \in Seq(U)
    BY <1>3
  <1>5. /\ \A i \in DOMAIN s : s[i][2] # "ok"
        /\ \A i \in DOMAIN t : t[i][2] # "ok"
    BY DEF IsListOfChecks
  <1>6. FirstFault(both) = IF FirstFault(s) = "ok" THEN FirstFault(t) ELSE FirstFault(s)
    BY <1>3, <1>5, FirstFaultOfBoth
  <1>7. \A i \in DOMAIN both : both[i][2] # "ok"
    <2>1. /\ Len(s) \in Nat /\ Len(t) \in Nat /\ DOMAIN s = 1 .. Len(s) /\ DOMAIN t = 1 .. Len(t)
          /\ DOMAIN both = 1 .. Len(s) + Len(t)
          /\ \A i \in 1 .. Len(s) : both[i] = s[i]
          /\ \A i \in 1 .. Len(t) : both[Len(s) + i] = t[i]
      BY <1>3
    <2>2. TAKE i \in DOMAIN both
    <2>3. CASE i <= Len(s)
      BY <1>5, <2>1, <2>3
    <2>4. CASE i > Len(s)
      <3>1. i - Len(s) \in 1 .. Len(t) /\ i = Len(s) + (i - Len(s))
        BY <2>1, <2>4
      <3> QED BY <1>5, <2>1, <3>1
    <2> QED BY <2>1, <2>3, <2>4
  <1> QED BY <1>4, <1>6, <1>7, Zenon DEF IsListOfChecks

\* The lists as long as the code writes them.
LEMMA ListOfNone == IsListOfChecks(<<>>) /\ FirstFault(<<>>) = "ok"
  <1>1. PICK checks : checks = <<>>
    OBVIOUS
  <1>2. checks \in Seq({}) /\ DOMAIN checks = {}
    BY <1>1
  <1>3. IsListOfChecks(checks) /\ FirstFault(checks) = "ok"
    BY <1>2 DEF IsListOfChecks, FirstFault
  <1> QED BY <1>1, <1>3

LEMMA ListOfACheck ==
  ASSUME NEW c1,
         c1[2] # "ok"
  PROVE  /\ IsListOfChecks(<<c1>>)
         /\ FirstFault(<<c1>>) =
              IF c1[1] THEN c1[2] ELSE "ok"
  <1>1. PICK checks : checks = <<c1>>
    OBVIOUS
  <1>2. /\ checks \in Seq({c1}) /\ DOMAIN checks = 1 .. 1
        /\ checks[1] = c1
    BY <1>1
  <1>3. \A i \in 1 .. 1 : checks[i][2] # "ok"
    BY <1>2
  <1>4. FirstFault(checks) =
              IF c1[1] THEN c1[2] ELSE "ok"
    <2>1. \A i \in 1 .. 1 :
             checks[i][1] /\ (\A j \in 1 .. i - 1 : ~checks[j][1]) => FirstFault(checks) = checks[i][2]
      BY <1>2, FirstFaultIsAt
    <2>2. FirstFault(checks) = "ok" <=> \A i \in 1 .. 1 : ~checks[i][1]
      BY <1>2, <1>3, FirstFaultAccepts
    <2> QED BY <1>2, <2>1, <2>2
  <1>5. IsListOfChecks(checks)
    BY <1>2, <1>3 DEF IsListOfChecks
  <1> QED BY <1>1, <1>4, <1>5

LEMMA ListOfTwo ==
  ASSUME NEW c1, NEW c2,
         c1[2] # "ok", c2[2] # "ok"
  PROVE  /\ IsListOfChecks(<<c1, c2>>)
         /\ FirstFault(<<c1, c2>>) =
              IF c1[1] THEN c1[2] ELSE IF c2[1] THEN c2[2] ELSE "ok"
  <1>1. PICK checks : checks = <<c1, c2>>
    OBVIOUS
  <1>2. /\ checks \in Seq({c1, c2}) /\ DOMAIN checks = 1 .. 2
        /\ checks[1] = c1 /\ checks[2] = c2
    BY <1>1
  <1>3. \A i \in 1 .. 2 : checks[i][2] # "ok"
    BY <1>2
  <1>4. FirstFault(checks) =
              IF c1[1] THEN c1[2] ELSE IF c2[1] THEN c2[2] ELSE "ok"
    <2>1. \A i \in 1 .. 2 :
             checks[i][1] /\ (\A j \in 1 .. i - 1 : ~checks[j][1]) => FirstFault(checks) = checks[i][2]
      BY <1>2, FirstFaultIsAt
    <2>2. FirstFault(checks) = "ok" <=> \A i \in 1 .. 2 : ~checks[i][1]
      BY <1>2, <1>3, FirstFaultAccepts
    <2> QED BY <1>2, <2>1, <2>2
  <1>5. IsListOfChecks(checks)
    BY <1>2, <1>3 DEF IsListOfChecks
  <1> QED BY <1>1, <1>4, <1>5

LEMMA ListOfThree ==
  ASSUME NEW c1, NEW c2, NEW c3,
         c1[2] # "ok", c2[2] # "ok", c3[2] # "ok"
  PROVE  /\ IsListOfChecks(<<c1, c2, c3>>)
         /\ FirstFault(<<c1, c2, c3>>) =
              IF c1[1] THEN c1[2] ELSE IF c2[1] THEN c2[2] ELSE IF c3[1] THEN c3[2] ELSE "ok"
  <1>1. PICK checks : checks = <<c1, c2, c3>>
    OBVIOUS
  <1>2. /\ checks \in Seq({c1, c2, c3}) /\ DOMAIN checks = 1 .. 3
        /\ checks[1] = c1 /\ checks[2] = c2 /\ checks[3] = c3
    BY <1>1
  <1>3. \A i \in 1 .. 3 : checks[i][2] # "ok"
    BY <1>2
  <1>4. FirstFault(checks) =
              IF c1[1] THEN c1[2] ELSE IF c2[1] THEN c2[2] ELSE IF c3[1] THEN c3[2] ELSE "ok"
    <2>1. \A i \in 1 .. 3 :
             checks[i][1] /\ (\A j \in 1 .. i - 1 : ~checks[j][1]) => FirstFault(checks) = checks[i][2]
      BY <1>2, FirstFaultIsAt
    <2>2. FirstFault(checks) = "ok" <=> \A i \in 1 .. 3 : ~checks[i][1]
      BY <1>2, <1>3, FirstFaultAccepts
    <2> QED BY <1>2, <2>1, <2>2
  <1>5. IsListOfChecks(checks)
    BY <1>2, <1>3 DEF IsListOfChecks
  <1> QED BY <1>1, <1>4, <1>5

LEMMA ListOfFour ==
  ASSUME NEW c1, NEW c2, NEW c3, NEW c4,
         c1[2] # "ok", c2[2] # "ok", c3[2] # "ok", c4[2] # "ok"
  PROVE  /\ IsListOfChecks(<<c1, c2, c3, c4>>)
         /\ FirstFault(<<c1, c2, c3, c4>>) =
              IF c1[1] THEN c1[2] ELSE IF c2[1] THEN c2[2] ELSE IF c3[1] THEN c3[2] ELSE IF c4[1] THEN c4[2] ELSE "ok"
  <1>1. PICK checks : checks = <<c1, c2, c3, c4>>
    OBVIOUS
  <1>2. /\ checks \in Seq({c1, c2, c3, c4}) /\ DOMAIN checks = 1 .. 4
        /\ checks[1] = c1 /\ checks[2] = c2 /\ checks[3] = c3 /\ checks[4] = c4
    BY <1>1
  <1>3. \A i \in 1 .. 4 : checks[i][2] # "ok"
    BY <1>2
  <1>4. FirstFault(checks) =
              IF c1[1] THEN c1[2] ELSE IF c2[1] THEN c2[2] ELSE IF c3[1] THEN c3[2] ELSE IF c4[1] THEN c4[2] ELSE "ok"
    <2>1. \A i \in 1 .. 4 :
             checks[i][1] /\ (\A j \in 1 .. i - 1 : ~checks[j][1]) => FirstFault(checks) = checks[i][2]
      BY <1>2, FirstFaultIsAt
    <2>2. FirstFault(checks) = "ok" <=> \A i \in 1 .. 4 : ~checks[i][1]
      BY <1>2, <1>3, FirstFaultAccepts
    <2> QED BY <1>2, <2>1, <2>2
  <1>5. IsListOfChecks(checks)
    BY <1>2, <1>3 DEF IsListOfChecks
  <1> QED BY <1>1, <1>4, <1>5

LEMMA ListOfSix ==
  ASSUME NEW c1, NEW c2, NEW c3, NEW c4, NEW c5, NEW c6,
         c1[2] # "ok", c2[2] # "ok", c3[2] # "ok", c4[2] # "ok", c5[2] # "ok", c6[2] # "ok"
  PROVE  /\ IsListOfChecks(<<c1, c2, c3, c4, c5, c6>>)
         /\ FirstFault(<<c1, c2, c3, c4, c5, c6>>) =
              IF c1[1] THEN c1[2] ELSE IF c2[1] THEN c2[2] ELSE IF c3[1] THEN c3[2] ELSE IF c4[1] THEN c4[2] ELSE IF c5[1] THEN c5[2] ELSE IF c6[1] THEN c6[2] ELSE "ok"
  <1>1. PICK checks : checks = <<c1, c2, c3, c4, c5, c6>>
    OBVIOUS
  <1>2. /\ checks \in Seq({c1, c2, c3, c4, c5, c6}) /\ DOMAIN checks = 1 .. 6
        /\ checks[1] = c1 /\ checks[2] = c2 /\ checks[3] = c3 /\ checks[4] = c4 /\ checks[5] = c5 /\ checks[6] = c6
    BY <1>1
  <1>3. \A i \in 1 .. 6 : checks[i][2] # "ok"
    BY <1>2
  <1>4. FirstFault(checks) =
              IF c1[1] THEN c1[2] ELSE IF c2[1] THEN c2[2] ELSE IF c3[1] THEN c3[2] ELSE IF c4[1] THEN c4[2] ELSE IF c5[1] THEN c5[2] ELSE IF c6[1] THEN c6[2] ELSE "ok"
    <2>1. \A i \in 1 .. 6 :
             checks[i][1] /\ (\A j \in 1 .. i - 1 : ~checks[j][1]) => FirstFault(checks) = checks[i][2]
      BY <1>2, FirstFaultIsAt
    <2>2. FirstFault(checks) = "ok" <=> \A i \in 1 .. 6 : ~checks[i][1]
      BY <1>2, <1>3, FirstFaultAccepts
    <2> QED BY <1>2, <2>1, <2>2
  <1>5. IsListOfChecks(checks)
    BY <1>2, <1>3 DEF IsListOfChecks
  <1> QED BY <1>1, <1>4, <1>5

\* Which rules of a list are broken.
LEMMA FirstFaultIsBroken ==
  ASSUME NEW checks, IsListOfChecks(checks), FirstFault(checks) # "ok"
  PROVE  Breaks(checks, FirstFault(checks))
  <1>1. PICK n \in Nat : DOMAIN checks = 1 .. n
    BY DEF IsListOfChecks
  <1>2. PICK failing : failing = {i \in DOMAIN checks : checks[i][1]}
    OBVIOUS
  <1>3. failing # {} /\ FirstFault(checks) = checks[Min(failing)][2]
    BY <1>2 DEF FirstFault
  <1>4. Min(failing) \in failing
    <2>1. failing \in SUBSET Nat
      BY <1>1, <1>2
    <2> QED BY <1>3, <2>1, FirstPosition
  <1> QED BY <1>2, <1>3, <1>4 DEF Breaks

LEMMA BrokenInBoth ==
  ASSUME NEW s, NEW t, IsListOfChecks(s), IsListOfChecks(t), NEW both, both = s \o t, NEW code
  PROVE  Breaks(both, code) <=> Breaks(s, code) \/ Breaks(t, code)
  <1>1. PICK S, T : s \in Seq(S) /\ t \in Seq(T)
    BY DEF IsListOfChecks
  <1>2. PICK m, n \in Nat : m = Len(s) /\ n = Len(t)
    BY <1>1
  <1>3. /\ DOMAIN s = 1 .. m /\ DOMAIN t = 1 .. n /\ DOMAIN both = 1 .. m + n
        /\ \A i \in 1 .. m : both[i] = s[i]
        /\ \A i \in 1 .. n : both[m + i] = t[i]
    <2>1. PICK U : U = S \cup T
      OBVIOUS
    <2>2. (\A i \in 1 .. m : s[i] \in U) /\ (\A i \in 1 .. n : t[i] \in U)
      BY <1>1, <1>2, <2>1
    <2>3. s \in Seq(U) /\ t \in Seq(U)
      <3>1. s \in Seq(U)
        BY <1>1, <1>2, <2>2
      <3>2. t \in Seq(U)
        BY <1>1, <1>2, <2>2
      <3> QED BY <3>1, <3>2
    <2> QED BY <1>2, <2>3
  <1>4. ASSUME NEW i \in 1 .. m + n, both[i][1], both[i][2] = code
        PROVE  Breaks(s, code) \/ Breaks(t, code)
    <2>1. CASE i <= m
      <3>1. i \in DOMAIN s /\ both[i] = s[i]
        BY <1>3, <2>1
      <3>2. s[i][1] /\ s[i][2] = code
        BY <1>4, <3>1
      <3> QED BY <3>1, <3>2 DEF Breaks
    <2>2. CASE i > m
      <3>1. PICK k \in 1 .. n : i = m + k
        <4>1. i - m \in 1 .. n /\ i = m + (i - m)
          BY <2>2
        <4> QED BY <4>1
      <3>2. k \in DOMAIN t /\ both[i] = t[k]
        BY <1>3, <3>1
      <3>3. t[k][1] /\ t[k][2] = code
        BY <1>4, <3>2
      <3> QED BY <3>2, <3>3 DEF Breaks
    <2> QED BY <2>1, <2>2
  <1>5. Breaks(s, code) => Breaks(both, code)
    BY <1>3 DEF Breaks
  <1>6. ASSUME NEW i \in 1 .. n, t[i][1], t[i][2] = code
        PROVE  Breaks(both, code)
    <2>1. m + i \in 1 .. m + n
      OBVIOUS
    <2> QED BY <1>3, <1>6, <2>1 DEF Breaks
  <1> QED BY <1>3, <1>4, <1>5, <1>6 DEF Breaks

LEMMA OneRule ==
  ASSUME NEW c1, NEW code
  PROVE  Breaks(<<c1>>, code) <=> (c1[1] /\ c1[2] = code)
  <1>1. PICK checks : checks = <<c1>>
    OBVIOUS
  <1>2. DOMAIN checks = 1 .. 1 /\ checks[1] = c1
    BY <1>1
  <1>3. Breaks(checks, code) <=> (c1[1] /\ c1[2] = code)
    BY <1>2 DEF Breaks
  <1> QED BY <1>1, <1>3

LEMMA TwoRules ==
  ASSUME NEW c1, NEW c2, NEW code
  PROVE  Breaks(<<c1, c2>>, code) <=> (c1[1] /\ c1[2] = code) \/ (c2[1] /\ c2[2] = code)
  <1>1. PICK checks : checks = <<c1, c2>>
    OBVIOUS
  <1>2. DOMAIN checks = 1 .. 2 /\ checks[1] = c1 /\ checks[2] = c2
    BY <1>1
  <1>3. Breaks(checks, code) <=> (c1[1] /\ c1[2] = code) \/ (c2[1] /\ c2[2] = code)
    BY <1>2 DEF Breaks
  <1> QED BY <1>1, <1>3

LEMMA FourRules ==
  ASSUME NEW c1, NEW c2, NEW c3, NEW c4, NEW code
  PROVE  Breaks(<<c1, c2, c3, c4>>, code) <=> \/ c1[1] /\ c1[2] = code
                                              \/ c2[1] /\ c2[2] = code
                                              \/ c3[1] /\ c3[2] = code
                                              \/ c4[1] /\ c4[2] = code
  <1>1. PICK checks : checks = <<c1, c2, c3, c4>>
    OBVIOUS
  <1>2. DOMAIN checks = 1 .. 4 /\ checks[1] = c1 /\ checks[2] = c2 /\ checks[3] = c3 /\ checks[4] = c4
    BY <1>1
  <1>3. Breaks(checks, code) <=> \/ c1[1] /\ c1[2] = code
                                 \/ c2[1] /\ c2[2] = code
                                 \/ c3[1] /\ c3[2] = code
                                 \/ c4[1] /\ c4[2] = code
    BY <1>2 DEF Breaks
  <1> QED BY <1>1, <1>3

LEMMA SixRules ==
  ASSUME NEW c1, NEW c2, NEW c3, NEW c4, NEW c5, NEW c6, NEW code
  PROVE  Breaks(<<c1, c2, c3, c4, c5, c6>>, code) <=> \/ c1[1] /\ c1[2] = code
                                                      \/ c2[1] /\ c2[2] = code
                                                      \/ c3[1] /\ c3[2] = code
                                                      \/ c4[1] /\ c4[2] = code
                                                      \/ c5[1] /\ c5[2] = code
                                                      \/ c6[1] /\ c6[2] = code
  <1>1. PICK checks : checks = <<c1, c2, c3, c4, c5, c6>>
    OBVIOUS
  <1>2. DOMAIN checks = 1 .. 6 /\ checks[1] = c1 /\ checks[2] = c2 /\ checks[3] = c3 /\ checks[4] = c4 /\ checks[5] = c5 /\ checks[6] = c6
    BY <1>1
  <1>3. Breaks(checks, code) <=> \/ c1[1] /\ c1[2] = code
                                 \/ c2[1] /\ c2[2] = code
                                 \/ c3[1] /\ c3[2] = code
                                 \/ c4[1] /\ c4[2] = code
                                 \/ c5[1] /\ c5[2] = code
                                 \/ c6[1] /\ c6[2] = code
    BY <1>2 DEF Breaks
  <1> QED BY <1>1, <1>3
=============================================================================
