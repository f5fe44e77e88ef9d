----------------------------- MODULE WorkerProofs -----------------------------
(***************************************************************************)
(* Theorems about what stands before the synthesis worker: the gate it is  *)
(* started through, for any set of distributions, versions, commits and    *)
(* directives and a lockfile of any length, and the two readers of a       *)
(* request frame, for every frame they tell apart.                         *)
(*                                                                         *)
(* The lockfile scanner keeps four locals and forgets the lines.  The      *)
(* invariant says what the locals know of the lines that have been read,   *)
(* and, once a line has been refused, which fault in them no further line  *)
(* can mend.                                                               *)
(***************************************************************************)
EXTENDS WorkerGate, WorkerProtocol, ChecksProofs

-----------------------------------------------------------------------------
(* The lockfile. *)

ScanState ==
    [pins : Seq(LockedDistribution), pending : Commits \cup {NoCommit}, governed : BOOLEAN,
     seen : SUBSET Directives, refused : BOOLEAN]

IsDirective(line, d) == line.kind = "directive" /\ line.text = d

\* Each directive that was read is seen, and was read once.
DirectivesAreSeen(lines, seen) ==
    /\ \A i \in DOMAIN lines : lines[i].kind = "directive" => lines[i].text \in seen
    /\ \A d \in seen : \E i \in DOMAIN lines : IsDirective(lines[i], d)
    /\ \A d \in Directives : \A i, j \in DOMAIN lines :
          IsDirective(lines[i], d) /\ IsDirective(lines[j], d) => i = j

\* A marker stands before the governed pin, which is read once, or is the last line.
MarkersArePending(lines, scan) ==
    /\ scan.governed <=> \E i \in DOMAIN lines : IsGovernedPin(lines[i])
    /\ \A i, j \in DOMAIN lines : IsGovernedPin(lines[i]) /\ IsGovernedPin(lines[j]) => i = j
    /\ \A i \in DOMAIN lines : IsGovernedPin(lines[i]) => i > 1 /\ IsMarker(lines[i - 1])
    /\ \A i \in DOMAIN lines : IsMarker(lines[i]) => i = Len(lines) \/ IsGovernedPin(lines[i + 1])
    /\ scan.pending = IF lines # <<>> /\ IsMarker(lines[Len(lines)]) THEN lines[Len(lines)].commit ELSE NoCommit

\* What the scanner knows of the lines it has read.
ReadsTheLines(lines, scan) ==
    /\ \A i \in DOMAIN lines : WellFormedLine(lines[i])
    /\ DirectivesAreSeen(lines, scan.seen)
    /\ MarkersArePending(lines, scan)
    /\ ArePinsOf(scan.pins, lines)

\* A fault no further line can mend: a line that is wrong by itself, a directive or a
\* governed pin for the second time, a marker before anything else than the governed
\* pin, and a governed pin after anything else than a marker.
IsBeyondMending(lines) ==
    \/ \E i \in DOMAIN lines : ~WellFormedLine(lines[i])
    \/ \E i, j \in DOMAIN lines :
          /\ i # j
          /\ \/ IsGovernedPin(lines[i]) /\ IsGovernedPin(lines[j])
             \/ \E d \in Directives : IsDirective(lines[i], d) /\ IsDirective(lines[j], d)
    \/ \E i \in DOMAIN lines : i < Len(lines) /\ IsMarker(lines[i]) /\ ~IsGovernedPin(lines[i + 1])
    \/ \E i \in DOMAIN lines : IsGovernedPin(lines[i]) /\ (i = 1 \/ ~IsMarker(lines[i - 1]))

ScanIsTrue(lines, scan) ==
    IF scan.refused THEN IsBeyondMending(lines) ELSE ReadsTheLines(lines, scan)

GateTypeOK ==
    /\ gate = [step |-> gate.step, manifest |-> gate.manifest, lines |-> gate.lines, scan |-> gate.scan,
               found |-> gate.found, outcome |-> gate.outcome]
    /\ gate.lines \in Seq(LockLine) /\ gate.scan \in ScanState

LockfileInv ==
    /\ gate.step = "manifest" => gate.lines = <<>> /\ gate.scan = EmptyScan
    /\ gate.step = "lock" => ScanIsTrue(gate.lines, gate.scan)

GateInv == GateTypeOK /\ LockfileInv /\ GatesProveTheWorker

-----------------------------------------------------------------------------
(* One more line. *)

LEMMA OneMoreLine ==
  ASSUME NEW lines \in Seq(LockLine), NEW line \in LockLine, NEW longer, longer = Append(lines, line)
  PROVE  /\ longer \in Seq(LockLine) /\ Len(longer) = Len(lines) + 1
         /\ DOMAIN longer = 1 .. Len(lines) + 1 /\ DOMAIN lines = 1 .. Len(lines) /\ Len(lines) \in Nat
         /\ longer[Len(lines) + 1] = line
         /\ \A i \in 1 .. Len(lines) : longer[i] = lines[i]
  OBVIOUS

LEMMA NoLines ==
  ASSUME NEW scan, scan = EmptyScan
  PROVE  ReadsTheLines(<<>>, scan)
  <1>1. scan.seen = {} /\ scan.pending = NoCommit /\ scan.governed = FALSE /\ scan.pins = <<>>
    BY DEF EmptyScan
  <1>2. PICK none : none = <<>>
    OBVIOUS
  <1>3. DOMAIN none = {}
    BY <1>2
  <1>4. DirectivesAreSeen(none, scan.seen)
    BY <1>1, <1>3 DEF DirectivesAreSeen
  <1>5. MarkersArePending(none, scan)
    BY <1>1, <1>2, <1>3 DEF MarkersArePending
  <1>6. ArePinsOf(scan.pins, none)
    <2>1. none \in [DOMAIN scan.pins -> DOMAIN none]
      BY <1>1, <1>2
    <2>2. DOMAIN scan.pins = {}
      BY <1>1
    <2> QED BY <1>3, <2>1, <2>2 DEF ArePinsOf
  <1> QED BY <1>2, <1>3, <1>4, <1>5, <1>6 DEF ReadsTheLines

\* A fault stays where it is.
LEMMA FaultsStay ==
  ASSUME NEW lines \in Seq(LockLine), NEW line \in LockLine, IsBeyondMending(lines)
  PROVE  IsBeyondMending(Append(lines, line))
  <1>1. PICK longer : longer = Append(lines, line)
    OBVIOUS
  <1>2. PICK n \in Nat : n = Len(lines)
    OBVIOUS
  <1>3. /\ DOMAIN lines = 1 .. n /\ DOMAIN longer = 1 .. n + 1 /\ Len(longer) = n + 1
        /\ \A i \in 1 .. n : longer[i] = lines[i]
    BY <1>1, <1>2, OneMoreLine
  <1>4. CASE \E i \in DOMAIN lines : ~WellFormedLine(lines[i])
    BY <1>3, <1>4 DEF IsBeyondMending
  <1>5. ASSUME NEW i \in DOMAIN lines, NEW j \in DOMAIN lines, i # j,
               \/ IsGovernedPin(lines[i]) /\ IsGovernedPin(lines[j])
               \/ \E d \in Directives : IsDirective(lines[i], d) /\ IsDirective(lines[j], d)
        PROVE  IsBeyondMending(longer)
    <2>1. i \in DOMAIN longer /\ j \in DOMAIN longer /\ longer[i] = lines[i] /\ longer[j] = lines[j]
      BY <1>3
    <2> QED BY <1>5, <2>1 DEF IsBeyondMending
  <1>6. ASSUME NEW i \in DOMAIN lines, i < n, IsMarker(lines[i]), ~IsGovernedPin(lines[i + 1])
        PROVE  IsBeyondMending(longer)
    <2>1. i \in DOMAIN longer /\ i < Len(longer) /\ longer[i] = lines[i] /\ longer[i + 1] = lines[i + 1]
      BY <1>3, <1>6
    <2> QED BY <1>6, <2>1 DEF IsBeyondMending
  <1>7. ASSUME NEW i \in DOMAIN lines, IsGovernedPin(lines[i]), i = 1 \/ ~IsMarker(lines[i - 1])
        PROVE  IsBeyondMending(longer)
    <2>1. i \in DOMAIN longer /\ longer[i] = lines[i] /\ (i = 1 \/ longer[i - 1] = lines[i - 1])
      BY <1>3
    <2> QED BY <1>7, <2>1 DEF IsBeyondMending
  <1>8. IsBeyondMending(longer)
    BY <1>2, <1>4, <1>1, <1>5, <1>6, <1>7 DEF IsBeyondMending
  <1> QED BY <1>1, <1>8

\* ... and a lockfile with one is not well formed.
LEMMA FaultsRefuse ==
  ASSUME NEW lines \in Seq(LockLine), IsBeyondMending(lines)
  PROVE  ~WellFormedLock(lines)
  <1>1. SUFFICES ASSUME WellFormedLock(lines)
                 PROVE  FALSE
    OBVIOUS
  <1>2. PICK n \in Nat : n = Len(lines) /\ DOMAIN lines = 1 .. n
    OBVIOUS
  <1>3. \A i \in DOMAIN lines : WellFormedLine(lines[i])
    BY <1>1 DEF WellFormedLock
  <1>4. PICK p \in 2 .. n : /\ \A j \in DOMAIN lines : IsGovernedPin(lines[j]) <=> j = p
                            /\ \A j \in DOMAIN lines : IsMarker(lines[j]) <=> j = p - 1
    BY <1>1, <1>2 DEF WellFormedLock
  <1>5. \A d \in Directives : \A i, j \in DOMAIN lines :
           IsDirective(lines[i], d) /\ IsDirective(lines[j], d) => i = j
    BY <1>1 DEF WellFormedLock, IsDirective
  <1>6. \A i \in DOMAIN lines : i < n /\ IsMarker(lines[i]) => IsGovernedPin(lines[i + 1])
    BY <1>2, <1>4
  <1>7. \A i \in DOMAIN lines : IsGovernedPin(lines[i]) => i # 1 /\ IsMarker(lines[i - 1])
    BY <1>2, <1>4
  <1> QED BY <1>2, <1>3, <1>4, <1>5, <1>6, <1>7 DEF IsBeyondMending

-----------------------------------------------------------------------------
(* What the scanner learns from a line. *)

IsOneLonger(longer, lines) ==
    /\ Len(lines) \in Nat /\ DOMAIN lines = 1 .. Len(lines)
    /\ Len(longer) = Len(lines) + 1 /\ DOMAIN longer = 1 .. Len(lines) + 1
    /\ \A i \in 1 .. Len(lines) : longer[i] = lines[i]

LEMMA OneLonger ==
  ASSUME NEW lines \in Seq(LockLine), NEW line \in LockLine, NEW longer, longer = Append(lines, line)
  PROVE  IsOneLonger(longer, lines) /\ longer[Len(lines) + 1] = line
  BY OneMoreLine DEF IsOneLonger

LEMMA NoDirective ==
  ASSUME NEW lines, NEW longer, IsOneLonger(longer, lines), NEW seen, DirectivesAreSeen(lines, seen),
         longer[Len(lines) + 1].kind # "directive"
  PROVE  DirectivesAreSeen(longer, seen)
  <1>1. PICK n \in Nat : n = Len(lines)
    BY DEF IsOneLonger
  <1>2. /\ DOMAIN lines = 1 .. n /\ DOMAIN longer = 1 .. n + 1
        /\ \A i \in 1 .. n : longer[i] = lines[i]
        /\ longer[n + 1].kind # "directive"
    BY <1>1 DEF IsOneLonger
  <1>3. \A i \in DOMAIN longer : longer[i].kind = "directive" => longer[i].text \in seen
    BY <1>2 DEF DirectivesAreSeen
  <1>4. \A d \in seen : \E i \in DOMAIN longer : IsDirective(longer[i], d)
    BY <1>2 DEF DirectivesAreSeen
  <1>5. \A d : \A i \in DOMAIN longer : IsDirective(longer[i], d) => i \in 1 .. n
    BY <1>2 DEF IsDirective
  <1>6. \A d \in Directives : \A i, j \in DOMAIN longer :
           IsDirective(longer[i], d) /\ IsDirective(longer[j], d) => i = j
    BY <1>2, <1>5 DEF DirectivesAreSeen
  <1> QED BY <1>3, <1>4, <1>6 DEF DirectivesAreSeen

LEMMA NewDirective ==
  ASSUME NEW lines, NEW longer, IsOneLonger(longer, lines), NEW seen, DirectivesAreSeen(lines, seen),
         NEW text, text \notin seen, IsDirective(longer[Len(lines) + 1], text)
  PROVE  DirectivesAreSeen(longer, seen \cup {text})
  <1>1. PICK n \in Nat : n = Len(lines)
    BY DEF IsOneLonger
  <1>2. /\ DOMAIN lines = 1 .. n /\ DOMAIN longer = 1 .. n + 1
        /\ \A i \in 1 .. n : longer[i] = lines[i]
        /\ longer[n + 1].kind = "directive" /\ longer[n + 1].text = text
    BY <1>1 DEF IsOneLonger, IsDirective
  <1>3. \A i \in DOMAIN longer : longer[i].kind = "directive" => longer[i].text \in seen \cup {text}
    BY <1>2 DEF DirectivesAreSeen
  <1>4. \A d \in seen \cup {text} : \E i \in DOMAIN longer : IsDirective(longer[i], d)
    <2>1. IsDirective(longer[n + 1], text) /\ n + 1 \in DOMAIN longer
      BY <1>2 DEF IsDirective
    <2>2. \A d \in seen : \E i \in 1 .. n : IsDirective(longer[i], d)
      BY <1>2 DEF DirectivesAreSeen
    <2> QED BY <1>2, <2>1, <2>2
  <1>5. \A i \in 1 .. n : ~IsDirective(longer[i], text)
    BY <1>2 DEF DirectivesAreSeen, IsDirective
  <1>6. \A d : IsDirective(longer[n + 1], d) => d = text
    BY <1>2 DEF IsDirective
  <1>7. \A d \in Directives : \A i, j \in 1 .. n :
           IsDirective(longer[i], d) /\ IsDirective(longer[j], d) => i = j
    BY <1>2 DEF DirectivesAreSeen
  <1>8. \A d \in Directives : \A i, j \in DOMAIN longer :
           IsDirective(longer[i], d) /\ IsDirective(longer[j], d) => i = j
    BY <1>2, <1>5, <1>6, <1>7
  <1> QED BY <1>3, <1>4, <1>8 DEF DirectivesAreSeen

LEMMA NoPin ==
  ASSUME NEW lines, NEW longer, IsOneLonger(longer, lines), NEW pins, ArePinsOf(pins, lines),
         longer[Len(lines) + 1].kind # "pin", \A i \in DOMAIN lines : IsGovernedPin(lines[i]) => i > 1
  PROVE  ArePinsOf(pins, longer)
  <1>1. PICK n \in Nat : n = Len(lines)
    BY DEF IsOneLonger
  <1>2. /\ DOMAIN lines = 1 .. n /\ DOMAIN longer = 1 .. n + 1
        /\ \A i \in 1 .. n : longer[i] = lines[i]
        /\ longer[n + 1].kind # "pin"
    BY <1>1 DEF IsOneLonger
  <1>3. PICK places \in [DOMAIN pins -> DOMAIN lines] :
           /\ \A j, k \in DOMAIN pins : j < k => places[j] < places[k]
           /\ \A i \in DOMAIN lines : lines[i].kind = "pin" <=> \E k \in DOMAIN pins : places[k] = i
           /\ \A k \in DOMAIN pins : pins[k] = PinAt(lines, places[k])
    BY DEF ArePinsOf
  <1>4. places \in [DOMAIN pins -> DOMAIN longer]
    BY <1>2, <1>3
  <1>5. \A i \in DOMAIN longer : longer[i].kind = "pin" <=> \E k \in DOMAIN pins : places[k] = i
    BY <1>2, <1>3
  <1>6. \A i \in 1 .. n : PinAt(longer, i) = PinAt(lines, i)
    BY <1>2 DEF PinAt
  <1>7. \A k \in DOMAIN pins : pins[k] = PinAt(longer, places[k])
    BY <1>2, <1>3, <1>6
  <1> QED BY <1>3, <1>4, <1>5, <1>7 DEF ArePinsOf

LEMMA OnePin ==
  ASSUME NEW lines, NEW longer, IsOneLonger(longer, lines),
         NEW pins \in Seq(LockedDistribution), ArePinsOf(pins, lines),
         NEW pin \in LockedDistribution, pin = PinAt(longer, Len(lines) + 1),
         longer[Len(lines) + 1].kind = "pin", \A i \in DOMAIN lines : IsGovernedPin(lines[i]) => i > 1
  PROVE  ArePinsOf(Append(pins, pin), longer)
  <1>1. PICK n \in Nat : n = Len(lines)
    BY DEF IsOneLonger
  <1>2. /\ DOMAIN lines = 1 .. n /\ DOMAIN longer = 1 .. n + 1
        /\ \A i \in 1 .. n : longer[i] = lines[i]
        /\ longer[n + 1].kind = "pin" /\ pin = PinAt(longer, n + 1)
    BY <1>1 DEF IsOneLonger
  <1>3. PICK m \in Nat : m = Len(pins)
    OBVIOUS
  <1>4. PICK more : more = Append(pins, pin)
    OBVIOUS
  <1>5. /\ DOMAIN pins = 1 .. m /\ DOMAIN more = 1 .. m + 1 /\ more[m + 1] = pin
        /\ \A k \in 1 .. m : more[k] = pins[k]
    BY <1>3, <1>4
  <1>6. PICK places \in [DOMAIN pins -> DOMAIN lines] :
           /\ \A j, k \in DOMAIN pins : j < k => places[j] < places[k]
           /\ \A i \in DOMAIN lines : lines[i].kind = "pin" <=> \E k \in DOMAIN pins : places[k] = i
           /\ \A k \in DOMAIN pins : pins[k] = PinAt(lines, places[k])
    BY DEF ArePinsOf
  <1>7. PICK where : where = [k \in 1 .. m + 1 |-> IF k = m + 1 THEN n + 1 ELSE places[k]]
    OBVIOUS
  <1>8. \A k \in 1 .. m : where[k] = places[k] /\ places[k] \in 1 .. n
    BY <1>2, <1>5, <1>6, <1>7
  <1>9. where[m + 1] = n + 1
    BY <1>7
  <1>10. where \in [DOMAIN more -> DOMAIN longer]
    <2>1. \A k \in 1 .. m + 1 : where[k] \in 1 .. n + 1
      BY <1>8, <1>9
    <2> QED BY <1>2, <1>5, <1>7, <2>1
  <1>11. \A j, k \in DOMAIN more : j < k => where[j] < where[k]
    <2>1. SUFFICES ASSUME NEW j \in 1 .. m + 1, NEW k \in 1 .. m + 1, j < k
                   PROVE  where[j] < where[k]
      BY <1>5
    <2>2. j \in 1 .. m /\ where[j] = places[j] /\ places[j] \in 1 .. n
      BY <1>8, <2>1
    <2>3. CASE k = m + 1
      BY <1>9, <2>2, <2>3
    <2>4. CASE k \in 1 .. m
      <3>1. places[j] < places[k]
        BY <1>5, <1>6, <2>1, <2>2, <2>4
      <3> QED BY <1>8, <2>2, <2>4, <3>1
    <2> QED BY <2>1, <2>3, <2>4
  <1>12. \A i \in DOMAIN longer : longer[i].kind = "pin" <=> \E k \in DOMAIN more : where[k] = i
    <2>1. TAKE i \in DOMAIN longer
    <2>2. CASE i = n + 1
      BY <1>2, <1>5, <1>9, <2>2
    <2>3. CASE i \in 1 .. n
      <3>1. longer[i].kind = "pin" <=> \E k \in 1 .. m : places[k] = i
        BY <1>2, <1>5, <1>6, <2>3
      <3>2. (\E k \in 1 .. m : places[k] = i) <=> \E k \in 1 .. m + 1 : where[k] = i
        BY <1>8, <1>9, <2>3
      <3> QED BY <1>5, <3>1, <3>2
    <2> QED BY <1>2, <2>2, <2>3
  <1>13. \A i \in 1 .. n : PinAt(longer, i) = PinAt(lines, i)
    BY <1>2 DEF PinAt
  <1>14. \A k \in DOMAIN more : more[k] = PinAt(longer, where[k])
    <2>1. TAKE k \in DOMAIN more
    <2>2. CASE k = m + 1
      BY <1>2, <1>5, <1>9, <2>2
    <2>3. CASE k \in 1 .. m
      BY <1>5, <1>6, <1>8, <1>13, <2>3
    <2> QED BY <1>5, <2>2, <2>3
  <1>15. ArePinsOf(more, longer)
    BY <1>10, <1>11, <1>12, <1>14 DEF ArePinsOf
  <1> QED BY <1>4, <1>15

\* A line that is neither a marker nor the governed pin, when no marker waits.
LEMMA PlainLine ==
  ASSUME NEW lines, NEW longer, IsOneLonger(longer, lines), NEW scan, NEW after,
         \A i \in DOMAIN lines : WellFormedLine(lines[i]), MarkersArePending(lines, scan),
         scan.pending = NoCommit, after.pending = NoCommit, after.governed = scan.governed,
         ~IsMarker(longer[Len(lines) + 1]), ~IsGovernedPin(longer[Len(lines) + 1]), Len(lines) > 0 => lines # <<>>
  PROVE  MarkersArePending(longer, after)
  <1>1. PICK n \in Nat : n = Len(lines)
    BY DEF IsOneLonger
  <1>2. /\ DOMAIN lines = 1 .. n /\ DOMAIN longer = 1 .. n + 1 /\ Len(longer) = n + 1
        /\ \A i \in 1 .. n : longer[i] = lines[i]
        /\ ~IsMarker(longer[n + 1]) /\ ~IsGovernedPin(longer[n + 1])
    BY <1>1 DEF IsOneLonger
  <1>3. n > 0 => ~IsMarker(lines[n])
    <2>1. SUFFICES ASSUME n > 0, IsMarker(lines[n])
                   PROVE  FALSE
      OBVIOUS
    <2>2. lines[n].commit = NoCommit
      BY <1>1, <2>1 DEF MarkersArePending
    <2>3. WellFormedLine(lines[n])
      BY <1>2, <2>1
    <2> QED BY <2>1, <2>2, <2>3 DEF WellFormedLine
  <1>4. /\ scan.governed <=> \E i \in 1 .. n : IsGovernedPin(lines[i])
        /\ \A i, j \in 1 .. n : IsGovernedPin(lines[i]) /\ IsGovernedPin(lines[j]) => i = j
        /\ \A i \in 1 .. n : IsGovernedPin(lines[i]) => i > 1 /\ IsMarker(lines[i - 1])
        /\ \A i \in 1 .. n : IsMarker(lines[i]) => i = n \/ IsGovernedPin(lines[i + 1])
    BY <1>1, <1>2 DEF MarkersArePending
  <1>5. after.governed <=> \E i \in DOMAIN longer : IsGovernedPin(longer[i])
    BY <1>2, <1>4
  <1>6. \A i, j \in DOMAIN longer : IsGovernedPin(longer[i]) /\ IsGovernedPin(longer[j]) => i = j
    BY <1>2, <1>4
  <1>7. \A i \in DOMAIN longer : IsGovernedPin(longer[i]) => i > 1 /\ IsMarker(longer[i - 1])
    BY <1>2, <1>4
  <1>8. \A i \in DOMAIN longer : IsMarker(longer[i]) => i = Len(longer) \/ IsGovernedPin(longer[i + 1])
    BY <1>2, <1>3, <1>4
  <1>9. after.pending = IF longer # <<>> /\ IsMarker(longer[Len(longer)]) THEN longer[Len(longer)].commit ELSE NoCommit
    BY <1>2
  <1> QED BY <1>5, <1>6, <1>7, <1>8, <1>9 DEF MarkersArePending

\* A marker, when none waits.
LEMMA NewMarker ==
  ASSUME NEW lines, NEW longer, IsOneLonger(longer, lines), NEW scan, NEW after,
         \A i \in DOMAIN lines : WellFormedLine(lines[i]), MarkersArePending(lines, scan),
         scan.pending = NoCommit, after.pending = longer[Len(lines) + 1].commit,
         after.governed = scan.governed, IsMarker(longer[Len(lines) + 1]),
         Len(lines) > 0 => lines # <<>>, longer # <<>>
  PROVE  MarkersArePending(longer, after)
  <1>1. PICK n \in Nat : n = Len(lines)
    BY DEF IsOneLonger
  <1>2. /\ DOMAIN lines = 1 .. n /\ DOMAIN longer = 1 .. n + 1 /\ Len(longer) = n + 1
        /\ \A i \in 1 .. n : longer[i] = lines[i]
        /\ IsMarker(longer[n + 1]) /\ ~IsGovernedPin(longer[n + 1])
    BY <1>1 DEF IsOneLonger, IsMarker, IsGovernedPin
  <1>3. n > 0 => ~IsMarker(lines[n])
    <2>1. SUFFICES ASSUME n > 0, IsMarker(lines[n])
                   PROVE  FALSE
      OBVIOUS
    <2>2. lines[n].commit = NoCommit
      BY <1>1, <2>1 DEF MarkersArePending
    <2>3. WellFormedLine(lines[n])
      BY <1>2, <2>1
    <2> QED BY <2>1, <2>2, <2>3 DEF WellFormedLine
  <1>4. /\ scan.governed <=> \E i \in 1 .. n : IsGovernedPin(lines[i])
        /\ \A i, j \in 1 .. n : IsGovernedPin(lines[i]) /\ IsGovernedPin(lines[j]) => i = j
        /\ \A i \in 1 .. n : IsGovernedPin(lines[i]) => i > 1 /\ IsMarker(lines[i - 1])
        /\ \A i \in 1 .. n : IsMarker(lines[i]) => i = n \/ IsGovernedPin(lines[i + 1])
    BY <1>1, <1>2 DEF MarkersArePending
  <1>5. after.governed <=> \E i \in DOMAIN longer : IsGovernedPin(longer[i])
    BY <1>2, <1>4
  <1>6. \A i, j \in DOMAIN longer : IsGovernedPin(longer[i]) /\ IsGovernedPin(longer[j]) => i = j
    BY <1>2, <1>4
  <1>7. \A i \in DOMAIN longer : IsGovernedPin(longer[i]) => i > 1 /\ IsMarker(longer[i - 1])
    BY <1>2, <1>4
  <1>8. \A i \in DOMAIN longer : IsMarker(longer[i]) => i = Len(longer) \/ IsGovernedPin(longer[i + 1])
    BY <1>2, <1>3, <1>4
  <1>9. after.pending = IF longer # <<>> /\ IsMarker(longer[Len(longer)]) THEN longer[Len(longer)].commit ELSE NoCommit
    BY <1>1, <1>2
  <1> QED BY <1>5, <1>6, <1>7, <1>8, <1>9 DEF MarkersArePending

\* The governed pin, for the first time, when a marker waits.
LEMMA GovernedPin ==
  ASSUME NEW lines, NEW longer, IsOneLonger(longer, lines), NEW scan, NEW after,
         MarkersArePending(lines, scan), scan.pending # NoCommit, ~scan.governed,
         after.pending = NoCommit, after.governed = TRUE, IsGovernedPin(longer[Len(lines) + 1]),
         Len(lines) = 0 => lines = <<>>
  PROVE  MarkersArePending(longer, after) /\ PinAt(longer, Len(lines) + 1).commit = scan.pending
  <1>1. PICK n \in Nat : n = Len(lines)
    BY DEF IsOneLonger
  <1>2. /\ DOMAIN lines = 1 .. n /\ DOMAIN longer = 1 .. n + 1 /\ Len(longer) = n + 1
        /\ \A i \in 1 .. n : longer[i] = lines[i]
        /\ ~IsMarker(longer[n + 1]) /\ IsGovernedPin(longer[n + 1])
    BY <1>1 DEF IsOneLonger, IsMarker, IsGovernedPin
  <1>3. n > 0 /\ IsMarker(lines[n]) /\ lines[n].commit = scan.pending
    BY <1>1 DEF MarkersArePending
  <1>4. /\ \A i \in 1 .. n : ~IsGovernedPin(lines[i])
        /\ \A i \in 1 .. n : IsMarker(lines[i]) => i = n \/ IsGovernedPin(lines[i + 1])
    BY <1>1, <1>2 DEF MarkersArePending
  <1>5. after.governed <=> \E i \in DOMAIN longer : IsGovernedPin(longer[i])
    BY <1>2
  <1>6. \A i, j \in DOMAIN longer : IsGovernedPin(longer[i]) /\ IsGovernedPin(longer[j]) => i = j
    BY <1>2, <1>4
  <1>7. \A i \in DOMAIN longer : IsGovernedPin(longer[i]) => i > 1 /\ IsMarker(longer[i - 1])
    BY <1>2, <1>3, <1>4
  <1>8. \A i \in DOMAIN longer : IsMarker(longer[i]) => i = Len(longer) \/ IsGovernedPin(longer[i + 1])
    BY <1>2, <1>3, <1>4
  <1>9. after.pending = IF longer # <<>> /\ IsMarker(longer[Len(longer)]) THEN longer[Len(longer)].commit ELSE NoCommit
    BY <1>2
  <1>10. longer[n + 1 - 1] = lines[n]
    BY <1>2, <1>3
  <1> QED BY <1>1, <1>2, <1>3, <1>5, <1>6, <1>7, <1>8, <1>9, <1>10 DEF MarkersArePending, PinAt

LEMMA LinesAreEmpty ==
  ASSUME NEW lines \in Seq(LockLine)
  PROVE  Len(lines) = 0 <=> lines = <<>>
  OBVIOUS

\* What the scanner refuses is beyond mending: a line that is wrong by itself, ...
LEMMA WrongLine ==
  ASSUME NEW lines, NEW longer, IsOneLonger(longer, lines), ~WellFormedLine(longer[Len(lines) + 1])
  PROVE  IsBeyondMending(longer)
  BY DEF IsOneLonger, IsBeyondMending

\* ... another line than the governed pin while a marker waits, ...
LEMMA MarkerIsLost ==
  ASSUME NEW lines, NEW longer, IsOneLonger(longer, lines), NEW scan, MarkersArePending(lines, scan),
         scan.pending # NoCommit, ~IsGovernedPin(longer[Len(lines) + 1]), Len(lines) = 0 => lines = <<>>
  PROVE  IsBeyondMending(longer)
  <1>1. PICK n \in Nat : n = Len(lines)
    BY DEF IsOneLonger
  <1>2. n > 0 /\ IsMarker(lines[n])
    BY <1>1 DEF MarkersArePending
  <1>3. n \in DOMAIN longer /\ n < Len(longer) /\ longer[n] = lines[n]
    BY <1>1, <1>2 DEF IsOneLonger
  <1> QED BY <1>1, <1>2, <1>3 DEF IsBeyondMending

\* ... the governed pin while none waits, ...
LEMMA MarkerIsMissing ==
  ASSUME NEW lines, NEW longer, IsOneLonger(longer, lines), NEW scan, MarkersArePending(lines, scan),
         \A i \in DOMAIN lines : WellFormedLine(lines[i]),
         scan.pending = NoCommit, IsGovernedPin(longer[Len(lines) + 1]), Len(lines) > 0 => lines # <<>>
  PROVE  IsBeyondMending(longer)
  <1>1. PICK n \in Nat : n = Len(lines)
    BY DEF IsOneLonger
  <1>2. n > 0 => ~IsMarker(lines[n])
    <2>1. SUFFICES ASSUME n > 0, IsMarker(lines[n])
                   PROVE  FALSE
      OBVIOUS
    <2>2. lines[n].commit = NoCommit
      BY <1>1, <2>1 DEF MarkersArePending
    <2>3. WellFormedLine(lines[n])
      BY <1>1, <2>1 DEF IsOneLonger
    <2> QED BY <2>1, <2>2, <2>3 DEF WellFormedLine
  <1>3. /\ n + 1 \in DOMAIN longer
        /\ n > 0 => longer[n + 1 - 1] = lines[n]
    BY <1>1 DEF IsOneLonger
  <1>4. n + 1 = 1 \/ ~IsMarker(longer[n + 1 - 1])
    BY <1>2, <1>3
  <1> QED BY <1>1, <1>3, <1>4 DEF IsBeyondMending

\* ... and the governed pin or a directive for the second time.
LEMMA SecondTime ==
  ASSUME NEW lines, NEW longer, IsOneLonger(longer, lines), NEW i \in DOMAIN lines,
         \/ IsGovernedPin(lines[i]) /\ IsGovernedPin(longer[Len(lines) + 1])
         \/ \E d \in Directives : IsDirective(lines[i], d) /\ IsDirective(longer[Len(lines) + 1], d)
  PROVE  IsBeyondMending(longer)
  <1>1. PICK n \in Nat : n = Len(lines)
    BY DEF IsOneLonger
  <1>2. i \in DOMAIN longer /\ n + 1 \in DOMAIN longer /\ i # n + 1 /\ longer[i] = lines[i]
    BY <1>1 DEF IsOneLonger
  <1> QED BY <1>1, <1>2 DEF IsBeyondMending

\* One step of the scanner.
LEMMA LineIsScanned ==
  ASSUME NEW lines \in Seq(LockLine), NEW line \in LockLine, NEW scan \in ScanState,
         ~scan.refused, ReadsTheLines(lines, scan), NEW after, after = ScanLine(scan, line)
  PROVE  after \in ScanState /\ ScanIsTrue(Append(lines, line), after)
  <1>1. PICK longer : longer = Append(lines, line)
    OBVIOUS
  <1>2. IsOneLonger(longer, lines) /\ longer[Len(lines) + 1] = line
    BY <1>1, OneLonger
  <1>3. /\ Len(lines) > 0 => lines # <<>>
        /\ Len(lines) = 0 => lines = <<>>
    BY LinesAreEmpty
  <1>4. longer # <<>>
    BY <1>2 DEF IsOneLonger
  <1>5. /\ \A i \in DOMAIN lines : WellFormedLine(lines[i])
        /\ DirectivesAreSeen(lines, scan.seen)
        /\ MarkersArePending(lines, scan)
        /\ ArePinsOf(scan.pins, lines)
    BY DEF ReadsTheLines
  <1>6. \A i \in DOMAIN lines : IsGovernedPin(lines[i]) => i > 1
    BY <1>5 DEF MarkersArePending
  <1>7. WellFormedLine(line) => \A i \in DOMAIN longer : WellFormedLine(longer[i])
    BY <1>2, <1>5 DEF IsOneLonger
  <1>8. /\ scan.pins \in Seq(LockedDistribution) /\ scan.pending \in Commits \cup {NoCommit}
        /\ scan.governed \in BOOLEAN /\ scan.seen \in SUBSET Directives
    BY DEF ScanState
  <1>9. /\ Refuse(scan) \in ScanState /\ Refuse(scan).refused
    BY DEF Refuse, ScanState
  <1>10. ASSUME after = Refuse(scan), IsBeyondMending(longer)
         PROVE  after \in ScanState /\ ScanIsTrue(longer, after)
    BY <1>9, <1>10 DEF ScanIsTrue
  <1>11. ASSUME after \in ScanState, ~after.refused, ReadsTheLines(longer, after)
         PROVE  after \in ScanState /\ ScanIsTrue(longer, after)
    BY <1>11 DEF ScanIsTrue
  <1>12. CASE line.kind = "marker"
    <2>1. after = MarkerLine(scan, line)
      BY <1>12 DEF ScanLine
    <2>2. IsMarker(line) /\ ~IsGovernedPin(line) /\ line.commit \in Commits \cup {NoCommit}
      BY <1>12 DEF IsMarker, IsGovernedPin, LockLine, Blank, Malformed, Directive, Marker, Pin
    <2>3. CASE line.commit = NoCommit
      <3>1. ~WellFormedLine(line)
        BY <2>2, <2>3 DEF WellFormedLine
      <3>2. IsBeyondMending(longer)
        BY <1>2, <3>1, WrongLine
      <3> QED BY <1>1, <1>10, <2>1, <2>3, <3>2 DEF MarkerLine
    <2>4. CASE scan.pending # NoCommit
      <3>1. IsBeyondMending(longer)
        BY <1>2, <1>3, <1>5, <2>2, <2>4, MarkerIsLost
      <3> QED BY <1>1, <1>10, <2>1, <2>4, <3>1 DEF MarkerLine
    <2>5. CASE line.commit # NoCommit /\ scan.pending = NoCommit
      <3>1. after = [scan EXCEPT !.pending = line.commit]
        BY <2>1, <2>5 DEF MarkerLine
      <3>2. /\ after \in ScanState /\ ~after.refused /\ after.pending = line.commit
            /\ after.governed = scan.governed /\ after.seen = scan.seen /\ after.pins = scan.pins
        BY <2>2, <3>1 DEF ScanState
      <3>3. WellFormedLine(line)
        BY <1>12, <2>5 DEF WellFormedLine, IsMarker
      <3>4. MarkersArePending(longer, after)
        BY <1>2, <1>3, <1>4, <1>5, <2>2, <2>5, <3>2, NewMarker
      <3>5. DirectivesAreSeen(longer, after.seen)
        BY <1>2, <1>5, <1>12, <3>2, NoDirective
      <3>6. ArePinsOf(after.pins, longer)
        BY <1>2, <1>5, <1>6, <1>12, <3>2, NoPin
      <3> QED BY <1>1, <1>7, <1>11, <3>2, <3>3, <3>4, <3>5, <3>6 DEF ReadsTheLines
    <2> QED BY <1>1, <2>3, <2>4, <2>5
  <1>13. CASE line.kind = "blank"
    <2>1. after = BlankLine(scan)
      BY <1>13 DEF ScanLine
    <2>2. ~IsMarker(line) /\ ~IsGovernedPin(line) /\ WellFormedLine(line)
      BY <1>13 DEF IsMarker, IsGovernedPin, WellFormedLine
    <2>3. CASE scan.pending # NoCommit
      <3>1. IsBeyondMending(longer)
        BY <1>2, <1>3, <1>5, <2>2, <2>3, MarkerIsLost
      <3> QED BY <1>1, <1>10, <2>1, <2>3, <3>1 DEF BlankLine
    <2>4. CASE scan.pending = NoCommit
      <3>1. after = scan
        BY <2>1, <2>4 DEF BlankLine
      <3>2. MarkersArePending(longer, after)
        BY <1>2, <1>3, <1>5, <2>2, <2>4, <3>1, PlainLine
      <3>3. DirectivesAreSeen(longer, after.seen)
        BY <1>2, <1>5, <1>13, <3>1, NoDirective
      <3>4. ArePinsOf(after.pins, longer)
        BY <1>2, <1>5, <1>6, <1>13, <3>1, NoPin
      <3> QED BY <1>1, <1>7, <1>11, <2>2, <3>1, <3>2, <3>3, <3>4 DEF ReadsTheLines
    <2> QED BY <2>3, <2>4
  <1>14. CASE line.kind = "directive"
    <2>1. after = DirectiveLine(scan, line)
      BY <1>14 DEF ScanLine
    <2>2. ~IsMarker(line) /\ ~IsGovernedPin(line) /\ IsDirective(line, line.text)
      BY <1>14 DEF IsMarker, IsGovernedPin, IsDirective
    <2>3. CASE scan.pending # NoCommit
      <3>1. IsBeyondMending(longer)
        BY <1>2, <1>3, <1>5, <2>2, <2>3, MarkerIsLost
      <3> QED BY <1>1, <1>10, <2>1, <2>3, <3>1 DEF DirectiveLine
    <2>4. CASE line.text \notin Directives
      <3>1. ~WellFormedLine(line)
        BY <1>14, <2>4 DEF WellFormedLine
      <3>2. IsBeyondMending(longer)
        BY <1>2, <3>1, WrongLine
      <3> QED BY <1>1, <1>10, <2>1, <2>4, <3>2 DEF DirectiveLine
    <2>5. CASE line.text \in scan.seen
      <3>1. PICK i \in DOMAIN lines : IsDirective(lines[i], line.text)
        BY <1>5, <2>5 DEF DirectivesAreSeen
      <3>2. line.text \in Directives
        BY <1>8, <2>5
      <3>3. IsBeyondMending(longer)
        BY <1>2, <2>2, <3>1, <3>2, SecondTime
      <3> QED BY <1>1, <1>10, <2>1, <2>5, <3>3 DEF DirectiveLine
    <2>6. CASE scan.pending = NoCommit /\ line.text \in Directives \ scan.seen
      <3>1. after = [scan EXCEPT !.seen = @ \cup {line.text}]
        BY <2>1, <2>6 DEF DirectiveLine
      <3>2. /\ after \in ScanState /\ ~after.refused /\ after.pending = NoCommit
            /\ after.governed = scan.governed /\ after.seen = scan.seen \cup {line.text}
            /\ after.pins = scan.pins
        BY <2>6, <3>1 DEF ScanState
      <3>3. WellFormedLine(line)
        BY <1>14, <2>6 DEF WellFormedLine, IsMarker
      <3>4. MarkersArePending(longer, after)
        BY <1>2, <1>3, <1>5, <2>2, <2>6, <3>2, PlainLine
      <3>5. DirectivesAreSeen(longer, after.seen)
        BY <1>2, <1>5, <2>2, <2>6, <3>2, NewDirective
      <3>6. ArePinsOf(after.pins, longer)
        BY <1>2, <1>5, <1>6, <1>14, <3>2, NoPin
      <3> QED BY <1>1, <1>7, <1>11, <3>2, <3>3, <3>4, <3>5, <3>6 DEF ReadsTheLines
    <2> QED BY <2>3, <2>4, <2>5, <2>6
  <1>15. CASE line.kind = "pin"
    <2>1. after = PinLine(scan, line)
      BY <1>15 DEF ScanLine
    <2>2. ~IsMarker(line) /\ line.name \in Distributions /\ line.version \in Versions
      BY <1>15 DEF IsMarker, LockLine, Blank, Malformed, Directive, Marker, Pin
    <2>3. PICK pin : pin = [name |-> line.name, version |-> line.version, commit |-> scan.pending]
      OBVIOUS
    <2>4. pin \in LockedDistribution
      BY <1>8, <2>2, <2>3 DEF LockedDistribution
    <2>5. CASE line.name = Governed
      <3>1. IsGovernedPin(line)
        BY <1>15, <2>5 DEF IsGovernedPin
      <3>2. CASE scan.governed
        <4>1. PICK i \in DOMAIN lines : IsGovernedPin(lines[i])
          BY <1>5, <3>2 DEF MarkersArePending
        <4>2. IsBeyondMending(longer)
          BY <1>2, <3>1, <4>1, SecondTime
        <4> QED BY <1>1, <1>10, <2>1, <2>5, <3>2, <4>2 DEF PinLine
      <3>3. CASE scan.pending = NoCommit
        <4>1. IsBeyondMending(longer)
          BY <1>2, <1>3, <1>5, <3>1, <3>3, MarkerIsMissing
        <4> QED BY <1>1, <1>10, <2>1, <2>5, <3>3, <4>1 DEF PinLine
      <3>4. CASE line.hash # "none"
        <4>1. ~WellFormedLine(line)
          BY <1>15, <3>1, <3>4 DEF WellFormedLine
        <4>2. IsBeyondMending(longer)
          BY <1>2, <4>1, WrongLine
        <4> QED BY <1>1, <1>10, <2>1, <2>5, <3>4, <4>2 DEF PinLine
      <3>5. CASE ~scan.governed /\ scan.pending # NoCommit /\ line.hash = "none"
        <4>1. after = [scan EXCEPT !.pins = Append(@, pin), !.pending = NoCommit,
                                   !.governed = @ \/ TRUE]
          BY <2>1, <2>3, <2>5, <3>5 DEF PinLine
        <4>2. Append(scan.pins, pin) \in Seq(LockedDistribution)
          BY <1>8, <2>4
        <4>3. /\ after \in ScanState /\ ~after.refused /\ after.pending = NoCommit
              /\ after.governed = TRUE /\ after.seen = scan.seen
              /\ after.pins = Append(scan.pins, pin)
          BY <4>1, <4>2 DEF ScanState
        <4>4. WellFormedLine(line)
          BY <1>15, <3>1, <3>5 DEF WellFormedLine, IsMarker
        <4>5. MarkersArePending(longer, after) /\ PinAt(longer, Len(lines) + 1).commit = scan.pending
          BY <1>2, <1>3, <1>5, <3>1, <3>5, <4>3, GovernedPin
        <4>6. DirectivesAreSeen(longer, after.seen)
          BY <1>2, <1>5, <1>15, <4>3, NoDirective
        <4>7. pin = PinAt(longer, Len(lines) + 1)
          BY <1>2, <2>3, <4>5 DEF PinAt
        <4>8. ArePinsOf(after.pins, longer)
          BY <1>2, <1>5, <1>6, <1>8, <1>15, <2>4, <4>3, <4>7, OnePin
        <4> QED BY <1>1, <1>7, <1>11, <4>3, <4>4, <4>5, <4>6, <4>8 DEF ReadsTheLines
      <3> QED BY <3>2, <3>3, <3>4, <3>5
    <2>6. CASE line.name # Governed
      <3>1. ~IsGovernedPin(line)
        BY <1>15, <2>6 DEF IsGovernedPin
      <3>2. CASE scan.pending # NoCommit
        <4>1. IsBeyondMending(longer)
          BY <1>2, <1>3, <1>5, <3>1, <3>2, MarkerIsLost
        <4> QED BY <1>1, <1>10, <2>1, <2>6, <3>2, <4>1 DEF PinLine
      <3>3. CASE line.hash # "one"
        <4>1. ~WellFormedLine(line)
          BY <1>15, <3>1, <3>3 DEF WellFormedLine
        <4>2. IsBeyondMending(longer)
          BY <1>2, <4>1, WrongLine
        <4> QED BY <1>1, <1>10, <2>1, <2>6, <3>3, <4>2 DEF PinLine
      <3>4. CASE scan.pending = NoCommit /\ line.hash = "one"
        <4>1. after = [scan EXCEPT !.pins = Append(@, pin), !.pending = NoCommit,
                                   !.governed = @ \/ FALSE]
          BY <2>1, <2>3, <2>6, <3>4 DEF PinLine
        <4>2. Append(scan.pins, pin) \in Seq(LockedDistribution)
          BY <1>8, <2>4
        <4>3. /\ after \in ScanState /\ ~after.refused /\ after.pending = NoCommit
              /\ after.governed = scan.governed /\ after.seen = scan.seen
              /\ after.pins = Append(scan.pins, pin)
          BY <1>8, <4>1, <4>2 DEF ScanState
        <4>4. WellFormedLine(line)
          BY <1>15, <3>1, <3>4 DEF WellFormedLine, IsMarker
        <4>5. MarkersArePending(longer, after)
          BY <1>2, <1>3, <1>5, <2>2, <3>1, <3>4, <4>3, PlainLine
        <4>6. DirectivesAreSeen(longer, after.seen)
          BY <1>2, <1>5, <1>15, <4>3, NoDirective
        <4>7. pin = PinAt(longer, Len(lines) + 1)
          BY <1>2, <2>3, <3>1, <3>4 DEF PinAt
        <4>8. ArePinsOf(after.pins, longer)
          BY <1>2, <1>5, <1>6, <1>8, <1>15, <2>4, <4>3, <4>7, OnePin
        <4> QED BY <1>1, <1>7, <1>11, <4>3, <4>4, <4>5, <4>6, <4>8 DEF ReadsTheLines
      <3> QED BY <3>2, <3>3, <3>4
    <2> QED BY <2>5, <2>6
  <1>16. CASE line.kind = "malformed"
    <2>1. after = Refuse(scan)
      BY <1>16 DEF ScanLine
    <2>2. ~WellFormedLine(line)
      BY <1>16 DEF WellFormedLine
    <2>3. IsBeyondMending(longer)
      BY <1>2, <2>2, WrongLine
    <2> QED BY <1>1, <1>10, <2>1, <2>3
  <1>17. line.kind \in {"marker", "blank", "directive", "pin", "malformed"}
    BY DEF LockLine, Blank, Malformed, Directive, Marker, Pin
  <1> QED BY <1>1, <1>12, <1>13, <1>14, <1>15, <1>16, <1>17

-----------------------------------------------------------------------------
(* What is accepted at the end of the file. *)

LEMMA AcceptedIsWellFormed ==
  ASSUME NEW lines \in Seq(LockLine), NEW scan \in ScanState, ReadsTheLines(lines, scan), ScanAccepts(scan)
  PROVE  WellFormedLock(lines)
  <1>1. PICK n \in Nat : n = Len(lines) /\ DOMAIN lines = 1 .. n
    OBVIOUS
  <1>2. n > 0 => lines # <<>>
    BY <1>1
  <1>3. scan.pending = NoCommit /\ scan.governed /\ scan.seen = Directives
    BY DEF ScanAccepts
  <1>4. \A i \in DOMAIN lines : WellFormedLine(lines[i])
    BY DEF ReadsTheLines
  <1>5. ASSUME NEW d \in Directives
        PROVE  \E i \in DOMAIN lines : \A j \in DOMAIN lines : IsDirective(lines[j], d) <=> j = i
    <2>1. DirectivesAreSeen(lines, Directives)
      BY <1>3 DEF ReadsTheLines
    <2>2. PICK i \in DOMAIN lines : IsDirective(lines[i], d)
      BY <2>1 DEF DirectivesAreSeen
    <2>3. \A j \in DOMAIN lines : IsDirective(lines[j], d) <=> j = i
      BY <2>1, <2>2 DEF DirectivesAreSeen
    <2> QED BY <2>3
  <1>6. MarkersArePending(lines, scan)
    BY DEF ReadsTheLines
  <1>7. PICK i \in DOMAIN lines : IsGovernedPin(lines[i])
    BY <1>3, <1>6 DEF MarkersArePending
  <1>8. i \in 2 .. n /\ IsMarker(lines[i - 1])
    BY <1>1, <1>6, <1>7 DEF MarkersArePending
  <1>9. \A j \in DOMAIN lines : IsGovernedPin(lines[j]) <=> j = i
    BY <1>6, <1>7 DEF MarkersArePending
  <1>10. ~IsMarker(lines[n])
    <2>1. SUFFICES ASSUME IsMarker(lines[n])
                   PROVE  FALSE
      OBVIOUS
    <2>2. lines[n].commit = NoCommit
      BY <1>1, <1>2, <1>3, <1>6, <1>8, <2>1 DEF MarkersArePending
    <2>3. WellFormedLine(lines[n])
      BY <1>1, <1>4, <1>8
    <2> QED BY <2>1, <2>2, <2>3 DEF WellFormedLine
  <1>11. \A j \in DOMAIN lines : IsMarker(lines[j]) => j = n \/ IsGovernedPin(lines[j + 1])
    BY <1>1, <1>6 DEF MarkersArePending
  <1>12. \A j \in DOMAIN lines : IsMarker(lines[j]) <=> j = i - 1
    <2>1. TAKE j \in DOMAIN lines
    <2>2. IsMarker(lines[j]) => j + 1 \in DOMAIN lines /\ IsGovernedPin(lines[j + 1])
      BY <1>1, <1>10, <1>11
    <2> QED BY <1>1, <1>8, <1>9, <2>2
  <1> QED BY <1>1, <1>4, <1>5, <1>8, <1>9, <1>12 DEF WellFormedLock, IsDirective

LEMMA WellFormedIsAccepted ==
  ASSUME NEW lines \in Seq(LockLine), NEW scan \in ScanState, ~scan.refused, ReadsTheLines(lines, scan),
         WellFormedLock(lines)
  PROVE  ScanAccepts(scan)
  <1>1. PICK n \in Nat : n = Len(lines) /\ DOMAIN lines = 1 .. n
    OBVIOUS
  <1>2. DirectivesAreSeen(lines, scan.seen) /\ MarkersArePending(lines, scan)
    BY DEF ReadsTheLines
  <1>3. scan.seen = Directives
    <2>1. scan.seen \subseteq Directives
      BY DEF ScanState
    <2>2. ASSUME NEW d \in Directives
          PROVE  d \in scan.seen
      <3>1. PICK i \in DOMAIN lines : lines[i].kind = "directive" /\ lines[i].text = d
        BY DEF WellFormedLock
      <3> QED BY <1>2, <3>1 DEF DirectivesAreSeen
    <2> QED BY <2>1, <2>2
  <1>4. PICK p \in 2 .. n : /\ \A j \in DOMAIN lines : IsGovernedPin(lines[j]) <=> j = p
                            /\ \A j \in DOMAIN lines : IsMarker(lines[j]) <=> j = p - 1
    BY <1>1 DEF WellFormedLock
  <1>5. scan.governed
    BY <1>1, <1>2, <1>4 DEF MarkersArePending
  <1>6. n \in DOMAIN lines /\ ~IsMarker(lines[n])
    BY <1>1, <1>4
  <1>7. scan.pending = NoCommit
    BY <1>1, <1>2, <1>6 DEF MarkersArePending
  <1> QED BY <1>3, <1>5, <1>7 DEF ScanAccepts

LEMMA LockfileIsRead ==
  ASSUME GateTypeOK, LockfileInv
  PROVE  LockScannerIsTheGrammar
  <1>1. SUFFICES ASSUME gate.step = "lock"
                 PROVE  IF gate.scan.refused
                        THEN \A line \in LockLine :
                               ~WellFormedLock(gate.lines) /\ ~WellFormedLock(Append(gate.lines, line))
                        ELSE /\ ScanAccepts(gate.scan) <=> WellFormedLock(gate.lines)
                             /\ ScanAccepts(gate.scan) => ArePinsOf(gate.scan.pins, gate.lines)
    BY DEF LockScannerIsTheGrammar
  <1>2. gate.lines \in Seq(LockLine) /\ gate.scan \in ScanState
    BY DEF GateTypeOK
  <1>3. ScanIsTrue(gate.lines, gate.scan)
    BY <1>1 DEF LockfileInv
  <1>4. CASE gate.scan.refused
    <2>1. IsBeyondMending(gate.lines)
      BY <1>3, <1>4 DEF ScanIsTrue
    <2>2. ASSUME NEW line \in LockLine
          PROVE  ~WellFormedLock(gate.lines) /\ ~WellFormedLock(Append(gate.lines, line))
      <3>1. Append(gate.lines, line) \in Seq(LockLine)
        BY <1>2
      <3>2. IsBeyondMending(Append(gate.lines, line))
        BY <1>2, <2>1, FaultsStay
      <3> QED BY <1>2, <2>1, <3>1, <3>2, FaultsRefuse
    <2> QED BY <1>4, <2>2
  <1>5. CASE ~gate.scan.refused
    <2>1. ReadsTheLines(gate.lines, gate.scan)
      BY <1>3, <1>5 DEF ScanIsTrue
    <2>2. ScanAccepts(gate.scan) <=> WellFormedLock(gate.lines)
      BY <1>2, <1>5, <2>1, AcceptedIsWellFormed, WellFormedIsAccepted
    <2> QED BY <1>5, <2>1, <2>2 DEF ReadsTheLines
  <1> QED BY <1>4, <1>5

-----------------------------------------------------------------------------
(* The environment. *)

LEMMA PinIsInstalled ==
  ASSUME NEW pin, NEW probe, PinFault(pin, probe) = "ok"
  PROVE  \E d \in probe.distributions :
           /\ d.name = pin.name /\ d.version = pin.version
           /\ pin.commit # NoCommit => d.commit = pin.commit
           /\ d = CHOOSE x \in {y \in probe.distributions : y.name = pin.name} : TRUE
  <1>1. PICK found : found = {y \in probe.distributions : y.name = pin.name}
    OBVIOUS
  <1>2. PICK d : d = CHOOSE x \in found : TRUE
    OBVIOUS
  <1>3. found # {}
    BY <1>1 DEF PinFault
  <1>4. d \in found
    BY <1>2, <1>3
  <1>5. PICK checks :
          checks = << <<d.version # pin.version, "Version">>,
             <<pin.commit # NoCommit /\ d.commit = NoCommit /\ d.recordedSource,
               "WithoutRecordedRevision">>,
             <<pin.commit # NoCommit /\ d.commit = NoCommit, "FromIndex">>,
             <<pin.commit # NoCommit /\ d.commit # pin.commit, "FromAnotherRevision">> >>
    OBVIOUS
  <1>6. FirstFault(checks) = "ok"
    BY <1>1, <1>2, <1>3, <1>5 DEF PinFault
  <1>7. DOMAIN checks = 1 .. 4 /\ \A i \in 1 .. 4 : checks[i][2] # "ok"
    BY <1>5
  <1>8. \A i \in 1 .. 4 : ~checks[i][1]
    BY <1>6, <1>7, FirstFaultAccepts
  <1>9. ~checks[1][1] /\ ~checks[4][1]
    BY <1>8
  <1>10. d.version = pin.version /\ (pin.commit # NoCommit => d.commit = pin.commit)
    BY <1>5, <1>9
  <1> QED BY <1>1, <1>2, <1>4, <1>10

LEMMA RecordIsDeclared ==
  ASSUME NEW pin, NEW digests, NEW probe, RecordFault(pin, digests, probe) = "ok",
         NEW d \in probe.distributions, d.name = pin.name
  PROVE  d.record_digest = digests[pin.name] /\ d.record_digest # NoDigest
  <1>1. PICK observed : observed = {x.record_digest : x \in {y \in probe.distributions : y.name = pin.name}}
    OBVIOUS
  <1>2. d.record_digest \in observed
    BY <1>1
  <1>3. PICK checks :
          checks = << <<observed \subseteq {NoDigest}, "UnrecordedDistribution">>,
                      <<digests[pin.name] = NoDigest, "UndeclaredDistributionRecord">>,
                      <<observed # {digests[pin.name]}, "ModifiedDistributionRecord">> >>
    OBVIOUS
  <1>4. FirstFault(checks) = "ok"
    BY <1>1, <1>3 DEF RecordFault
  <1>5. DOMAIN checks = 1 .. 3 /\ \A i \in 1 .. 3 : checks[i][2] # "ok"
    BY <1>3
  <1>6. \A i \in 1 .. 3 : ~checks[i][1]
    BY <1>4, <1>5, FirstFaultAccepts
  <1>7. ~checks[2][1] /\ ~checks[3][1]
    BY <1>6
  <1>8. digests[pin.name] # NoDigest /\ observed = {digests[pin.name]}
    BY <1>3, <1>7
  <1> QED BY <1>2, <1>8

LEMMA FilesAreRecorded ==
  ASSUME NEW d, FaultOf(d) = "ok"
  PROVE  d.record # "none" /\ d.files = d.record
  <1>1. PICK checks :
          checks = << <<d.record = "none", "UnrecordedDistribution">>,
                  <<d.rows = "malformed", "MalformedDistributionRecord">>,
                  <<d.rows = "unsafe", "UnsafeDistributionRecord">>,
                  <<d.files = "missing", "MissingDistributionFile">>,
                  <<d.files # d.record, "ModifiedDistributionFile">> >>
    OBVIOUS
  <1>2. FirstFault(checks) = "ok"
    BY <1>1 DEF FaultOf
  <1>3. DOMAIN checks = 1 .. 5 /\ \A i \in 1 .. 5 : checks[i][2] # "ok"
    BY <1>1
  <1>4. \A i \in 1 .. 5 : ~checks[i][1]
    BY <1>2, <1>3, FirstFaultAccepts
  <1>5. ~checks[1][1] /\ ~checks[5][1]
    BY <1>4
  <1> QED BY <1>1, <1>5

LEMMA EnvironmentIsChecked ==
  ASSUME NEW manifest, NEW pins \in Seq(LockedDistribution), NEW probe,
         CheckEnvironment(manifest, pins, probe) = "ok"
  PROVE  /\ ~probe.ambiguous /\ probe.fault = "ok"
         /\ \A i \in DOMAIN pins : /\ PinFault(pins[i], probe) = "ok"
                                   /\ RecordFault(pins[i], manifest.record_digests, probe) = "ok"
         /\ CheckStartupModulesAreAccounted(manifest.startup_modules, pins, probe) = "ok"
  <1>1. PICK n \in Nat : n = Len(pins) /\ DOMAIN pins = 1 .. n
    OBVIOUS
  <1>2. PICK ofPins : ofPins = [i \in DOMAIN pins |-> PinFault(pins[i], probe)]
    OBVIOUS
  <1>3. PICK ofRecords : ofRecords = [i \in DOMAIN pins |-> RecordFault(pins[i], manifest.record_digests, probe)]
    OBVIOUS
  <1>4. PICK results :
          results = << FirstFault([i \in DOMAIN pins |-> <<ofPins[i] # "ok", ofPins[i]>>]),
                      CheckPathHooksArePinned(pins, probe),
                      CheckRecordsMatchTheirDeclarations(manifest.record_digests, pins, probe),
                      probe.fault,
                      CheckStartupModulesAreAccounted(manifest.startup_modules, pins, probe) >>
    OBVIOUS
  <1>5. /\ ~probe.ambiguous
        /\ FirstFault([i \in DOMAIN results |-> <<results[i] # "ok", results[i]>>]) = "ok"
    BY <1>2, <1>4 DEF CheckEnvironment
  <1>6. DOMAIN results = 1 .. 5
    BY <1>4
  <1>7. \A i \in 1 .. 5 : results[i] = "ok"
    BY <1>5, <1>6, FirstFaultOfResults
  <1>8. results[1] = "ok" /\ results[3] = "ok" /\ results[4] = "ok" /\ results[5] = "ok"
    BY <1>7
  <1>9. /\ FirstFault([i \in DOMAIN pins |-> <<ofPins[i] # "ok", ofPins[i]>>]) = "ok"
        /\ CheckRecordsMatchTheirDeclarations(manifest.record_digests, pins, probe) = "ok"
        /\ probe.fault = "ok"
        /\ CheckStartupModulesAreAccounted(manifest.startup_modules, pins, probe) = "ok"
    BY <1>4, <1>8
  <1>10. DOMAIN ofPins = 1 .. n /\ DOMAIN ofRecords = 1 .. n
    BY <1>1, <1>2, <1>3
  <1>11. FirstFault([i \in DOMAIN ofPins |-> <<ofPins[i] # "ok", ofPins[i]>>]) = "ok"
    BY <1>1, <1>9, <1>10
  <1>12. FirstFault([i \in DOMAIN ofRecords |-> <<ofRecords[i] # "ok", ofRecords[i]>>]) = "ok"
    BY <1>1, <1>3, <1>9, <1>10 DEF CheckRecordsMatchTheirDeclarations
  <1>13. \A i \in 1 .. n : ofPins[i] = "ok"
    BY <1>10, <1>11, FirstFaultOfResults
  <1>14. \A i \in 1 .. n : ofRecords[i] = "ok"
    BY <1>10, <1>12, FirstFaultOfResults
  <1>15. ASSUME NEW i \in DOMAIN pins
         PROVE  /\ PinFault(pins[i], probe) = "ok"
                /\ RecordFault(pins[i], manifest.record_digests, probe) = "ok"
    BY <1>1, <1>2, <1>3, <1>13, <1>14
  <1> QED BY <1>5, <1>9, <1>15

LEMMA LockedNames ==
  ASSUME NEW pins \in Seq(LockedDistribution)
  PROVE  /\ Locked(pins) \subseteq Distributions /\ NoDigest \notin Locked(pins)
         /\ \A i \in DOMAIN pins : pins[i].name \in Locked(pins)
  <1>1. \A i \in DOMAIN pins : pins[i] \in LockedDistribution
    OBVIOUS
  <1>2. Locked(pins) \subseteq Distributions
    BY <1>1 DEF Locked, LockedDistribution
  <1> QED BY <1>2, EnvironmentAssumption DEF Locked

\* What the gate accepts of an environment is authenticated, for any lockfile, manifest
\* and environment.
LEMMA EnvironmentIsAuthenticated ==
  ASSUME NEW manifest, NEW pins \in Seq(LockedDistribution), NEW env,
         env.startup \subseteq StartupModule,
         CheckEnvironment(manifest, pins, Probe(env, Locked(pins))) = "ok"
  PROVE  Authenticated(manifest, pins, env)
  <1>1. PICK locked : locked = Locked(pins)
    OBVIOUS
  <1>2. PICK probe : probe = Probe(env, locked)
    OBVIOUS
  <1>3. /\ ~probe.ambiguous /\ probe.fault = "ok"
        /\ \A i \in DOMAIN pins : /\ PinFault(pins[i], probe) = "ok"
                                  /\ RecordFault(pins[i], manifest.record_digests, probe) = "ok"
        /\ CheckStartupModulesAreAccounted(manifest.startup_modules, pins, probe) = "ok"
    BY <1>1, <1>2, EnvironmentIsChecked
  <1>4. NoDigest \notin locked /\ \A i \in DOMAIN pins : pins[i].name \in locked
    BY <1>1, LockedNames
  <1>5. \A d, e \in env.installed : d.name = e.name => d = e
    BY <1>2, <1>3 DEF Probe
  <1>6. probe.distributions = {ProbedDistribution(d, locked) : d \in env.installed}
    BY <1>2 DEF Probe
  <1>7. \A d \in env.installed : d.name \in locked => FaultOf(d) = "ok"
    <2>1. PICK faulty : faulty = {d \in env.installed : d.name \in locked /\ FaultOf(d) # "ok"}
      OBVIOUS
    <2>2. probe.fault = IF faulty = {} THEN "ok" ELSE FaultOf(CHOOSE d \in faulty : TRUE)
      BY <1>2, <2>1 DEF Probe
    <2>3. faulty # {} => FaultOf(CHOOSE d \in faulty : TRUE) # "ok"
      BY <2>1
    <2>4. faulty = {}
      BY <1>3, <2>2, <2>3
    <2> QED BY <2>1, <2>4
  <1>8. ASSUME NEW i \in DOMAIN pins
        PROVE  \E d \in env.installed :
                 /\ \A e \in env.installed : e.name = pins[i].name <=> e = d
                 /\ d.version = pins[i].version
                 /\ pins[i].commit # NoCommit => d.source = pins[i].commit
                 /\ d.files = manifest.record_digests[pins[i].name]
    <2>1. PICK pin : pin = pins[i]
      OBVIOUS
    <2>2. PICK p \in probe.distributions :
             /\ p.name = pin.name /\ p.version = pin.version
             /\ pin.commit # NoCommit => p.commit = pin.commit
      BY <1>3, <2>1, PinIsInstalled
    <2>3. PICK d \in env.installed : p = ProbedDistribution(d, locked)
      BY <1>6
    <2>4. /\ p.name = d.name /\ p.version = d.version
          /\ p.commit = IF d.source \in Commits THEN d.source ELSE NoCommit
          /\ p.record_digest = IF d.name \in locked /\ d.record # "none" THEN d.record ELSE NoDigest
      BY <2>3 DEF ProbedDistribution
    <2>5. p.record_digest = manifest.record_digests[pin.name] /\ p.record_digest # NoDigest
      BY <1>3, <2>1, <2>2, RecordIsDeclared
    <2>6. FaultOf(d) = "ok"
      BY <1>4, <1>7, <2>1, <2>2, <2>4
    <2>7. d.files = d.record /\ d.record # "none"
      BY <2>6, FilesAreRecorded
    <2>8. d.files = manifest.record_digests[pin.name]
      BY <2>4, <2>5, <2>7
    <2>9. pin.commit # NoCommit => d.source = pin.commit
      BY <2>2, <2>4
    <2>10. \A e \in env.installed : e.name = pin.name <=> e = d
      BY <1>5, <2>2, <2>4
    <2> QED BY <2>1, <2>2, <2>4, <2>8, <2>9, <2>10
  <1>9. ASSUME NEW m \in env.startup, m.executes
        PROVE  m.claimed \in Locked(pins) \/ m.content \in manifest.startup_modules
    <2>1. PICK c : c = [m EXCEPT !.claimed = IF @ \in locked THEN @ ELSE NoDigest]
      OBVIOUS
    <2>2. c \in probe.startup
      BY <1>2, <2>1 DEF Probe
    <2>3. /\ c.executes = m.executes /\ c.content = m.content
          /\ c.claimed = IF m.claimed \in locked THEN m.claimed ELSE NoDigest
      <3>1. m \in StartupModule
        OBVIOUS
      <3> QED BY <2>1, <3>1 DEF StartupModule
    <2>4. ~c.executes \/ c.claimed \in Locked(pins) \/ c.content \in manifest.startup_modules
      BY <1>3, <2>2 DEF CheckStartupModulesAreAccounted
    <2> QED BY <1>1, <1>4, <1>9, <2>3, <2>4
  <1> QED BY <1>8, <1>9 DEF Authenticated

-----------------------------------------------------------------------------
(* The bundle and the voices. *)

LEMMA BundleIsWhole ==
  ASSUME NEW manifest, NEW unreadable, NEW modules, HashBundle(manifest, unreadable, modules) = "ok"
  PROVE  modules \cup RequiredInputs \subseteq manifest.inputs
  <1>1. PICK checks :
          checks = << <<~(RequiredInputs \subseteq manifest.inputs), "UndeclaredRequiredInput">>,
                  <<~manifest.rooted, "UndeclaredImportRoot">>,
                  <<unreadable \cap manifest.inputs # {}, "MissingDeclaredInput">>,
                  <<~(modules \subseteq manifest.inputs), "UndeclaredModule">> >>
    OBVIOUS
  <1>2. FirstFault(checks) = "ok"
    BY <1>1 DEF HashBundle
  <1>3. DOMAIN checks = 1 .. 4 /\ \A i \in 1 .. 4 : checks[i][2] # "ok"
    BY <1>1
  <1>4. \A i \in 1 .. 4 : ~checks[i][1]
    BY <1>2, <1>3, FirstFaultAccepts
  <1>5. ~checks[1][1] /\ ~checks[4][1]
    BY <1>4
  <1> QED BY <1>1, <1>5

LEMMA RecordIsRead ==
  ASSUME NEW record, ReadRecord(record) = "ok"
  PROVE  ~(~record.valid)
  <1>1. PICK checks :
          checks = << <<record.file = "link", "VoiceRecordNotRegularFile">>,
                  <<record.file = "missing", "MissingVoiceRecord">>,
                  <<~record.valid, "InvalidVoiceRecord">> >>
    OBVIOUS
  <1>2. FirstFault(checks) = "ok"
    BY <1>1 DEF ReadRecord
  <1>3. DOMAIN checks = 1 .. 3 /\ \A i \in 1 .. 3 : checks[i][2] # "ok"
    BY <1>1
  <1>4. \A i \in 1 .. 3 : ~checks[i][1]
    BY <1>2, <1>3, FirstFaultAccepts
  <1>5. ~checks[3][1]
    BY <1>4
  <1> QED BY <1>1, <1>5

LEMMA UseIsPermitted ==
  ASSUME NEW profile, NEW consent, NEW requested,
         ValidateProfileForUse(profile, consent, requested) = "ok"
  PROVE  /\ consent.status = "granted" /\ profile.approval = "approved"
         /\ requested \in consent.permitted /\ profile.reference = consent.reference
  <1>1. PICK checks :
          checks = << <<consent.permitted = {}, "MissingField">>,
                  <<consent.status # "granted", "ConsentNotGranted">>,
                  <<profile.approval # "approved", "ProfileNotApproved">>,
                  <<requested \notin consent.permitted, "ConsentScopeExcluded">>,
                  <<profile.reference # consent.reference, "ConsentChecksumDisagreement">> >>
    OBVIOUS
  <1>2. FirstFault(checks) = "ok"
    BY <1>1 DEF ValidateProfileForUse
  <1>3. DOMAIN checks = 1 .. 5 /\ \A i \in 1 .. 5 : checks[i][2] # "ok"
    BY <1>1
  <1>4. \A i \in 1 .. 5 : ~checks[i][1]
    BY <1>2, <1>3, FirstFaultAccepts
  <1>5. ~checks[2][1] /\ ~checks[3][1] /\ ~checks[4][1] /\ ~checks[5][1]
    BY <1>4
  <1> QED BY <1>1, <1>5

LEMMA ContentIsRecorded ==
  ASSUME NEW found, NEW recorded, VerifyChecksum(found, recorded) = "ok"
  PROVE  found # "missing" /\ found = recorded
  <1>1. PICK checks :
          checks = << <<found = "missing", "MissingVoiceRecord">>,
                  <<found # recorded, "VoiceChecksumMismatch">> >>
    OBVIOUS
  <1>2. FirstFault(checks) = "ok"
    BY <1>1 DEF VerifyChecksum
  <1>3. DOMAIN checks = 1 .. 2 /\ \A i \in 1 .. 2 : checks[i][2] # "ok"
    BY <1>1
  <1>4. \A i \in 1 .. 2 : ~checks[i][1]
    BY <1>2, <1>3, FirstFaultAccepts
  <1>5. ~checks[1][1] /\ ~checks[2][1]
    BY <1>4
  <1> QED BY <1>1, <1>5

\* A voice the requested use may load: approved, consented to, and holding the audio
\* and the conditioning its records state.
IsAdmissible(entry, requested) ==
    /\ ~(~entry.profile.valid)
    /\ entry.profile.profile_id = entry.name /\ entry.profile.approval = "approved"
    /\ entry.consent.status = "granted" /\ requested \in entry.consent.permitted
    /\ entry.reference = entry.consent.reference
    /\ entry.conditionals = entry.profile.conditionals /\ entry.conditionals # "missing"

LEMMA VoiceIsAdmissible ==
  ASSUME NEW entry, NEW requested, ResolveVoiceConditioning(entry, requested) = "ok"
  PROVE  IsAdmissible(entry, requested)
  <1>1. PICK loaded : loaded = LoadProfile(entry, requested)
    OBVIOUS
  <1>2. PICK checks :
          checks = << <<entry.kind # "directory", "VoiceProfileNotDirectory">>,
                      <<loaded # "ok", loaded>>,
                      <<entry.profile.profile_id # entry.name, "VoiceProfileIdMismatch">> >>
    OBVIOUS
  <1>3. FirstFault(checks) = "ok" /\ DOMAIN checks = 1 .. 3
    BY <1>1, <1>2 DEF ResolveVoiceConditioning
  <1>4. \A i \in 1 .. 3 : checks[i][1] => checks[i][2] # "ok"
    <2>1. \A i \in 1 .. 3 : i = 1 \/ i = 2 \/ i = 3
      OBVIOUS
    <2>2. checks[1][2] # "ok" /\ checks[3][2] # "ok" /\ (checks[2][1] => checks[2][2] # "ok")
      BY <1>2
    <2> QED BY <2>1, <2>2
  <1>5. \A i \in 1 .. 3 : ~checks[i][1]
    <2>1. \/ FirstFault(checks) = "ok" /\ \A i \in 1 .. 3 : ~checks[i][1]
          \/ \E i \in 1 .. 3 : /\ checks[i][1] /\ FirstFault(checks) = checks[i][2]
                               /\ \A j \in 1 .. i - 1 : ~checks[j][1]
      BY <1>3, FirstFaultOfChecks
    <2> QED BY <1>3, <1>4, <2>1
  <1>6. ~checks[2][1] /\ ~checks[3][1]
    BY <1>5
  <1>7. loaded = "ok" /\ entry.profile.profile_id = entry.name
    BY <1>2, <1>6
  <1>8. PICK results :
          results = << ReadRecord(entry.profile), ReadRecord(entry.consent),
                      ValidateProfileForUse(entry.profile, entry.consent, requested),
                      VerifyChecksum(entry.reference, entry.profile.reference),
                      VerifyChecksum(entry.conditionals, entry.profile.conditionals) >>
    OBVIOUS
  <1>9. FirstFault([i \in DOMAIN results |-> <<results[i] # "ok", results[i]>>]) = "ok"
    BY <1>1, <1>7, <1>8 DEF LoadProfile
  <1>10. DOMAIN results = 1 .. 5
    BY <1>8
  <1>11. \A i \in 1 .. 5 : results[i] = "ok"
    BY <1>9, <1>10, FirstFaultOfResults
  <1>12. results[1] = "ok" /\ results[3] = "ok" /\ results[4] = "ok" /\ results[5] = "ok"
    BY <1>11
  <1>13. /\ ReadRecord(entry.profile) = "ok"
         /\ ValidateProfileForUse(entry.profile, entry.consent, requested) = "ok"
         /\ VerifyChecksum(entry.reference, entry.profile.reference) = "ok"
         /\ VerifyChecksum(entry.conditionals, entry.profile.conditionals) = "ok"
    BY <1>8, <1>12
  <1> QED BY <1>7, <1>13, RecordIsRead, UseIsPermitted, ContentIsRecorded DEF IsAdmissible

\* Every entry the worker would load is admissible, for any voice root.
LEMMA RootIsAdmissible ==
  ASSUME NEW root, NEW requested, AdmitVoiceRoot(root, requested) = "ok",
         NEW entry \in WorkerLoads(root)
  PROVE  IsAdmissible(entry, requested)
  <1> DEFINE refusal(e) == IF ~HoldsALoadableProfile(e) THEN "ok"
                           ELSE IF ~e.utf8 THEN "VoiceProfileNameNotUtf8"
                           ELSE ResolveVoiceConditioning(e, requested)
             refused == {e \in root : refusal(e) # "ok"}
  <1>1. AdmitVoiceRoot(root, requested) = IF refused = {} THEN "ok" ELSE refusal(CHOOSE e \in refused : TRUE)
    BY DEF AdmitVoiceRoot
  <1>2. refused # {} => refusal(CHOOSE e \in refused : TRUE) # "ok"
    <2> HIDE DEF refusal
    <2> QED OBVIOUS
  <1>3. refused = {}
    <2> HIDE DEF refused, refusal
    <2> QED BY <1>1, <1>2
  <1>4. entry \in root /\ HoldsALoadableProfile(entry)
    BY DEF WorkerLoads, HoldsALoadableProfile
  <1>5. refusal(entry) = "ok"
    <2> HIDE DEF refusal
    <2> QED BY <1>3, <1>4
  <1>6. ResolveVoiceConditioning(entry, requested) = "ok"
    BY <1>4, <1>5
  <1> QED BY <1>6, VoiceIsAdmissible

-----------------------------------------------------------------------------
(* The gate. *)

LEMMA StartupModulesOf ==
  ASSUME NEW manifest, NEW pins, NEW env \in Environments(manifest, pins)
  PROVE  env.startup \subseteq StartupModule
  <1> DEFINE code(name) == IF manifest.record_digests[name] = NoDigest THEN CHOOSE x \in Code : TRUE
                           ELSE manifest.record_digests[name]
             asLocked(pin) ==
               [name |-> pin.name, version |-> pin.version,
                source |-> IF pin.commit = NoCommit THEN "index" ELSE pin.commit,
                record |-> code(pin.name), rows |-> "good", files |-> code(pin.name)]
             locked == {asLocked(pins[i]) : i \in DOMAIN pins}
             sound == [runtime |-> manifest.python, installed |-> locked, hooks |-> {{Governed}},
                       startup |-> {}]
             missing == {[sound EXCEPT !.installed = locked \ {d}] : d \in locked}
             added == {[sound EXCEPT !.installed = locked \cup {d}] : d \in InstalledDistribution}
             replaced == {{[sound EXCEPT !.installed = (locked \ {d}) \cup {e}] :
                             e \in {x \in InstalledDistribution : x.name = d.name}} : d \in locked}
             hooked == {[sound EXCEPT !.hooks = {h}] : h \in PathHook}
             started == {[sound EXCEPT !.startup = {m}] : m \in StartupModule}
             interpreted == {[sound EXCEPT !.runtime = r] : r \in Runtimes}
  <1>1. env \in missing \cup added \cup (UNION replaced) \cup hooked \cup started \cup interpreted
    BY Zenon DEF Environments
  <1>2. PICK l : l = locked
    OBVIOUS
  <1>3. sound = [runtime |-> manifest.python, installed |-> l, hooks |-> {{Governed}}, startup |-> {}]
    BY <1>2
  <1> HIDE DEF locked, sound
  <1>4. \A x \in missing : x.startup = {}
    BY <1>3
  <1>5. \A x \in added : x.startup = {}
    BY <1>3
  <1>6. \A s \in replaced : \A x \in s : x.startup = {}
    <2>1. ASSUME NEW d, NEW s,
                 s = {[sound EXCEPT !.installed = (locked \ {d}) \cup {e}] :
                        e \in {x \in InstalledDistribution : x.name = d.name}}
          PROVE  \A x \in s : x.startup = {}
      BY <1>3, <2>1
    <2> QED BY <2>1
  <1>7. \A x \in hooked : x.startup = {}
    BY <1>3
  <1>8. \A x \in started : x.startup \subseteq StartupModule
    <2>1. TAKE x \in started
    <2>2. PICK m \in StartupModule : x = [sound EXCEPT !.startup = {m}]
      BY Zenon
    <2>3. x.startup = {m}
      BY <1>3, <2>2
    <2> QED BY <2>3
  <1>9. \A x \in interpreted : x.startup = {}
    BY <1>3
  <1> HIDE DEF missing, added, replaced, hooked, started, interpreted
  <1>10. env \in UNION replaced => env.startup = {}
    BY <1>6
  <1>11. env.startup = {} \/ env \in started
    BY <1>1, <1>4, <1>5, <1>7, <1>9, <1>10
  <1> QED BY <1>8, <1>11

LEMMA GateStarts ==
  ASSUME GateInit
  PROVE  GateInv
  <1>1. gate.lines = <<>> /\ gate.scan = EmptyScan /\ gate.step = "manifest"
    BY DEF GateInit, NoGate
  <1>2. EmptyScan \in ScanState
    BY DEF EmptyScan, ScanState
  <1>3. GateTypeOK
    BY <1>1, <1>2 DEF GateTypeOK, GateInit, NoGate
  <1> QED BY <1>1, <1>3 DEF GateInv, LockfileInv, GatesProveTheWorker

\* A refusal ends the gate.
LEMMA RefusalEnds ==
  ASSUME NEW error, GateRefuses(error)
  PROVE  GateInv'
  <1>1. gate' = [step |-> "end", manifest |-> NoDigest, lines |-> <<>>, scan |-> EmptyScan,
                 found |-> NoDigest, outcome |-> error]
    BY DEF GateRefuses, NoGate
  <1>2. EmptyScan \in ScanState
    BY DEF EmptyScan, ScanState
  <1>3. GateTypeOK'
    BY <1>1, <1>2 DEF GateTypeOK
  <1> QED BY <1>1, <1>3 DEF GateInv, LockfileInv, GatesProveTheWorker

\* A step past the lockfile keeps what the gate still holds of it.
LEMMA PastTheLockfile ==
  ASSUME GateTypeOK, NEW step, step \notin {"manifest", "lock"}, NEW lines \in {<<>>, gate.lines}, NEW found,
         gate' = [gate EXCEPT !.step = step, !.lines = lines, !.found = found]
  PROVE  /\ GateTypeOK' /\ LockfileInv'
         /\ gate'.step = step /\ gate'.manifest = gate.manifest
         /\ gate'.scan = gate.scan /\ gate'.found = found
  <1>1. /\ gate = [step |-> gate.step, manifest |-> gate.manifest, lines |-> gate.lines,
                   scan |-> gate.scan, found |-> gate.found, outcome |-> gate.outcome]
        /\ gate.lines \in Seq(LockLine) /\ gate.scan \in ScanState
    BY DEF GateTypeOK
  <1>2. gate' = [step |-> step, manifest |-> gate.manifest, lines |-> lines,
                 scan |-> gate.scan, found |-> found, outcome |-> gate.outcome]
    BY <1>1
  <1>3. lines \in Seq(LockLine)
    <2>1. <<>> \in Seq(LockLine)
      OBVIOUS
    <2> QED BY <1>1, <2>1, Zenon
  <1>4. GateTypeOK'
    BY <1>1, <1>2, <1>3 DEF GateTypeOK
  <1> QED BY <1>2, <1>4 DEF LockfileInv

LEMMA GateInvStep ==
  ASSUME GateInv, [GateStep]_gate
  PROVE  GateInv'
  <1>1. /\ gate = [step |-> gate.step, manifest |-> gate.manifest, lines |-> gate.lines,
                   scan |-> gate.scan, found |-> gate.found, outcome |-> gate.outcome]
        /\ gate.lines \in Seq(LockLine) /\ gate.scan \in ScanState
    BY DEF GateInv, GateTypeOK
  <1>2. GateTypeOK
    BY DEF GateInv
  <1>3. ASSUME ReadManifest
        PROVE  GateInv'
    <2>1. PICK raw : \/ GateRefuses(LoadManifest(raw))
                     \/ gate' = [gate EXCEPT !.step = "lock", !.manifest = raw]
      BY <1>3 DEF ReadManifest
    <2>2. CASE gate' = [gate EXCEPT !.step = "lock", !.manifest = raw]
      <3>1. gate' = [step |-> "lock", manifest |-> raw, lines |-> gate.lines,
                     scan |-> gate.scan, found |-> gate.found, outcome |-> gate.outcome]
        BY <1>1, <2>2
      <3>2. gate.lines = <<>> /\ gate.scan = EmptyScan
        BY <1>3 DEF ReadManifest, GateInv, LockfileInv
      <3>3. ReadsTheLines(<<>>, EmptyScan) /\ ~EmptyScan.refused
        BY NoLines DEF EmptyScan
      <3>4. ScanIsTrue(gate'.lines, gate'.scan)
        BY <3>1, <3>2, <3>3 DEF ScanIsTrue
      <3>5. GateTypeOK'
        BY <1>1, <3>1 DEF GateTypeOK
      <3> QED BY <3>1, <3>4, <3>5 DEF GateInv, LockfileInv, GatesProveTheWorker
    <2> QED BY <2>1, <2>2, RefusalEnds
  <1>4. ASSUME ReadLockLine
        PROVE  GateInv'
    <2>1. PICK line \in LockLine :
             gate' = [gate EXCEPT !.lines = Append(@, line), !.scan = ScanLine(@, line)]
      BY <1>4 DEF ReadLockLine
    <2>2. PICK after : after = ScanLine(gate.scan, line)
      OBVIOUS
    <2>3. gate' = [step |-> gate.step, manifest |-> gate.manifest, lines |-> Append(gate.lines, line),
                   scan |-> after, found |-> gate.found, outcome |-> gate.outcome]
      BY <1>1, <2>1, <2>2
    <2>4. gate.step = "lock" /\ ~gate.scan.refused
      BY <1>4 DEF ReadLockLine
    <2>5. ReadsTheLines(gate.lines, gate.scan)
      BY <2>4 DEF GateInv, LockfileInv, ScanIsTrue
    <2>6. after \in ScanState /\ ScanIsTrue(Append(gate.lines, line), after)
      BY <1>1, <2>2, <2>4, <2>5, LineIsScanned
    <2>7. Append(gate.lines, line) \in Seq(LockLine)
      BY <1>1
    <2>8. GateTypeOK'
      BY <2>3, <2>6, <2>7 DEF GateTypeOK
    <2> QED BY <2>3, <2>4, <2>6, <2>8 DEF GateInv, LockfileInv, GatesProveTheWorker
  <1>5. ASSUME EndLockfile
        PROVE  GateInv'
    <2>1. CASE GateRefuses("UnreadableWorkerLockfile")
      BY <2>1, RefusalEnds
    <2>2. CASE gate' = [gate EXCEPT !.step = "requirements", !.lines = <<>>]
      <3>1. gate' = [gate EXCEPT !.step = "requirements", !.lines = <<>>, !.found = gate.found]
        BY <1>1, <2>2
      <3>2. GateTypeOK' /\ LockfileInv' /\ gate'.step = "requirements"
        BY <1>2, <3>1, PastTheLockfile
      <3> QED BY <3>2 DEF GateInv, GatesProveTheWorker
    <2> QED BY <1>5, <2>1, <2>2 DEF EndLockfile
  <1>6. ASSUME CheckRequirements
        PROVE  GateInv'
    <2>1. PICK result : GateRefuses(result) \/ gate' = [gate EXCEPT !.step = "environment"]
      BY <1>6 DEF CheckRequirements
    <2>2. CASE gate' = [gate EXCEPT !.step = "environment"]
      <3>1. gate' = [gate EXCEPT !.step = "environment", !.lines = gate.lines, !.found = gate.found]
        BY <1>1, <2>2
      <3>2. GateTypeOK' /\ LockfileInv' /\ gate'.step = "environment"
        BY <1>2, <3>1, PastTheLockfile
      <3> QED BY <3>2 DEF GateInv, GatesProveTheWorker
    <2> QED BY <2>1, <2>2, RefusalEnds
  <1>7. ASSUME CheckInstalled
        PROVE  GateInv'
    <2>1. PICK env \in Environments(gate.manifest, gate.scan.pins) :
             LET result == CheckEnvironment(gate.manifest, gate.scan.pins,
                                            Probe(env, Locked(gate.scan.pins)))
             IN  IF result # "ok" THEN GateRefuses(result)
                 ELSE gate' = [gate EXCEPT !.step = "inputs", !.found = env]
      BY <1>7 DEF CheckInstalled
    <2>2. PICK result : result = CheckEnvironment(gate.manifest, gate.scan.pins,
                                                  Probe(env, Locked(gate.scan.pins)))
      OBVIOUS
    <2>3. CASE result # "ok"
      BY <2>1, <2>2, <2>3, RefusalEnds
    <2>4. CASE result = "ok"
      <3>1. gate' = [gate EXCEPT !.step = "inputs", !.found = env]
        BY <2>1, <2>2, <2>4
      <3>2. gate' = [gate EXCEPT !.step = "inputs", !.lines = gate.lines, !.found = env]
        BY <1>1, <3>1
      <3>3. /\ GateTypeOK' /\ LockfileInv' /\ gate'.step = "inputs" /\ gate'.manifest = gate.manifest
            /\ gate'.scan = gate.scan /\ gate'.found = env
        BY <1>2, <3>2, PastTheLockfile
      <3>4. gate.scan.pins \in Seq(LockedDistribution)
        BY <1>1 DEF ScanState
      <3>5. Authenticated(gate.manifest, gate.scan.pins, env)
        BY <2>2, <2>4, <3>4, StartupModulesOf, EnvironmentIsAuthenticated
      <3> QED BY <3>3, <3>5 DEF GateInv, GatesProveTheWorker
    <2> QED BY <2>3, <2>4
  <1>8. ASSUME HashInputs
        PROVE  GateInv'
    <2>1. PICK unreadable, modules :
             LET result == HashBundle(gate.manifest, unreadable, modules)
             IN  IF result # "ok" THEN GateRefuses(result)
                 ELSE gate' = [gate EXCEPT !.step = "model", !.found = modules]
      BY <1>8 DEF HashInputs
    <2>2. PICK result : result = HashBundle(gate.manifest, unreadable, modules)
      OBVIOUS
    <2>3. CASE result # "ok"
      BY <2>1, <2>2, <2>3, RefusalEnds
    <2>4. CASE result = "ok"
      <3>1. gate' = [gate EXCEPT !.step = "model", !.lines = gate.lines, !.found = modules]
        BY <1>1, <2>1, <2>2, <2>4
      <3>2. /\ GateTypeOK' /\ LockfileInv' /\ gate'.step = "model" /\ gate'.manifest = gate.manifest
            /\ gate'.found = modules
        BY <1>2, <3>1, PastTheLockfile
      <3>3. modules \cup RequiredInputs \subseteq gate.manifest.inputs
        BY <2>2, <2>4, BundleIsWhole
      <3> QED BY <3>2, <3>3 DEF GateInv, GatesProveTheWorker
    <2> QED BY <2>3, <2>4
  <1>9. ASSUME VerifyModel
        PROVE  GateInv'
    <2>1. PICK found : \/ GateRefuses(VerifyArtifact(found))
                       \/ gate' = [NoGate EXCEPT !.step = "voices"]
      BY <1>9 DEF VerifyModel
    <2>2. CASE gate' = [NoGate EXCEPT !.step = "voices"]
      <3>1. gate' = [step |-> "voices", manifest |-> NoDigest, lines |-> <<>>, scan |-> EmptyScan,
                     found |-> NoDigest, outcome |-> "none"]
        BY <2>2 DEF NoGate
      <3>2. EmptyScan \in ScanState
        BY DEF EmptyScan, ScanState
      <3>3. GateTypeOK'
        BY <3>1, <3>2 DEF GateTypeOK
      <3> QED BY <3>1, <3>3 DEF GateInv, LockfileInv, GatesProveTheWorker
    <2> QED BY <2>1, <2>2, RefusalEnds
  <1>10. ASSUME AdmitVoices
         PROVE  GateInv'
    <2>1. PICK root, requested :
             LET result == AdmitVoiceRoot(root, requested)
             IN  IF result # "ok" THEN GateRefuses(result)
                 ELSE gate' = [gate EXCEPT !.step = "launcher",
                                           !.found = [root |-> root, requested |-> requested]]
      BY <1>10 DEF AdmitVoices
    <2>2. PICK result : result = AdmitVoiceRoot(root, requested)
      OBVIOUS
    <2>3. CASE result # "ok"
      BY <2>1, <2>2, <2>3, RefusalEnds
    <2>4. CASE result = "ok"
      <3>1. PICK found : found = [root |-> root, requested |-> requested]
        OBVIOUS
      <3>2. gate' = [gate EXCEPT !.step = "launcher", !.lines = gate.lines, !.found = found]
        BY <1>1, <2>1, <2>2, <2>4, <3>1
      <3>3. GateTypeOK' /\ LockfileInv' /\ gate'.step = "launcher" /\ gate'.found = found
        BY <1>2, <3>2, PastTheLockfile
      <3>4. gate'.found.root = root /\ gate'.found.requested = requested
        BY <3>1, <3>3
      <3>5. \A e \in WorkerLoads(root) : IsAdmissible(e, requested)
        BY <2>2, <2>4, RootIsAdmissible
      <3>6. WorkerLoads(root) # {} => ~WorkerRefusesVoices(root)
        BY <3>5 DEF WorkerRefusesVoices, IsAdmissible
      <3>7. GatesProveTheWorker'
        BY <3>3, <3>4, <3>5, <3>6 DEF GatesProveTheWorker, IsAdmissible
      <3> QED BY <3>3, <3>7 DEF GateInv
    <2> QED BY <2>3, <2>4
  <1>11. ASSUME LaunchReads
         PROVE  GateInv'
    <2>1. PICK file : \/ GateRefuses(ReadLauncher(file))
                      \/ gate' = [NoGate EXCEPT !.step = "end", !.outcome = "ok"]
      BY <1>11 DEF LaunchReads
    <2>2. CASE gate' = [NoGate EXCEPT !.step = "end", !.outcome = "ok"]
      BY <2>2, RefusalEnds DEF GateRefuses
    <2> QED BY <2>1, <2>2, RefusalEnds
  <1>12. ASSUME GateFails
         PROVE  GateInv'
    BY <1>12, RefusalEnds DEF GateFails
  <1>13. ASSUME UNCHANGED gate
         PROVE  GateInv'
    BY <1>13 DEF GateInv, GateTypeOK, LockfileInv, GatesProveTheWorker
  <1> QED BY <1>3, <1>4, <1>5, <1>6, <1>7, <1>8, <1>9, <1>10, <1>11, <1>12, <1>13 DEF GateStep

\* The inductive invariant: what the scanner's locals know of the lines it has read,
\* and what each gate has proved when the next one starts.
THEOREM GateInvariant == GateSpec => []GateInv
  <1>1. GateInit => GateInv
    BY GateStarts
  <1>2. GateInv /\ [GateStep]_gate => GateInv'
    BY GateInvStep
  <1> QED BY <1>1, <1>2, PTL DEF GateSpec

\* parse_lockfile is the grammar of the lockfile, for a file of any length: it accepts
\* the well-formed ones, returns their pins in order, and what it has refused no
\* further line can mend.
THEOREM LockfileIsItsGrammar == GateSpec => []LockScannerIsTheGrammar
  <1>1. GateInv => LockScannerIsTheGrammar
    BY LockfileIsRead DEF GateInv
  <1> QED BY <1>1, GateInvariant, PTL

\* A worker is started with the code, the modules and the voices the gates have
\* checked, whatever they found.
THEOREM WorkerIsProved == GateSpec => []GatesProveTheWorker
  <1>1. GateInv => GatesProveTheWorker
    BY DEF GateInv
  <1> QED BY <1>1, GateInvariant, PTL

-----------------------------------------------------------------------------
(* The two readers of a request. *)

FrameError ==
    {"TooLarge", "NotSingleFrame", "Malformed", "UnsupportedVersion", "EmptyRequestId", "NonAsciiRequestId",
     "RequestIdTooLong", "ExtensionRequiresVersion"}
CheckPair == BOOLEAN \X FrameError

LEMMA ListOfOne ==
  ASSUME NEW check \in CheckPair, check[2] # "ok"
  PROVE  /\ IsListOfChecks(<<check>>)
         /\ FirstFault(<<check>>) = IF check[1] THEN check[2] ELSE "ok"
  <1>1. PICK checks : checks = <<check>>
    OBVIOUS
  <1>2. checks \in Seq(CheckPair) /\ DOMAIN checks = 1 .. 1 /\ checks[1] = check
    BY <1>1
  <1>3. FirstFault(checks) = IF check[1] THEN check[2] ELSE "ok"
    <2>1. \/ FirstFault(checks) = "ok" /\ \A i \in 1 .. 1 : ~checks[i][1]
          \/ \E i \in 1 .. 1 : checks[i][1] /\ FirstFault(checks) = checks[i][2]
      BY <1>2, FirstFaultOfChecks
    <2> QED BY <1>2, <2>1
  <1>4. IsListOfChecks(checks)
    BY <1>2 DEF IsListOfChecks
  <1> QED BY <1>1, <1>3, <1>4

LEMMA FrameIsOneLine ==
  ASSUME NEW r \in RawRequest
  PROVE  /\ IsListOfChecks(ValidateFrameBytes(r))
         /\ FirstFault(ValidateFrameBytes(r)) =
              IF ~r.fits THEN "TooLarge" ELSE IF ~r.single THEN "NotSingleFrame" ELSE "ok"
  <1>1. PICK long, many \in BOOLEAN : long = ~r.fits /\ many = ~r.single
    OBVIOUS
  <1>2. PICK a, b : a = <<long, "TooLarge">> /\ b = <<many, "NotSingleFrame">>
    OBVIOUS
  <1>3. a \in CheckPair /\ (a[1] <=> long) /\ a[2] = "TooLarge"
    BY <1>2 DEF CheckPair, FrameError
  <1>4. b \in CheckPair /\ (b[1] <=> many) /\ b[2] = "NotSingleFrame"
    BY <1>2 DEF CheckPair, FrameError
  <1>5. ValidateFrameBytes(r) = <<a, b>>
    BY <1>1, <1>2, Zenon DEF ValidateFrameBytes
  <1>6. PICK checks : checks = <<a, b>>
    OBVIOUS
  <1>7. checks \in Seq(CheckPair) /\ DOMAIN checks = 1 .. 2 /\ checks[1] = a /\ checks[2] = b
    BY <1>3, <1>4, <1>6
  <1>8. \A i \in 1 .. 2 : checks[i][2] # "ok"
    BY <1>3, <1>4, <1>7
  <1>9. FirstFault(checks) = IF long THEN "TooLarge" ELSE IF many THEN "NotSingleFrame" ELSE "ok"
    <2>1. \A i \in 1 .. 2 :
             checks[i][1] /\ (\A j \in 1 .. i - 1 : ~checks[j][1]) => FirstFault(checks) = checks[i][2]
      BY <1>7, FirstFaultIsAt
    <2>2. FirstFault(checks) = "ok" <=> \A i \in 1 .. 2 : ~checks[i][1]
      BY <1>7, <1>8, FirstFaultAccepts
    <2> QED BY <1>3, <1>4, <1>7, <2>1, <2>2
  <1>10. IsListOfChecks(checks)
    BY <1>7, <1>8 DEF IsListOfChecks
  <1> QED BY <1>1, <1>5, <1>6, <1>9, <1>10

LEMMA IdentityIsChecked ==
  ASSUME NEW id
  PROVE  /\ IsListOfChecks(ValidateRequestIdentity(id))
         /\ FirstFault(ValidateRequestIdentity(id)) = "ok" <=> id \notin {"empty", "wide", "long"}
         /\ FirstFault(ValidateRequestIdentity(id)) \in
              {"ok", "EmptyRequestId", "NonAsciiRequestId", "RequestIdTooLong"}
  <1>1. PICK empty, wide, long \in BOOLEAN : empty = (id = "empty") /\ wide = (id = "wide") /\ long = (id = "long")
    OBVIOUS
  <1>2. PICK a, b, c : /\ a = <<empty, "EmptyRequestId">> /\ b = <<wide, "NonAsciiRequestId">>
                       /\ c = <<long, "RequestIdTooLong">>
    OBVIOUS
  <1>3. a \in CheckPair /\ (a[1] <=> empty) /\ a[2] = "EmptyRequestId"
    BY <1>2 DEF CheckPair, FrameError
  <1>4. b \in CheckPair /\ (b[1] <=> wide) /\ b[2] = "NonAsciiRequestId"
    BY <1>2 DEF CheckPair, FrameError
  <1>5. c \in CheckPair /\ (c[1] <=> long) /\ c[2] = "RequestIdTooLong"
    BY <1>2 DEF CheckPair, FrameError
  <1>6. ValidateRequestIdentity(id) = <<a, b, c>>
    BY <1>1, <1>2, Zenon DEF ValidateRequestIdentity
  <1>7. PICK checks : checks = <<a, b, c>>
    OBVIOUS
  <1>8. /\ checks \in Seq(CheckPair) /\ DOMAIN checks = 1 .. 3
        /\ checks[1] = a /\ checks[2] = b /\ checks[3] = c
    BY <1>3, <1>4, <1>5, <1>7
  <1>9. \A i \in 1 .. 3 : checks[i] = a \/ checks[i] = b \/ checks[i] = c
    BY <1>8
  <1>10. \A i \in 1 .. 3 : checks[i][2] # "ok"
    BY <1>3, <1>4, <1>5, <1>9
  <1>11. FirstFault(checks) = "ok" <=> ~empty /\ ~wide /\ ~long
    <2>1. FirstFault(checks) = "ok" <=> \A i \in 1 .. 3 : ~checks[i][1]
      BY <1>8, <1>10, FirstFaultAccepts
    <2>2. (\A i \in 1 .. 3 : ~checks[i][1]) <=> ~a[1] /\ ~b[1] /\ ~c[1]
      BY <1>8, <1>9
    <2> QED BY <1>3, <1>4, <1>5, <2>1, <2>2
  <1>12. FirstFault(checks) \in {"ok", "EmptyRequestId", "NonAsciiRequestId", "RequestIdTooLong"}
    <2>1. \/ FirstFault(checks) = "ok"
          \/ \E i \in 1 .. 3 : FirstFault(checks) = checks[i][2]
      BY <1>8, FirstFaultOfChecks
    <2> QED BY <1>3, <1>4, <1>5, <1>9, <2>1
  <1>13. IsListOfChecks(checks)
    BY <1>8, <1>10 DEF IsListOfChecks
  <1> QED BY <1>1, <1>6, <1>7, <1>11, <1>12, <1>13

\* What worker_protocol.rs makes of a frame.
LEMMA RustReads ==
  ASSUME NEW r \in RawRequest, NEW rust, rust = ParseWorkerRequest(r)
  PROVE  /\ rust = "ok" <=>
              /\ r.fits /\ r.single /\ ~IsMalformed(r) /\ r.version \in AcceptedVersions
              /\ r.id \notin {"empty", "wide", "long"}
              /\ r.method = "cancel" => r.active \notin {"empty", "wide", "long"}
              /\ ~(UsesTrace(r) /\ r.version # "2.1")
         /\ rust \in {"UnsupportedVersion", "ExtensionRequiresVersion"} =>
              r.fits /\ r.single /\ ~IsMalformed(r)
  <1>1. PICK frame : frame = ValidateFrameBytes(r)
    OBVIOUS
  <1>2. PICK malformed, unsupported, extends \in BOOLEAN :
           /\ malformed = IsMalformed(r) /\ unsupported = (r.version \notin AcceptedVersions)
           /\ extends = (UsesTrace(r) /\ r.version # "2.1")
    BY DEF IsMalformed
  <1>3. PICK shape, version, extension :
           /\ shape = <<malformed, "Malformed">> /\ version = <<unsupported, "UnsupportedVersion">>
           /\ extension = <<extends, "ExtensionRequiresVersion">>
    OBVIOUS
  <1>4. PICK id : id = ValidateRequestIdentity(r.id)
    OBVIOUS
  <1>5. PICK named : named = ValidateRequestIdentity(r.active)
    OBVIOUS
  <1>6. PICK active : active = IF r.method = "cancel" THEN named ELSE <<>>
    OBVIOUS
  <1>7. rust = FirstFault(frame \o <<shape>> \o <<version>> \o id \o active \o <<extension>>)
    BY <1>1, <1>2, <1>3, <1>4, <1>5, <1>6, Zenon DEF ParseWorkerRequest, ValidateVersion
  <1>8. PICK one : one = frame \o <<shape>>
    OBVIOUS
  <1>9. PICK two : two = one \o <<version>>
    OBVIOUS
  <1>10. PICK three : three = two \o id
    OBVIOUS
  <1>11. PICK four : four = three \o active
    OBVIOUS
  <1>12. PICK five : five = four \o <<extension>>
    OBVIOUS
  <1>13. rust = FirstFault(five)
    BY <1>7, <1>8, <1>9, <1>10, <1>11, <1>12, Zenon
  <1>14. IsListOfChecks(frame)
    BY <1>1, FrameIsOneLine
  <1>15. IsListOfChecks(<<shape>>) /\ FirstFault(<<shape>>) = IF malformed THEN "Malformed" ELSE "ok"
    <2>1. shape \in CheckPair /\ (shape[1] <=> malformed) /\ shape[2] = "Malformed"
      BY <1>3 DEF CheckPair, FrameError
    <2> QED BY <2>1, ListOfOne
  <1>16. IsListOfChecks(<<version>>) /\ FirstFault(<<version>>) = IF unsupported THEN "UnsupportedVersion" ELSE "ok"
    <2>1. version \in CheckPair /\ (version[1] <=> unsupported) /\ version[2] = "UnsupportedVersion"
      BY <1>3 DEF CheckPair, FrameError
    <2> QED BY <2>1, ListOfOne
  <1>17. /\ IsListOfChecks(<<extension>>)
         /\ FirstFault(<<extension>>) = IF extends THEN "ExtensionRequiresVersion" ELSE "ok"
    <2>1. extension \in CheckPair /\ (extension[1] <=> extends) /\ extension[2] = "ExtensionRequiresVersion"
      BY <1>3 DEF CheckPair, FrameError
    <2> QED BY <2>1, ListOfOne
  <1>18. IsListOfChecks(id)
    BY <1>4, IdentityIsChecked
  <1>19. /\ IsListOfChecks(active)
         /\ FirstFault(active) = "ok" <=> (r.method = "cancel" => r.active \notin {"empty", "wide", "long"})
         /\ FirstFault(active) \in {"ok", "EmptyRequestId", "NonAsciiRequestId", "RequestIdTooLong"}
    <2>1. CASE r.method = "cancel"
      BY <1>5, <1>6, <2>1, IdentityIsChecked
    <2>2. CASE r.method # "cancel"
      <3>1. active = <<>>
        BY <1>6, <2>2
      <3>2. active \in Seq(CheckPair) /\ DOMAIN active = {}
        BY <3>1
      <3>3. FirstFault(active) = "ok" /\ IsListOfChecks(active)
        BY <3>2 DEF FirstFault, IsListOfChecks
      <3> QED BY <2>2, <3>3
    <2> QED BY <2>1, <2>2
  <1>20. /\ IsListOfChecks(one)
         /\ FirstFault(one) = IF FirstFault(frame) = "ok" THEN FirstFault(<<shape>>) ELSE FirstFault(frame)
    BY <1>8, <1>14, <1>15, RefusedBefore
  <1>21. /\ IsListOfChecks(two)
         /\ FirstFault(two) = IF FirstFault(one) = "ok" THEN FirstFault(<<version>>) ELSE FirstFault(one)
    BY <1>9, <1>16, <1>20, RefusedBefore
  <1>22. /\ IsListOfChecks(three)
         /\ FirstFault(three) = IF FirstFault(two) = "ok" THEN FirstFault(id) ELSE FirstFault(two)
    BY <1>10, <1>18, <1>21, RefusedBefore
  <1>23. /\ IsListOfChecks(four)
         /\ FirstFault(four) = IF FirstFault(three) = "ok" THEN FirstFault(active) ELSE FirstFault(three)
    BY <1>11, <1>19, <1>22, RefusedBefore
  <1>24. FirstFault(five) = IF FirstFault(four) = "ok" THEN FirstFault(<<extension>>) ELSE FirstFault(four)
    BY <1>12, <1>17, <1>23, RefusedBefore
  <1>25. rust = IF FirstFault(frame) # "ok" THEN FirstFault(frame)
                ELSE IF malformed THEN "Malformed"
                ELSE IF unsupported THEN "UnsupportedVersion"
                ELSE IF FirstFault(id) # "ok" THEN FirstFault(id)
                ELSE IF FirstFault(active) # "ok" THEN FirstFault(active)
                ELSE IF extends THEN "ExtensionRequiresVersion" ELSE "ok"
    <2> HIDE <1>1, <1>2, <1>3, <1>4, <1>5, <1>6, <1>7, <1>8, <1>9, <1>10, <1>11, <1>12
    <2> QED BY <1>13, <1>15, <1>16, <1>17, <1>20, <1>21, <1>22, <1>23, <1>24
  <1>26. FirstFault(frame) = IF ~r.fits THEN "TooLarge" ELSE IF ~r.single THEN "NotSingleFrame" ELSE "ok"
    BY <1>1, FrameIsOneLine
  <1>27. /\ FirstFault(id) = "ok" <=> r.id \notin {"empty", "wide", "long"}
         /\ FirstFault(id) \in {"ok", "EmptyRequestId", "NonAsciiRequestId", "RequestIdTooLong"}
    BY <1>4, IdentityIsChecked
  <1>28. r.fits \in BOOLEAN /\ r.single \in BOOLEAN
    BY DEF RawRequest
  <1>29. rust = "ok" <=>
            /\ r.fits /\ r.single /\ ~malformed /\ ~unsupported
            /\ FirstFault(id) = "ok" /\ FirstFault(active) = "ok" /\ ~extends
    BY <1>25, <1>26, <1>28
  <1>30. rust \in {"UnsupportedVersion", "ExtensionRequiresVersion"} => r.fits /\ r.single /\ ~malformed
    BY <1>19, <1>25, <1>26, <1>27, <1>28
  <1> QED BY <1>2, <1>19, <1>27, <1>29, <1>30

\* What protocol.py makes of it.
LEMMA PythonReads ==
  ASSUME NEW r
  PROVE  ReadRequest(r) = "ok" <=>
            /\ r.fits /\ r.single /\ r.json = "object" /\ r.method \notin {"notText", "other"}
            /\ r.version # "notText" /\ r.version \in AcceptedVersions /\ ~CheckObject(r)
            /\ ~(CarriesTrace(r) /\ r.version # "2.1")
  <1>1. PICK checks :
          checks = << <<~r.fits, "ceiling">>, <<~r.single, "terminator">>,
                  <<r.json # "object", "notAnObject">>,
                  <<r.method = "notText", "methodNotText">>,
                  <<r.method = "other", "unsupportedMethod">>,
                  <<r.version = "notText", "versionNotText">>,
                  <<r.version \notin AcceptedVersions, "unsupportedVersion">>,
                  <<CheckObject(r), "object">>,
                  <<CarriesTrace(r) /\ r.version # "2.1", "extension">> >>
    OBVIOUS
  <1>2. ReadRequest(r) = FirstFault(checks)
    BY <1>1, Zenon DEF ReadRequest
  <1>3. DOMAIN checks = 1 .. 9 /\ \A i \in 1 .. 9 : checks[i][2] # "ok"
    BY <1>1
  <1>4. FirstFault(checks) = "ok" <=> \A i \in 1 .. 9 : ~checks[i][1]
    BY <1>3, FirstFaultAccepts
  <1>5. \A i \in 1 .. 9 : i = 1 \/ i = 2 \/ i = 3 \/ i = 4 \/ i = 5 \/ i = 6 \/ i = 7 \/ i = 8 \/ i = 9
    OBVIOUS
  <1>6. (\A i \in 1 .. 9 : ~checks[i][1]) <=>
           /\ ~checks[1][1] /\ ~checks[2][1] /\ ~checks[3][1] /\ ~checks[4][1] /\ ~checks[5][1]
           /\ ~checks[6][1] /\ ~checks[7][1] /\ ~checks[8][1] /\ ~checks[9][1]
    BY <1>5
  <1>7. /\ checks[1][1] <=> ~r.fits
        /\ checks[2][1] <=> ~r.single
        /\ checks[3][1] <=> r.json # "object"
        /\ checks[4][1] <=> r.method = "notText"
        /\ checks[5][1] <=> r.method = "other"
        /\ checks[6][1] <=> r.version = "notText"
        /\ checks[7][1] <=> r.version \notin AcceptedVersions
        /\ checks[8][1] <=> CheckObject(r)
        /\ checks[9][1] <=> CarriesTrace(r) /\ r.version # "2.1"
    BY <1>1
  <1> QED BY <1>2, <1>4, <1>6, <1>7

\* Where the derived readers of worker_protocol.rs and the checks of protocol.py differ
\* about the parameters, the encoding is one that only one of them reads.
LEMMA ParametersAreReadAlike ==
  ASSUME NEW r \in RawRequest
  PROVE  /\ ~DerivedReadersRefuse(r) /\ ~IsPositional(r) => ~ParametersFail(r)
         /\ ~ParametersFail(r) /\ ~OnlyPythonReads(r) => ~DerivedReadersRefuse(r)
  <1>1. /\ r.body \in {"good"} \cup Oddity
        /\ r.trace \in {"absent", "null", "object", "mistyped", "surrogate", "positional"}
    BY DEF RawRequest
  <1>2. ASSUME ~DerivedReadersRefuse(r), ~IsPositional(r)
        PROVE  ~ParametersFail(r)
    <2>1. r.body # "positional" /\ r.trace # "positional"
      BY <1>2 DEF IsPositional
    <2>2. r.method = "initialize" => r.body # "negativeZero"
      BY <1>2 DEF DerivedReadersRefuse, HasParameters
    <2> QED BY <1>2, <2>1, <2>2 DEF DerivedReadersRefuse, ParametersFail
  <1>3. ASSUME ~ParametersFail(r), ~OnlyPythonReads(r)
        PROVE  ~DerivedReadersRefuse(r)
    <2>1. r.body \notin {"negativeZero", "surrogate"} /\ r.trace # "surrogate"
      BY <1>3 DEF OnlyPythonReads
    <2> QED BY <1>3, <2>1 DEF DerivedReadersRefuse, ParametersFail
  <1> QED BY <1>2, <1>3

\* A trace is seen by both ends in a frame without arrays, and by the worker wherever
\* Rust sees one.
LEMMA TraceIsSeenAlike ==
  ASSUME NEW r
  PROVE  /\ UsesTrace(r) => CarriesTrace(r)
         /\ CarriesTrace(r) /\ r.json = "object" /\ ~IsPositional(r) => UsesTrace(r)
  BY DEF UsesTrace, CarriesTrace, IsPositional

\* worker_protocol.rs and protocol.py accept the same frames, of all they tell apart, but
\* for the encodings only one of them reads: of an object, what serde refuses for its
\* shape, or the identity checks refuse after it, the worker refuses too, and the other
\* way round; and a refusal the client could await reaches the request it is for.
THEOREM EveryFrameIsReadAlike ==
  ASSUME NEW r \in RawRequest
  PROVE  /\ ParseWorkerRequest(r) = "ok" /\ ~IsPositional(r) => ReadRequest(r) = "ok"
         /\ ReadRequest(r) = "ok" /\ ~OnlyPythonReads(r) => ParseWorkerRequest(r) = "ok"
         /\ /\ ParseWorkerRequest(r) \in {"UnsupportedVersion", "ExtensionRequiresVersion"}
            /\ r.json = "object" /\ r.id = "ascii"
            => RecoveredId(r) = "own"
  <1>1. /\ r.id \in RequestId /\ r.active \in RequestId /\ r.version \in Version
        /\ r.method \in Method \cup {"other", "notText"}
    BY DEF RawRequest
  <1>2. PICK rust : rust = ParseWorkerRequest(r)
    OBVIOUS
  <1>3. /\ rust = "ok" <=>
             /\ r.fits /\ r.single /\ ~IsMalformed(r) /\ r.version \in AcceptedVersions
             /\ r.id \notin {"empty", "wide", "long"}
             /\ r.method = "cancel" => r.active \notin {"empty", "wide", "long"}
             /\ ~(UsesTrace(r) /\ r.version # "2.1")
        /\ rust \in {"UnsupportedVersion", "ExtensionRequiresVersion"} =>
             r.fits /\ r.single /\ ~IsMalformed(r)
    BY <1>2, RustReads
  <1>4. /\ ~IsMalformed(r) <=>
             /\ r.json \in {"object", "positional"} /\ r.method \notin {"notText", "other"}
             /\ r.version # "notText" /\ r.id \notin {"notText", "missing"}
             /\ r.method = "cancel" => r.active \notin {"notText", "missing"}
             /\ ~DerivedReadersRefuse(r)
    BY <1>1 DEF IsMalformed, Method
  <1>5. ~CheckObject(r) <=>
             r.id = "ascii" /\ (r.method = "cancel" => r.active = "ascii") /\ ~ParametersFail(r)
    BY DEF CheckObject, IdentityFails
  <1>6. \A id \in RequestId : id = "ascii" <=> id \notin {"empty", "wide", "long"} /\ id \notin {"notText", "missing"}
    BY DEF RequestId
  <1>7. ReadRequest(r) = "ok" <=>
            /\ r.fits /\ r.single /\ r.json = "object" /\ r.method \notin {"notText", "other"}
            /\ r.version # "notText" /\ r.version \in AcceptedVersions /\ ~CheckObject(r)
            /\ ~(CarriesTrace(r) /\ r.version # "2.1")
    BY PythonReads
  <1>8. ASSUME rust = "ok", ~IsPositional(r)
        PROVE  ReadRequest(r) = "ok"
    <2>1. r.json = "object"
      BY <1>3, <1>4, <1>8 DEF IsPositional
    <2>2. ~ParametersFail(r)
      BY <1>3, <1>4, <1>8, ParametersAreReadAlike
    <2>3. ~(CarriesTrace(r) /\ r.version # "2.1")
      BY <1>3, <1>8, <2>1, TraceIsSeenAlike
    <2>4. ~CheckObject(r)
      BY <1>1, <1>3, <1>4, <1>5, <1>6, <1>8, <2>2
    <2> QED BY <1>3, <1>4, <1>7, <1>8, <2>1, <2>3, <2>4
  <1>9. ASSUME ReadRequest(r) = "ok", ~OnlyPythonReads(r)
        PROVE  rust = "ok"
    <2>1. ~DerivedReadersRefuse(r)
      BY <1>5, <1>7, <1>9, ParametersAreReadAlike
    <2>2. ~(UsesTrace(r) /\ r.version # "2.1")
      BY <1>7, <1>9, TraceIsSeenAlike
    <2>3. ~IsMalformed(r)
      BY <1>1, <1>4, <1>5, <1>6, <1>7, <1>9, <2>1
    <2> QED BY <1>1, <1>3, <1>5, <1>6, <1>7, <1>9, <2>2, <2>3
  <1>10. rust \in {"UnsupportedVersion", "ExtensionRequiresVersion"} /\ r.json = "object" /\ r.id = "ascii" =>
           RecoveredId(r) = "own"
    BY <1>3 DEF RecoveredId
  <1> QED BY <1>2, <1>8, <1>9, <1>10

LEMMA BentIsRaw ==
  ASSUME NEW r \in RawRequest
  PROVE  Bent(r) \subseteq RawRequest
  <1>1. r = [fits |-> r.fits, single |-> r.single, json |-> r.json, method |-> r.method, version |-> r.version,
             id |-> r.id, active |-> r.active, body |-> r.body, trace |-> r.trace]
    BY DEF RawRequest
  <1>2. SUFFICES ASSUME NEW b \in Bent(r)
                 PROVE  b \in RawRequest
    OBVIOUS
  <1>3. \/ b = r
        \/ b \in {[r EXCEPT !.fits = FALSE], [r EXCEPT !.single = FALSE]}
        \/ \E j \in {"positional", "array", "broken", "deep", "twice"} : b = [r EXCEPT !.json = j]
        \/ \E m \in {"other", "notText"} : b = [r EXCEPT !.method = m]
        \/ \E v \in Version : b = [r EXCEPT !.version = v]
        \/ \E i \in RequestId : b = [r EXCEPT !.id = i]
        \/ \E i \in RequestId : b = [r EXCEPT !.active = i]
        \/ \E y \in Oddity : b = [r EXCEPT !.body = y]
        \/ \E t \in {"null", "object", "mistyped", "surrogate", "positional"} : b = [r EXCEPT !.trace = t]
    BY Zenon DEF Bent
  <1> QED BY <1>3 DEF RawRequest

LEMMA RequestsAreRaw == Requests \subseteq RawRequest
  <1>1. SUFFICES ASSUME NEW r \in Requests
                 PROVE  r \in RawRequest
    OBVIOUS
  <1>2. PICK m \in Method : r \in UNION {Bent(q) : q \in Bent(SoundRequest(m))}
    BY DEF Requests
  <1>3. PICK q \in Bent(SoundRequest(m)) : r \in Bent(q)
    BY <1>2
  <1>4. SoundRequest(m) \in RawRequest
    BY DEF SoundRequest, RawRequest, Version, RequestId
  <1> QED BY <1>3, <1>4, BentIsRaw

\* The same of the frames that reach both ends: those that differ from a sound request
\* in two places.
THEOREM ReadersOfAFrameAgree == ProtocolSpec => []BothEndsAgree
  <1>1. ProtocolInit => BothEndsAgree
    BY DEF ProtocolInit, NothingReceived, BothEndsAgree
  <1>2. BothEndsAgree /\ [ReceiveRequest]_received => BothEndsAgree'
    <2>1. SUFFICES ASSUME BothEndsAgree, [ReceiveRequest]_received
                   PROVE  BothEndsAgree'
      OBVIOUS
    <2>2. CASE ReceiveRequest
      <3>1. PICK r \in Requests :
               received' = [request |-> r, rust |-> ParseWorkerRequest(r), python |-> ReadRequest(r),
                            under |-> RecoveredId(r)]
        BY <2>2 DEF ReceiveRequest
      <3>2. r \in RawRequest
        BY RequestsAreRaw
      <3>3. /\ received'.request = r /\ received'.rust = ParseWorkerRequest(r)
            /\ received'.python = ReadRequest(r) /\ received'.under = RecoveredId(r)
        BY <3>1
      <3> QED BY <3>2, <3>3, EveryFrameIsReadAlike DEF BothEndsAgree
    <2>3. CASE UNCHANGED received
      BY <2>1, <2>3 DEF BothEndsAgree
    <2> QED BY <2>1, <2>2, <2>3
  <1> QED BY <1>1, <1>2, PTL DEF ProtocolSpec
=============================================================================
