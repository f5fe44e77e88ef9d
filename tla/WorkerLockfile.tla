---------------------------- MODULE WorkerLockfile ----------------------------
(***************************************************************************)
(* parse_lockfile of worker_environment.rs: one pass over the lines of     *)
(* worker/requirements.lock, and the grammar that pass is meant to accept. *)
(* A line is what the scanner tells apart in it; a pin's hash is none, one *)
(* well-formed artifact hash, a malformed one, or more than one.           *)
(***************************************************************************)
EXTENDS Integers, Sequences, SequencesExt

CONSTANTS
    Distributions,  \* canonical distribution names
    Governed,       \* GOVERNED_DISTRIBUTION_NAME
    Versions,       \* versions of a distribution
    Commits,        \* 40-digit commits a provenance marker may state
    Directives,     \* REQUIRED_LOCK_DIRECTIVES
    NoCommit        \* no commit, or none that is well formed

ASSUME LockfileAssumption == Governed \in Distributions /\ NoCommit \notin Commits

Blank == [kind : {"blank"}]              \* empty, or a comment
Malformed == [kind : {"malformed"}]      \* no pin and nothing else
Directive == [kind : {"directive"}, text : Directives \cup {"other"}]
Marker == [kind : {"marker"}, commit : Commits \cup {NoCommit}]
Pin == [kind : {"pin"}, name : Distributions, version : Versions,
        hash : {"none", "one", "malformed", "many"}]
LockLine == Blank \cup Malformed \cup Directive \cup Marker \cup Pin

\* governed_commit is the commit of the marker on the line before.
LockedDistribution ==
    [name : Distributions, version : Versions, commit : Commits \cup {NoCommit}]

\* The scanner's locals; refused: it has returned an error.
EmptyScan ==
    [pins |-> <<>>, pending |-> NoCommit, governed |-> FALSE, seen |-> {}, refused |-> FALSE]

Refuse(scan) == [scan EXCEPT !.refused = TRUE]

MarkerLine(scan, line) ==
    IF line.commit = NoCommit \/ scan.pending # NoCommit THEN Refuse(scan)
    ELSE [scan EXCEPT !.pending = line.commit]

\* Mutant: a comment between a marker and its pin is passed over.
BlankLineKeepsMarker(scan) == scan

BlankLine(scan) == IF scan.pending # NoCommit THEN Refuse(scan) ELSE scan

DirectiveLine(scan, line) ==
    IF scan.pending # NoCommit \/ line.text \notin Directives \ scan.seen THEN Refuse(scan)
    ELSE [scan EXCEPT !.seen = @ \cup {line.text}]

PinLine(scan, line) ==
    LET isGoverned == line.name = Governed
        fits == IF isGoverned
                THEN ~scan.governed /\ scan.pending # NoCommit /\ line.hash = "none"
                ELSE scan.pending = NoCommit /\ line.hash = "one"
        pin == [name |-> line.name, version |-> line.version, commit |-> scan.pending]
    IN  IF ~fits THEN Refuse(scan)
        ELSE [scan EXCEPT !.pins = Append(@, pin), !.pending = NoCommit,
                          !.governed = @ \/ isGoverned]

ScanLine(scan, line) ==
    CASE line.kind = "marker"    -> MarkerLine(scan, line)
      [] line.kind = "blank"     -> BlankLine(scan)
      [] line.kind = "directive" -> DirectiveLine(scan, line)
      [] line.kind = "pin"       -> PinLine(scan, line)
      [] OTHER                   -> Refuse(scan)

\* The checks after the last line.
ScanAccepts(scan) ==
    ~scan.refused /\ scan.pending = NoCommit /\ scan.governed /\ scan.seen = Directives

-----------------------------------------------------------------------------
(* The grammar, line by line and without a scanner's memory. *)

IsGovernedPin(line) == line.kind = "pin" /\ line.name = Governed
IsMarker(line) == line.kind = "marker"

WellFormedLine(line) ==
    /\ line.kind # "malformed"
    /\ line.kind = "directive" => line.text \in Directives
    /\ IsMarker(line) => line.commit # NoCommit
    /\ line.kind = "pin" => line.hash = IF IsGovernedPin(line) THEN "none" ELSE "one"

\* A lockfile is well formed when every line is, each required directive and the
\* governed pin occur once, and a marker stands before the governed pin and
\* nowhere else.
WellFormedLock(lines) ==
    /\ \A i \in DOMAIN lines : WellFormedLine(lines[i])
    /\ \A d \in Directives :
         \E i \in DOMAIN lines :
           \A j \in DOMAIN lines :
             (lines[j].kind = "directive" /\ lines[j].text = d) <=> j = i
    /\ \E i \in 2 .. Len(lines) :
         /\ \A j \in DOMAIN lines : IsGovernedPin(lines[j]) <=> j = i
         /\ \A j \in DOMAIN lines : IsMarker(lines[j]) <=> j = i - 1

\* The pin of a line, with its marker's commit.
PinAt(lines, i) ==
    [name |-> lines[i].name, version |-> lines[i].version,
     commit |-> IF IsGovernedPin(lines[i]) THEN lines[i - 1].commit ELSE NoCommit]

\* pins are those of a well-formed lockfile, in the order of its lines.
ArePinsOf(pins, lines) ==
    \E places \in [DOMAIN pins -> DOMAIN lines] :
        /\ \A j, k \in DOMAIN pins : j < k => places[j] < places[k]
        /\ \A i \in DOMAIN lines : lines[i].kind = "pin" <=> \E k \in DOMAIN pins : places[k] = i
        /\ \A k \in DOMAIN pins : pins[k] = PinAt(lines, places[k])
=============================================================================
