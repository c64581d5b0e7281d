---------------------------- MODULE ByteIntervals ----------------------------
(***************************************************************************)
(* The byte intervals with which a Stream remembers the holes in what it   *)
(* has received (streams.go, byteInterval and byteIntervalList).           *)
(*                                                                         *)
(* byteIntervalList is a linked list kept in the order of `start'; it is   *)
(* modelled as the set of its elements.  ByteIntervalList.tla models the   *)
(* list itself, with its loops, and is checked to agree with this module.  *)
(*                                                                         *)
(* An interval may be empty (start = end) and even inverted (end < start): *)
(* Exclude can return both, so neither is ruled out here.                  *)
(***************************************************************************)
EXTENDS Naturals

Interval == [start : Nat, end : Nat]

byteInterval(s, e) == [start |-> s, end |-> e]

Overlap(b, o) ==
    \/ o.start <= b.end /\ o.end >= b.end
    \/ b.start <= o.end /\ b.end >= o.end
    \/ b.start <= o.start /\ b.end >= o.end
    \/ o.start <= b.start /\ o.end >= b.end

(* Mutant: splits a gap at its first byte too, where o.start - 1 underflows. *)
ExcludeSplitsAtStart(b, o) ==
    IF o.start >= b.start /\ o.end < b.end
      THEN {byteInterval(b.start, o.start - 1), byteInterval(o.end + 1, b.end)}
    ELSE IF o.end > b.end
      THEN {byteInterval(b.start, o.start)}
    ELSE {}

(* Mutant: takes the bound of a filled interval for a byte it holds. *)
ExcludeOffByOne(b, o) ==
    IF o.start > b.start /\ o.end < b.end
      THEN {byteInterval(b.start, o.start - 1), byteInterval(o.end + 1, b.end)}
    ELSE IF o.start <= b.start /\ o.end < b.end
      THEN {byteInterval(o.end + 1, b.end)}
    ELSE IF o.end > b.end
      THEN {byteInterval(b.start, o.start)}
    ELSE {}

(* What is left of b once o is filled: the list Exclude returns, as a set. *)
Exclude(b, o) ==
    IF o.start > b.start /\ o.end < b.end
      THEN {byteInterval(b.start, o.start - 1), byteInterval(o.end + 1, b.end)}
    ELSE IF o.start <= b.start /\ o.end < b.end
      THEN {byteInterval(o.end, b.end)}
    ELSE IF o.end > b.end
      THEN {byteInterval(b.start, o.start)}
    ELSE {}

(* The order of the list. *)
Precedes(b, o) == b.start < o.start \/ (b.start = o.start /\ b.end < o.end)

(***************************************************************************)
(* ensureConsistency walks the list and merges each element that overlaps  *)
(* what the walk has merged so far.  The elements that overlap nothing     *)
(* before them start a group; a group becomes one interval, from the start *)
(* of its first element to its largest end.                                *)
(***************************************************************************)
GroupHeads(S) == {n \in S : \A p \in S : Precedes(p, n) => ~Overlap(p, n)}

Group(S, h) ==
    {g \in S : /\ ~Precedes(g, h)
               /\ \A n \in GroupHeads(S) : Precedes(h, n) => Precedes(g, n)}

ensureConsistency(S) ==
    UNION {{byteInterval(h.start, g.end) :
              g \in {g \in Group(S, h) : \A o \in Group(S, h) : o.end <= g.end}} :
           h \in GroupHeads(S)}

Add(S, b) == ensureConsistency(S \cup {b})

(* Fill without its closing ensureConsistency: every overlapped element is
   replaced by what Exclude leaves of it. *)
Filled(S, b) ==
    {n \in S : ~Overlap(b, n)} \cup UNION {Exclude(n, b) : n \in {n \in S : Overlap(b, n)}}

Fill(S, b) == ensureConsistency(Filled(S, b))

(* l.Front().Value.start, for a list that is not empty. *)
FrontStart(S) == CHOOSE s \in {g.start : g \in S} : \A g \in S : s <= g.start

(* The bytes an interval stands for: streams.go slices ReadData with it. *)
Bytes(b) == b.start .. (b.end - 1)
=============================================================================
