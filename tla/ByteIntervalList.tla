-------------------------- MODULE ByteIntervalList --------------------------
(***************************************************************************)
(* byteIntervalList (streams.go) as the list it is: insertion where        *)
(* IsBefore says, Fill and ensureConsistency as the walks of the code.     *)
(* The list runs in lockstep with the set `gaps' of Stream, to show that   *)
(* the set is a sound account of it on every list addToRead can build.     *)
(***************************************************************************)
EXTENDS Stream, SequencesExt

VARIABLE list   \* the elements from Front() to Back()

IsBefore(b, o) == b.end <= o.start

Merge(b, o) == byteInterval(Min({b.start, o.start}), Max({b.end, o.end}))

(* Mutant: merges nothing. *)
ListKeepsTouching(l) == l

(* p is the element before the one visited: the last of those kept. *)
ListEnsureConsistency(l) ==
    FoldLeft(LAMBDA kept, n : IF kept # <<>> /\ Overlap(Last(kept), n)
                                THEN Append(Front(kept), Merge(Last(kept), n))
                                ELSE Append(kept, n), <<>>, l)

(* Mutant: puts the new gap in front. *)
ListAddInFront(l, b) == ListEnsureConsistency(<<b>> \o l)

ListAdd(l, b) ==
    LET after == {i \in DOMAIN l : IsBefore(b, l[i])}
    IN  ListEnsureConsistency(
            IF after = {} THEN Append(l, b) ELSE InsertAt(l, Min(after), b))

(* The pieces Exclude leaves, in the order it returns them. *)
ListExclude(b, o) == SetToSortSeq(Exclude(b, o), LAMBDA p, q : p.start < q.start)

ListFill(l, b) ==
    ListEnsureConsistency(FlattenSeq(
        [i \in DOMAIN l |-> IF Overlap(b, l[i]) THEN ListExclude(l[i], b) ELSE <<l[i]>>]))

ListInit == Init /\ list = <<>>

(* The branches of addToRead that touch the list. *)
ListAddToRead(f) ==
    /\ addToRead(f)
    /\ list' = IF f.Offset = ReadOffset /\ f.Offset = MaxReadReceived THEN list
               ELSE IF End(f) <= MaxReadReceived
                 THEN ListFill(list, byteInterval(f.Offset, End(f)))
               ELSE IF MaxReadReceived < f.Offset
                 THEN ListAdd(list, byteInterval(MaxReadReceived, f.Offset))
               ELSE list

ListNext == \E f \in Frames : ListAddToRead(f)

ListSpec == ListInit /\ [][ListNext]_<<vars, list>>
-----------------------------------------------------------------------------
(* The set of gaps holds the elements of the list, each once, and the list is
   in the order that makes Front() the gap with the smallest start: so
   firstGap, which addToRead reads off the front, is the first hole. *)
ListIsGaps ==
    /\ gaps = {list[i] : i \in DOMAIN list}
    /\ \A i, j \in DOMAIN list : i < j => list[i].start < list[j].start

(* No two gaps in the list touch once ensureConsistency has run, so a later
   Fill meets each missing byte in one gap only. *)
GapsSeparated ==
    \A i, j \in DOMAIN list : i < j => ~Overlap(list[i], list[j])
=============================================================================
