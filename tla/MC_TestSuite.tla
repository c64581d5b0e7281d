---------------------------- MODULE MC_TestSuite ----------------------------
(* Every scenario as the only one of a suite without -parallel, a parallel suite of two
   scenarii, and one with more hosts than instances. *)
EXTENDS TestSuite

MCPlans ==
    LET Suite(ids_, hosts_, n) == [ids |-> ids_, hosts |-> hosts_, maxInstances |-> n]
        h == <<"detailed.example", "other.example", "third.example">>
    IN {Suite(<<s>>, SubSeq(h, 1, 2), 1) : s \in AllScenarii}
       \cup {Suite(<<"padding", "transport_parameters">>, SubSeq(h, 1, 2), 2), Suite(<<"padding">>, h, 2)}
=============================================================================
