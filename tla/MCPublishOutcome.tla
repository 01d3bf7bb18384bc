-------------------------- MODULE MCPublishOutcome --------------------------
(* Drafts and checks for model checking PublishOutcome. *)
EXTENDS PublishOutcome, TLC

Good == [kind |-> "order", isNil |-> FALSE, headerZero |-> FALSE,
         idEmpty |-> FALSE, updateZero |-> FALSE, unmarshalable |-> FALSE,
         mfr |-> "", sn |-> ""]

MCGood   == {Good}
\* Drafts that are sent and one for each way of being refused.
MCDrafts ==
    {Good, [Good EXCEPT !.kind = "instant", !.updateZero = TRUE, !.mfr = "own"],
     [Good EXCEPT !.isNil = TRUE], [Good EXCEPT !.headerZero = TRUE],
     [Good EXCEPT !.idEmpty = TRUE], [Good EXCEPT !.updateZero = TRUE],
     [Good EXCEPT !.unmarshalable = TRUE],
     [Good EXCEPT !.mfr = "own", !.sn = "other"],
     [Good EXCEPT !.kind = "std", !.idEmpty = TRUE]}

MCChecks == [disabled |-> FALSE, allowZeroHeader |-> FALSE,
             skipIdentity |-> FALSE]

PublisherSymmetry == Permutations(Publishers)
=============================================================================
