---------------------------- MODULE MCReplicaService ----------------------------
(* Two owners on two file endpoints, with two contents handed over in a
   staging store: one plan for both endpoints, one for a single endpoint that
   gives way by a rename, one that gives up the copies, and another owner's for
   the endpoint both use. *)
EXTENDS ReplicaService

To(k, how) == [key |-> k, onConflict |-> how, mirror |-> TRUE]

MCShapes == {
  [owner |-> "doc1", from |-> {"in1"}, targets |-> <<To("a", "error"), To("b", "error")>>, preserve |-> {}, releases |-> TRUE],
  [owner |-> "doc1", from |-> {"in2"}, targets |-> <<To("a", "rename")>>, preserve |-> {}, releases |-> FALSE],
  [owner |-> "doc2", from |-> {"a"}, targets |-> <<To("b", "error")>>, preserve |-> {}, releases |-> FALSE],
  [owner |-> "doc1", from |-> {"in2"}, targets |-> <<>>, preserve |-> {}, releases |-> TRUE]}

MCSpare == [k \in Keys |-> IF k = "a" THEN {"a1"} ELSE {}]
MCDisk == [k \in Keys |-> IF k = "in1" THEN "c1" ELSE IF k = "in2" THEN "c2" ELSE Absent]

(* The plans keep what callers owe. *)
ASSUME CallersApart == StagingApart /\ TargetsApart
=============================================================================
