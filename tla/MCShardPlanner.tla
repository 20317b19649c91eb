--------------------------- MODULE MCShardPlanner ---------------------------
(***************************************************************************)
(* ShardPlanner over the entries of three sources, each with two node      *)
(* facts (one group of two) and an edge: the spec's scenario entries and   *)
(* groups of several entries.                                              *)
(***************************************************************************)
EXTENDS ShardPlanner

VN(sig) == [signature |-> <<sig>>, corpus |-> <<>>, root |-> <<>>,
            path |-> <<>>, language |-> <<>>]
Sources == {VN(65), VN(66), VN(67)}

\* node facts /k and /l, and a /r edge to A with fact /l
ScenarioKeys ==
  {EncodeKey(s, f, <<>>, NilVName).val : s \in Sources, f \in {<<75>>, <<76>>}}
  \cup {EncodeKey(s, <<76>>, <<82>>, VN(65)).val : s \in Sources}

=============================================================================
