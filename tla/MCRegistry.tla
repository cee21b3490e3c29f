----------------------------- MODULE MCRegistry -----------------------------
(* A registry of two projects whose workflow files may come to share a     *)
(* workspace root, a third id, and one id in two spellings.                *)
EXTENDS Registry, TLC

CONSTANTS w1, w2, c1, c2, e, k

MCIds == {"a", "A", "b"}
MCKey == ("a" :> "a") @@ ("A" :> "a") @@ ("b" :> "b")
MCOwnLimit == (c1 :> 0) @@ (c2 :> 2)
SameRoot == {<<c1, c1>>, <<c2, c2>>}
MCWorkflow == (w1 :> c1) @@ (w2 :> c2)
MCSettings == [default |-> Absent, overlap |-> Absent, endpoint |-> Absent, key |-> Absent]
MCFile ==
    [projects |-> <<[id |-> "a", workflow |-> w1, enabled |-> Absent, limit |-> Absent]>>,
     settings |-> MCSettings]
MCHandFiles ==
    {MCFile,
     [projects |-> <<[id |-> "a", workflow |-> w1, enabled |-> FALSE, limit |-> Absent],
                     [id |-> "b", workflow |-> w2, enabled |-> Absent, limit |-> 1]>>,
      settings |-> [MCSettings EXCEPT !.default = 1, !.overlap = TRUE]]}
MCRequests ==
    {[MCSettings EXCEPT !.default = 0], [MCSettings EXCEPT !.default = 1],
     [MCSettings EXCEPT !.overlap = TRUE], [MCSettings EXCEPT !.overlap = FALSE],
     [MCSettings EXCEPT !.endpoint = e], [MCSettings EXCEPT !.endpoint = None, !.key = None],
     [MCSettings EXCEPT !.key = k], [MCSettings EXCEPT !.endpoint = e, !.key = k]}
=============================================================================
