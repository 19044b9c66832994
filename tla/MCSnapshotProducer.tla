------------------------- MODULE MCSnapshotProducer ---------------------------
(* A producer with room for three entries or four bytes, given small and   *)
(* large observations (o1, o3) and events (e1, e3) in batches of up to     *)
(* two, until its sequence range is used up.                               *)
EXTENDS SnapshotProducer

CONSTANTS o1, o3, e1, e3

MCState == {o1, o3, e1, e3}

MCEventState == {e1, e3}

MCSize == [s \in MCState |-> IF s \in {o1, e1} THEN 1 ELSE 3]
===============================================================================
