------------------------------ MODULE MCUiClients -----------------------------
(* Two browsers, one experiment, two workspaces.                           *)
EXTENDS UiClients, TLC

CONSTANTS c1, c2

MCMaxSends == (c1 :> 3) @@ (c2 :> 2)

Alike == Permutations(SetId)

MCText(tag) == [tag |-> tag, chars |-> 1, units |-> 1, clean |-> TRUE, padded |-> FALSE]

MCName == [id \in SetId |-> MCText(id)]

MCLayout ==
  [sections |-> <<[id |-> "sec", name |-> MCText(""), collapsed |-> FALSE]>>, panels |-> <<>>]

MCMutationId == Client \X (1 .. 6)

MCIdentifier == {"sec"} \cup SetId \cup Experiment

===============================================================================
