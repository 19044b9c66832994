--------------------------- MODULE RetentionWindow ----------------------------
(***************************************************************************)
(* What a snapshot producer promises its consumers, without its limits and *)
(* its accounting: an append-only log, of which the entries from `oldest'  *)
(* on can still be pulled.  A capture adds its whole batch at once and may *)
(* forget old entries, its own first ones too, but never its last; nothing *)
(* is ever captured after sealing; a released history is forgotten whole.  *)
(***************************************************************************)
EXTENDS Integers, Sequences

CONSTANTS State, MaxBatch

VARIABLES
  log,     \* every state captured, entry n having sequence n - 1
  oldest,  \* the first sequence that can still be pulled
  closed

vars == <<log, oldest, closed>>

Init ==
  /\ log = <<>>
  /\ oldest = 0
  /\ closed = FALSE

Capture(batch) ==
  /\ ~closed
  /\ log' = log \o batch
  /\ oldest' \in oldest .. Len(log) + Len(batch) - 1
  /\ UNCHANGED closed

Close ==
  /\ closed' = TRUE
  /\ UNCHANGED <<log, oldest>>

Release ==
  /\ closed' = TRUE
  /\ oldest' = Len(log)
  /\ UNCHANGED log

Next ==
  \/ \E n \in 1 .. MaxBatch : \E batch \in [1 .. n -> State] : Capture(batch)
  \/ Close
  \/ Release

Spec == Init /\ [][Next]_vars

===============================================================================
