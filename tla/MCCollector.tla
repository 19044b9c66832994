----------------------------- MODULE MCCollector ------------------------------
(* Small collections.  Contents are <<session, sequence>>, and those with  *)
(* an odd sequence are Tracker events.                                     *)
EXTENDS Collector, TLC

CONSTANTS a, b, ta, tb, tm, e1, e2

MCState == Session \X (0 .. MaxSequence)

MCEventState == {x \in MCState : x[2] % 2 = 1}

(* One Source, scraped by run_scraper and by a caller of the API.          *)
OneTarget == (ta :> a) @@ (tm :> a)

SoleTarget == (ta :> a)

OneFirst == (a :> e1)

(* Two Sources that share the worker.                                      *)
TwoTargets == (ta :> a) @@ (tb :> b)

TwoFirst == (a :> e1) @@ (b :> e2)
===============================================================================
