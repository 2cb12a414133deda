---------------------------- MODULE MCAnthology ----------------------------
(* Two halves of the system's behaviours, to keep the product of the server's  *)
(* and the page's states small: no page is open while workers fail and savers   *)
(* save, or a page is open and they do not.                                   *)
EXTENDS Anthology

CONSTANTS w1, w2

MCInit ==
  /\ made = 0 /\ doc = NoDoc /\ runs = <<>> /\ task = FALSE
  /\ workers = [w \in Workers |-> Idle]
  /\ marking = FALSE /\ resetting = {} /\ page = NoPage
  /\ asked = {} /\ answers = <<>> /\ retries = 0
  /\ \/ loads = MaxLoads /\ version = 1 /\ faults = 0
     \/ loads = 0 /\ version = MaxSaves + 1 /\ faults = MaxFaults

MCSpec == MCInit /\ [][Next]_vars /\ Fairness
=============================================================================
