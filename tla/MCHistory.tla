------------------------------ MODULE MCHistory ------------------------------
(* Instances of OperationHistory: a slice of the action catalogue (capabilities/)
   and the requests each run sends.                                          *)
EXTENDS OperationHistory

Base == [state |-> "", key |-> "", clears |-> FALSE, undoPersists |-> FALSE,
         clearsAlso |-> {}, keyed |-> FALSE, repeatable |-> FALSE, needs |-> ""]

\* bgp_set_router with two router ids, bgp_remove_router, bgp_add_neighbor,
\* link_down and link_up on one interface, and custom.
Catalogue ==
  [router1  |-> [Base EXCEPT !.state = "bgp_router"],
   router2  |-> [Base EXCEPT !.state = "bgp_router"],
   norouter |-> [Base EXCEPT !.state = "bgp_router", !.clears = TRUE,
                             !.clearsAlso = {"bgp_neighbor"}],
   neighbor |-> [Base EXCEPT !.state = "bgp_neighbor", !.key = "n1", !.keyed = TRUE,
                             !.needs = "bgp_router"],
   up       |-> [Base EXCEPT !.state = "link", !.key = "eth1", !.keyed = TRUE],
   down     |-> [Base EXCEPT !.state = "link", !.key = "eth1", !.keyed = TRUE,
                             !.clears = TRUE, !.undoPersists = TRUE],
   custom   |-> [Base EXCEPT !.repeatable = TRUE]]

AllActions == DOMAIN Catalogue
MCDesc     == [a \in Actions |-> Catalogue[a]]

Do(a)   == [act |-> a, persist |-> TRUE]

\* The BGP actions, a router with its neighbour in one request among them.
BGPRequests    == {<<Do("router1")>>, <<Do("router2")>>, <<Do("norouter")>>,
                   <<Do("router1"), Do("neighbor")>>}
MixRequests    == BGPRequests \cup {<<Do("up"), Do("custom")>>, <<Do("down")>>,
                   <<Do("neighbor")>>}
LinkRequests   == {<<Do("up")>>, <<Do("down")>>}
TwoStepRequests == {<<Do("up")>>, <<Do("down"), Do("up")>>}

AllFit   == {[a \in Actions |-> "runs"]}
MixedFit == AllFit \cup {[a \in Actions |-> IF a = "neighbor" THEN "rejected" ELSE "runs"],
                         [a \in Actions |-> IF a = "up" THEN "unplanned" ELSE "runs"]}

LinkActions == {"up", "down"}
BGPActions  == {"router1", "router2", "norouter", "neighbor"}

=============================================================================
