---------------------------- MODULE MCNodeLocal -----------------------------
(* Small instances of NodeLocal.                                           *)
EXTENDS NodeLocal

CONSTANT MaxDisturbances

(* One engine is served on its node, or an engine was admitted for a       *)
(* backend whose server is an earlier controller's.                        *)
MCInit ==
  \E n \in Node, e \in Engine, legacy \in BOOLEAN :
    /\ e = CHOOSE x \in Engine : TRUE
    /\ dirt = {n}
    /\ backend = [kind |-> "nodelocal", gen |-> 1, finalizer |-> ~legacy, deleting |-> FALSE, exists |-> TRUE,
                  released |-> "no"]
    /\ engine = [x \in Engine |-> IF x # e THEN NoEngine
                                  ELSE [st |-> IF legacy THEN "gate" ELSE "run", node |-> n, gen |-> 1, shm |-> TRUE]]
    /\ server = [x \in Node |-> IF x # n THEN {}
                   ELSE {[RenderLMCacheNodeLocalServerPod(1) EXCEPT !.current = ~legacy, !.up = TRUE]}]
    /\ cleanup = [x \in Node |-> [k \in Attempt |-> {}]]
    /\ seen = {} /\ rec = Idle /\ cond = "NoEnginePods"
    /\ changes = (IF legacy THEN 1 ELSE 0) /\ faults = [k \in FaultKinds |-> 0]

(* Bound: what the operator, the engines' owners and the faults do in all. *)
(* A stall of the informer counts twice; the fault beside another one is a *)
(* cleanup that fails.                                                     *)
Disturbances == changes + SumFaults + Cardinality({k \in FaultKinds \cap {"lag"} : faults[k] > 0}) + backend.gen

Bounded == Disturbances <= MaxDisturbances /\ (SumFaults > 1 => ~Spared("cleanup"))

MCSpec == MCInit /\ [][Next /\ Bounded']_vars /\ Fairness
=============================================================================
