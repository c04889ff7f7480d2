------------------------- MODULE MCKVEventPipeline -------------------------
(* Small instances of KVEventPipeline: a base prefix of two blocks, the    *)
(* same first tokens under a LoRA adapter, and a block of an unmapped id.  *)
EXTENDS KVEventPipeline

MCParent(b) == IF b = "b2" THEN "b1" ELSE Root
MCToken(b) == IF b = "b2" THEN "y" ELSE "x"
MCPathOf(b) == IF b = "b2" THEN <<"x", "y">> ELSE <<"x">>
MCLoRA(b) == CASE b = "a1" -> "sql" [] b = "u1" -> Unmapped [] OTHER -> Base

(* The blocks the engine ever computes.  One block alone meets every fault *)
(* with and without an offload tier.  Two blocks meet faults without one:  *)
(* those of one prompt a lost event or reverse map, the same block for the *)
(* base model and under an adapter failing calls and servers.              *)
VARIABLE prompt

Prompts == {{"b1", "b2"}, {"b1", "a1"}, {"b1"}, {"u1"}}

FaultMeets(S) ==
  \/ S = {"b1"}
  \/ ~l2TierPresent /\ lossy' = ("b2" \in S)

MCInit == Init /\ prompt \in Prompts

MCNext ==
  /\ Next /\ UNCHANGED prompt
  /\ held' \subseteq prompt
  /\ faults' > faults => FaultMeets(prompt)

MCSpec == MCInit /\ [][MCNext]_<<vars, prompt>> /\ Fairness
=============================================================================
