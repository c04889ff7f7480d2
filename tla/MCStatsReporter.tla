-------------------------- MODULE MCStatsReporter ---------------------------
(* Small instances of StatsReporter: a vLLM and an SGLang engine that      *)
(* serve two models with two schedulers each, the first read with a label  *)
(* filter, and a subscriber set up for the wrong engine.                   *)
EXTENDS StatsReporter

Cfg(s, l, e, sh, t) == [scheme |-> s, label |-> l, engine |-> e, shared |-> sh, tier |-> t]
Configs == {Cfg("vllm", "m", "vllm", TRUE, "gpu"), Cfg("sglang", "", "sglang", TRUE, "auto"),
            Cfg("sglang", "", "vllm", FALSE, "auto")}
Garbled == {<<{"running"}, "nan">>, <<{"hits"}, "absent">>}
SomeLoads == {<<2, 1>>, <<6, 1>>}
=============================================================================
