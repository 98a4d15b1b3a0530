--------------------------- MODULE MCEngineForward ---------------------------
(* Instances of EngineForward for TLC. *)
EXTENDS EngineForward

SomePrompts == {<<"a">>, <<"b", "a">>, <<"a", "b", "a">>, <<"a", "i", "b">>}
SomeDecoded == {"b"}
SomeImages  == {"i"}
SomeMins    == [llama |-> 2, gemma4 |-> 2, qwen35 |-> 2]

\* Equal shares of the blocks, and shares that leave the last rank, or a rank
\* in the middle, without blocks.
Ones == [l \in 1..NB |-> 1]
SomePlans ==
    {[ranks |-> 1, size |-> Ones, part |-> <<NB, NB, NB>>, shared |-> s] : s \in {0, Shared}} \cup
    {[ranks |-> 2, size |-> Ones, part |-> <<NB \div 2, NB, NB>>, shared |-> 0],
     [ranks |-> 2, size |-> Ones, part |-> <<NB + 1, NB, NB>>, shared |-> 0],
     [ranks |-> 2, size |-> Ones, part |-> <<1, 1, 1>>, shared |-> Shared],
     [ranks |-> 3, size |-> Ones, part |-> <<1, NB + 1, NB>>, shared |-> 0]}

Cpu(arch) == [arch |-> arch, dev |-> "cpu", vk |-> "none", gpuEnd |-> 0, vision |-> FALSE,
              ranks |-> 1, reuse |-> "any"]
In(n, c)   == [c EXCEPT !.ranks = n]
OnCuda(c)  == [c EXCEPT !.dev = "cuda"]
OnVulkan(vk) == [Cpu("llama") EXCEPT !.dev = "vulkan", !.vk = vk]
Qwen35 == [Cpu("qwen35") EXCEPT !.reuse = "append"]

Deployments ==
    {[Cpu("llama") EXCEPT !.vision = TRUE], Cpu("gemma4"), Qwen35,
     In(2, Cpu("llama")), In(3, Cpu("llama")), In(2, Cpu("gemma4")), In(2, Qwen35),
     OnCuda(Cpu("llama")), [OnCuda(Cpu("llama")) EXCEPT !.gpuEnd = 2],
     [OnCuda(Cpu("gemma4")) EXCEPT !.reuse = "once"], In(3, OnCuda(Cpu("llama"))),
     In(2, [OnCuda(Cpu("gemma4")) EXCEPT !.reuse = "append"]), In(2, OnCuda(Qwen35)),
     OnVulkan("full"), OnVulkan("attn"), OnVulkan("ops"),
     [Cpu("gemma4") EXCEPT !.dev = "vulkan"]}

\* Several prompts on a GPU with gemma4; the first layers on Vulkan.
GemmaOnCuda == {[OnCuda(Cpu("gemma4")) EXCEPT !.reuse = "anew"]}
VulkanSplit == {[OnVulkan("full") EXCEPT !.gpuEnd = 2]}
=============================================================================
