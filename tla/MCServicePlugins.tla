--------------------------- MODULE MCServicePlugins ---------------------------
EXTENDS ServicePlugins, TLC

CONSTANTS t1, t2, ollama, litellm, c1, c2, bad, v1, v2,
          web, m1, q1, q2, k1, k2, k3

Entry(name, declared, manifest, version) ==
  [name |-> name, declared |-> declared, manifest |-> manifest, version |-> version]

(* Two sound plugins; a conflict; one without its manifest and one misnamed. *)
SomeInstalls ==
  {<<Entry(ollama, ollama, "valid", v1), Entry(litellm, litellm, "valid", v1)>>,
   <<Entry(ollama, ollama, "valid", v1), Entry(ollama, ollama, "valid", v2)>>,
   <<Entry(ollama, ollama, "missing", v1), Entry(litellm, ollama, "valid", v1)>>}

OneProcess == [c \in {m1, q1, q2} |-> web]

Symmetry == Permutations({q1, q2}) \cup Permutations({k1, k2, k3})
=============================================================================
