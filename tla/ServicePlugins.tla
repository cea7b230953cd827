---------------------------- MODULE ServicePlugins ----------------------------
(* What a Python service keeps in memory for its plugins: the registry of their
   instances (PluginRegistry), and the key set with which its auth plugin verifies
   the web app's tokens (TokenVerification). The two share no state, and a behaviour
   is one of one of them; in one of the key set, every plugin is enabled. *)
EXTENDS PluginRegistry, TokenVerification

VARIABLE part   \* the part whose behaviour this is

servicePluginVars == <<part, registryVars, vars>>

ServiceInit ==
  /\ part \in {"registry", "key set"}
  /\ RegistryInit /\ Init
  /\ part = "key set" => \A n \in Names : enabled[n]

ServiceNext ==
  /\ UNCHANGED part
  /\ \/ part = "registry" /\ RegistryNext /\ UNCHANGED vars
     \/ part = "key set" /\ Next /\ UNCHANGED registryVars

ServiceSpec == ServiceInit /\ [][ServiceNext]_servicePluginVars
=============================================================================
