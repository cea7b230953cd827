---------------------------- MODULE PluginRegistry ----------------------------
(* The plugin registry of the Python services: plugins are discovered at start,
   built on first use under a lock, discarded when they are configured again or
   disabled, and closed at shutdown, while threads get and use instances.
   Every action is one critical section of the lock, or one step outside it. *)
EXTENDS FiniteSets, FiniteSetsExt, Naturals, Sequences, SequencesExt

CONSTANTS
  Threads,    \* threads that use the registry
  Names,      \* plugins of one kind
  Configs,    \* configurations a plugin may be given
  BadConfigs, \* those its config_schema refuses
  Installs,   \* the entry points installed, in the order they are found
  MaxBuilt,   \* bound on instances
  None

ASSUME InstanceAssumption ==
  MaxBuilt \in Nat /\ BadConfigs \subseteq Configs /\ IsFiniteSet(Names) /\ None \notin Nat

Ids == 1..MaxBuilt

VARIABLES
  plugins,    \* _plugins: the install a name was registered from
  enabled,    \* _enabled
  config,     \* _config, None when never given
  instances,  \* _instances: the instance kept for a name
  made,       \* every instance built, in order: its name and configuration
  closes,     \* how often each was closed
  thread      \* what each thread is doing

registryVars == <<plugins, enabled, config, instances, made, closes, thread>>

Resting == [pc |-> "rest", names |-> <<>>]

(* load_manifest, when a plugin's module is imported: a manifest that is missing or
   that PluginManifest refuses makes the import fail. *)
Manifest(ep) == IF ep.manifest = "valid" THEN [name |-> ep.name, version |-> ep.version] ELSE None

(* discover: what does not import, or is declared under another name than its
   manifest's, is reported and skipped. *)
Sound(ep) == Manifest(ep) # None /\ ep.declared = Manifest(ep).name

(* load_entry_points registers what is left; the first of a name wins. *)
Registered(eps) ==
  LET found == SelectSeq(eps, Sound)
  IN [n \in Names |->
        IF \E i \in DOMAIN found : found[i].name = n
          THEN found[Min({i \in DOMAIN found : found[i].name = n})].version
          ELSE None]

RegistryInit ==
  /\ \E eps \in Installs : plugins = Registered(eps)
  /\ enabled = [n \in Names |-> plugins[n] # None]
  /\ config = [n \in Names |-> None]
  /\ instances = [n \in Names |-> None]
  /\ made = <<>>
  /\ closes = [i \in Ids |-> 0]
  /\ thread = [t \in Threads |-> Resting]

Free(t) == thread[t].pc = "rest"
Now(t, pc) == thread' = [thread EXCEPT ![t].pc = pc]

(* validate_config: what the plugin's config_schema accepts. *)
Valid(c) == c \notin BadConfigs

(* names: read without the lock. *)
EnabledNames == {n \in Names : plugins[n] # None /\ enabled[n]}

----------------------------------------------------------------------------
(* Mutant: an instance is kept when its plugin is configured again. *)
ConfigureKeeping(t, n, c) ==
  /\ Free(t) /\ plugins[n] # None /\ Valid(c)
  /\ config' = [config EXCEPT ![n] = c]
  /\ UNCHANGED <<plugins, enabled, instances, made, closes, thread>>

(* configure: validated first; the instance built from the old one is dropped. *)
Configure(t, n, c) ==
  /\ Free(t) /\ plugins[n] # None /\ Valid(c)
  /\ config' = [config EXCEPT ![n] = c]
  /\ instances' = [instances EXCEPT ![n] = None]
  /\ UNCHANGED <<plugins, enabled, made, closes, thread>>

Enable(t, n) ==
  /\ Free(t) /\ plugins[n] # None
  /\ enabled' = [enabled EXCEPT ![n] = TRUE]
  /\ UNCHANGED <<plugins, config, instances, made, closes, thread>>

Disable(t, n) ==
  /\ Free(t) /\ plugins[n] # None
  /\ enabled' = [enabled EXCEPT ![n] = FALSE]
  /\ instances' = [instances EXCEPT ![n] = None]
  /\ UNCHANGED <<plugins, config, made, closes, thread>>

(* _build: from the configuration last given; the one of no configure is checked
   only here. *)
Build(n) ==
  /\ Len(made) < MaxBuilt
  /\ made' = Append(made, [name |-> n, config |-> config[n]])
  /\ instances' = [instances EXCEPT ![n] = Len(made')]

(* Mutant: every get builds. *)
ObtainAnew(t, n) ==
  /\ n \in EnabledNames /\ Build(n)
  /\ IF Free(t) THEN UNCHANGED thread ELSE thread' = [thread EXCEPT ![t].names = Tail(@)]

(* get, in one critical section: not found, disabled, kept, or built now. A factory
   may fail, or break its port. *)
Obtain(t, n) ==
  LET got == IF Free(t) THEN UNCHANGED thread
             ELSE thread' = [thread EXCEPT ![t].names = Tail(@)]
      raise == thread' = [thread EXCEPT ![t] = Resting]
  IN IF n \notin EnabledNames THEN raise /\ UNCHANGED <<instances, made>>
     ELSE IF instances[n] # None THEN got /\ UNCHANGED <<instances, made>>
     ELSE (Build(n) /\ got) \/ (raise /\ UNCHANGED <<instances, made>>)

Get(t, n) ==
  /\ Free(t) /\ Obtain(t, n)
  /\ UNCHANGED <<plugins, enabled, config, closes>>

(* get_all: the names are read, then each is got under the lock. *)
GetAll(t) ==
  /\ Free(t)
  /\ thread' = [thread EXCEPT ![t].pc = "getAll", ![t].names = SetToSeq(EnabledNames)]
  /\ UNCHANGED <<plugins, enabled, config, instances, made, closes>>

GetNext(t) ==
  /\ thread[t].pc = "getAll"
  /\ IF thread[t].names = <<>> THEN Now(t, "rest") /\ UNCHANGED <<instances, made>>
     ELSE Obtain(t, Head(thread[t].names))
  /\ UNCHANGED <<plugins, enabled, config, closes>>

(* Mutant: the instances are forgotten only after they were closed. *)
CloseKeeping(t) ==
  /\ Free(t)
  /\ LET kept == {instances[n] : n \in Names} \ {None}
     IN thread' = [thread EXCEPT ![t].pc = "closing", ![t].names = SetToSeq(kept)]
  /\ UNCHANGED <<plugins, enabled, config, instances, made, closes>>

(* aclose: the instances are taken out under the lock, then closed one by one
   outside it; one that fails to close does not stop the others. *)
Close(t) ==
  /\ Free(t)
  /\ LET kept == {instances[n] : n \in Names} \ {None}
     IN thread' = [thread EXCEPT ![t].pc = "closing", ![t].names = SetToSeq(kept)]
  /\ instances' = [n \in Names |-> None]
  /\ UNCHANGED <<plugins, enabled, config, made, closes>>

CloseNext(t) ==
  /\ thread[t].pc = "closing"
  /\ IF thread[t].names = <<>> THEN Now(t, "rest") /\ UNCHANGED closes
     ELSE /\ closes' = [closes EXCEPT ![Head(thread[t].names)] = @ + 1]
          /\ thread' = [thread EXCEPT ![t].names = Tail(@)]
  /\ UNCHANGED <<plugins, enabled, config, instances, made>>

RegistryNext == \E t \in Threads :
  \/ \E n \in Names : Enable(t, n) \/ Disable(t, n) \/ Get(t, n)
  \/ \E n \in Names, c \in Configs : Configure(t, n, c)
  \/ GetAll(t) \/ GetNext(t) \/ Close(t) \/ CloseNext(t)

RegistrySpec == RegistryInit /\ [][RegistryNext]_registryVars

----------------------------------------------------------------------------
(* Whoever gets a plugin gets it as it is configured now: what is kept was built
   under this name from the configuration last given, for an enabled plugin. *)
KeptIsCurrent ==
  \A n \in Names : instances[n] # None =>
    made[instances[n]] = [name |-> n, config |-> config[n]] /\ enabled[n]

(* Between two changes of its configuration or its state a plugin is built once,
   however many threads ask for it at the same time. *)
BuiltOnce ==
  [][\A n \in Names : instances[n] # None /\ instances'[n] # instances[n] => instances'[n] = None]_registryVars

(* Even when two threads shut the registry down while others use it, no instance
   is closed twice, and none that was closed is handed out afterwards. *)
ClosedIsForgotten ==
  /\ \A i \in Ids : closes[i] <= 1
  /\ \A n \in Names : instances[n] # None => closes[instances[n]] = 0
=============================================================================
