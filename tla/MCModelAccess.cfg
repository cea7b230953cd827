\* One answer of up to two pieces, one embedding of the worker; one local model,
\* one Ollama cloud model, one model of a cloud provider.
SPECIFICATION Spec
CONSTANTS
  Chats = {c1}
  Jobs = {j1}
  Models = {"llama3", "gpt-oss:120b-cloud", "openai/gpt-4o"}
  PrefixOf <- ProviderPrefixes
  CloudTag = {"gpt-oss:120b-cloud"}
  EmbedModel = "nomic-embed-text"
  Installed = {"llama3", "gpt-oss:120b-cloud", "openai/gpt-4o"}
  Chunks = {k1, k2, k3}
  TopK = 2
  ContextChunks = 2
  MaxPieces = 2
INVARIANTS
  NothingLeaves
  EveryContactAudited
  RecordsAreWhole
  SourcesAreTheBest
PROPERTIES
  EveryChatEnds
