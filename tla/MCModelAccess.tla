---------------------------- MODULE MCModelAccess ----------------------------
EXTENDS ModelAccess

ProviderPrefixes == [m \in Models \cup {EmbedModel} |-> IF m = "openai/gpt-4o" THEN "openai" ELSE "ollama"]
=============================================================================
