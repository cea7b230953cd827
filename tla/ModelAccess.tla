----------------------------- MODULE ModelAccess -----------------------------
(* One answer of the v3 stack: core-api embeds the question, retrieves, asks
   model-gateway for a streamed answer, relays it to its client and records the
   exchange; model-gateway polices and audits every call before it reaches a
   model. The ingest-worker embeds through the same gateway. Clients leave,
   connections break, models fail or fall silent, and the audit log may be down. *)
EXTENDS Retrieval

CONSTANTS
  Chats,      \* chat completions of core-api
  Jobs,       \* embedding calls of the ingest-worker
  Models,     \* model ids a client may ask for
  PrefixOf,   \* the provider prefix of a model id, or "ollama" without a known one
  CloudTag,   \* ids on Ollama with a cloud tag
  EmbedModel, \* EMBED_MODEL of the gateway
  Installed,  \* what the providers list
  Chunks,     \* indexed chunks of the workspace
  TopK,       \* candidates of each search
  ContextChunks, \* sources of a prompt
  MaxPieces   \* bound on the pieces of an answer

ASSUME BoundAssumption ==
  MaxPieces \in Nat /\ TopK \in Nat /\ ContextChunks \in Nat /\ Chats \cap Jobs = {}

CloudProviders == {"openai", "gemini", "anthropic"}

VARIABLES
  sovereign,  \* SOVEREIGN_MODE
  loaded,     \* the providers of the registry
  chat,       \* core-api's handlers
  call,       \* the gateway's handlers
  found,      \* what the two searches returned
  sources,    \* citations of the prompt, and of the recorded answer
  wire,       \* events between the two, in order
  said,       \* pieces the model has produced
  heard,      \* pieces relayed to the client
  stored,     \* core.messages: the pieces of a recorded answer, or Unrecorded
  audit,      \* core.audit_events
  contacted   \* calls that reached a model (history)

vars == <<sovereign, loaded, chat, call, found, sources, wire, said, heard, stored, audit, contacted>>
deployment == <<sovereign, loaded>>
trail == <<audit, contacted>>
prompts == <<found, sources>>

Calls == Chats \cup Jobs
Unrecorded == MaxPieces + 1

(* egress.route: where an id goes and whether that leaves the network. *)
IsOllamaCloud(m) == m \in CloudTag
Route(m) ==
  IF PrefixOf[m] \in CloudProviders \cup (loaded \ {"ollama"})
    THEN [provider |-> PrefixOf[m], egress |-> TRUE]
    ELSE [provider |-> "ollama", egress |-> IsOllamaCloud(m)]

(* What an allowed call tells the audit log about egress; texts are always embedded by
   the Ollama plugin. *)
Egress(action, m) == IF action = "embed" THEN IsOllamaCloud(m) ELSE Route(m).egress

(* ModelGateway.models: nothing that sovereign mode would refuse. *)
Listed == {m \in Installed : PrefixOf[m] \in loaded /\ ~(sovereign /\ Route(m).egress)}

Event(x, action, m, egress) == [of |-> x, action |-> action, model |-> m, egress |-> egress]

Contact(x, action, m) == contacted' = contacted \cup {[of |-> x, action |-> action, model |-> m]}

(* The providers with a key: none is read in sovereign mode. *)
CloudKeys(sovereignMode) ==
  IF sovereignMode THEN {} ELSE CloudProviders \cap {PrefixOf[m] : m \in Models}

(* Settings are refused at start if the gateway would have to embed in a cloud. *)
SettingsOK == sovereign => ~IsOllamaCloud(EmbedModel)

(* The local plugins are loaded, and of the cloud's those whose key is set. *)
BuildModels ==
  /\ sovereign \in BOOLEAN
  /\ loaded \in {{"ollama"} \cup p : p \in SUBSET CloudKeys(sovereign)}

Init ==
  /\ BuildModels /\ SettingsOK
  /\ chat = [c \in Chats |-> [pc |-> "new", model |-> EmbedModel, streamed |-> FALSE]]
  /\ call = [x \in Calls |-> IF x \in Jobs THEN "embed" ELSE "none"]
  /\ found = [c \in Chats |-> <<<<>>, <<>>>>]
  /\ sources = [c \in Chats |-> <<>>]
  /\ wire = [c \in Chats |-> <<>>]
  /\ said = [c \in Chats |-> 0]
  /\ heard = [c \in Chats |-> 0]
  /\ stored = [c \in Chats |-> Unrecorded]
  /\ audit = {} /\ contacted = {}

----------------------------------------------------------------------------
(* core-api. ChatService.prepare: the question is embedded first. *)
Ask(c, m, s) ==
  /\ chat[c].pc = "new"
  /\ chat' = [chat EXCEPT ![c] = [pc |-> "embedding", model |-> m, streamed |-> s]]
  /\ call' = [call EXCEPT ![c] = "embed"]
  /\ UNCHANGED <<deployment, prompts, wire, said, heard, stored, trail>>

At(c, pc) == chat' = [chat EXCEPT ![c].pc = pc]

(* GatewayEmbedder.embed returns a vector, or raises: an ordinary HTTP error. *)
Embedded(c) == chat[c].pc = "embedding" /\ call[c] \in {"embedded", "refused"}

(* The vector arrives, the workspace is searched, and the prompt is sent. *)
Prepare(c) ==
  /\ Embedded(c)
  /\ IF call[c] = "embedded"
       THEN /\ \E semantic, lexical \in Rankings(Chunks, TopK) :
                 /\ found' = [found EXCEPT ![c] = <<semantic, lexical>>]
                 /\ sources' = [sources EXCEPT ![c] = Fuse(semantic, lexical, ContextChunks)]
            /\ At(c, "relaying")
            /\ call' = [call EXCEPT ![c] = "chat"]
       ELSE At(c, "failed") /\ UNCHANGED <<call, prompts>>
  /\ UNCHANGED <<deployment, wire, said, heard, stored, trail>>

(* Mutant: an error event ends the answer as done does. *)
RelayErrorAsEnd(c) ==
  /\ chat[c].pc = "relaying" /\ wire[c] # <<>>
  /\ wire' = [wire EXCEPT ![c] = Tail(@)]
  /\ IF Head(wire[c]) = "delta" THEN heard' = [heard EXCEPT ![c] = @ + 1] /\ UNCHANGED chat
     ELSE At(c, "recording") /\ UNCHANGED heard
  /\ UNCHANGED <<deployment, prompts, call, said, stored, trail>>

(* GatewayModelClient.stream_chat and ChatService.stream, event by event: a piece
   is relayed, an error ends the answer in-band, done leads to the record. (A body
   that ended with neither would be recorded too, but the gateway's has one: End.) *)
Relay(c) ==
  /\ chat[c].pc = "relaying" /\ wire[c] # <<>>
  /\ wire' = [wire EXCEPT ![c] = Tail(@)]
  /\ CASE Head(wire[c]) = "delta" -> heard' = [heard EXCEPT ![c] = @ + 1] /\ UNCHANGED chat
       [] Head(wire[c]) = "error" -> At(c, "failed") /\ UNCHANGED heard
       [] OTHER -> At(c, "recording") /\ UNCHANGED heard
  /\ UNCHANGED <<deployment, prompts, call, said, stored, trail>>

(* A refusal before the stream starts has an HTTP status of its own. *)
Refused(c) ==
  /\ chat[c].pc = "relaying" /\ call[c] = "refused"
  /\ At(c, "failed")
  /\ UNCHANGED <<deployment, prompts, call, wire, said, heard, stored, trail>>

(* The connection breaks, with what was still on it, or nothing arrives for as
   long as httpx waits; the gateway's generator is cancelled with it. *)
Underway == {"embed", "embedAudited", "chat", "admitted", "streaming"}

Cancelled(c) == [call EXCEPT ![c] = IF @ \in Underway THEN "cancelled" ELSE @]

Break(c) ==
  /\ chat[c].pc \in {"embedding", "relaying"}
  /\ At(c, "failed")
  /\ wire' = [wire EXCEPT ![c] = <<>>]
  /\ call' = Cancelled(c)
  /\ UNCHANGED <<deployment, prompts, said, heard, stored, trail>>

(* Mutant: the HTTP client waits without a limit. *)
NoTimeout(c) == FALSE

Timeout(c) == wire[c] = <<>> /\ call[c] \in Underway /\ Break(c)

(* record_exchange is one transaction; on an error nothing tells whether it
   was committed. The last chunk follows only after it. *)
Record(c) ==
  /\ chat[c].pc = "recording"
  /\ \/ stored' = [stored EXCEPT ![c] = heard[c]] /\ chat' = [chat EXCEPT ![c].pc = "answered"]
     \/ stored' \in {stored, [stored EXCEPT ![c] = heard[c]]} /\ At(c, "failed")
  /\ UNCHANGED <<deployment, prompts, call, wire, said, heard, trail>>

(* The client of a streamed answer closes its connection: the generators of
   both services are closed, wherever they are. *)
Leave(c) ==
  /\ chat[c].streamed /\ chat[c].pc \in {"relaying", "recording"}
  /\ At(c, "left")
  /\ call' = Cancelled(c)
  /\ stored' \in {stored} \cup
       IF chat[c].pc = "recording" THEN {[stored EXCEPT ![c] = heard[c]]} ELSE {}
  /\ UNCHANGED <<deployment, prompts, wire, said, heard, trail>>

----------------------------------------------------------------------------
(* model-gateway. Each service has a token of its own, which says what it may do. *)
Permissions(x) == IF x \in Chats THEN {"models", "chat", "embed"} ELSE {"embed"}

Asks(x, permission) == call[x] = permission /\ permission \in Permissions(x)

(* _deny: a refusal stands whether or not it could be recorded. *)
Deny(x, m) == UNCHANGED audit \/ audit' = audit \cup {Event(x, "denied", m, FALSE)}

(* ModelGateway.embed: the event, then the model. A write that fails refuses the
   call. *)
AdmitEmbed(x) ==
  /\ Asks(x, "embed")
  /\ \/ /\ audit' = audit \cup {Event(x, "embed", EmbedModel, Egress("embed", EmbedModel))}
        /\ call' = [call EXCEPT ![x] = "embedAudited"]
     \/ call' = [call EXCEPT ![x] = "refused"] /\ UNCHANGED audit
  /\ UNCHANGED <<deployment, prompts, chat, wire, said, heard, stored, contacted>>

Embed(x) ==
  /\ call[x] = "embedAudited"
  /\ Contact(x, "embed", EmbedModel)
  /\ \E outcome \in {"embedded", "refused"} : call' = [call EXCEPT ![x] = outcome]
  /\ UNCHANGED <<deployment, prompts, chat, wire, said, heard, stored, audit>>

(* Mutant: only another provider counts as leaving the network. *)
AdmitOllamaCloud(c) ==
  LET m == chat[c].model
      target == Route(m)
  IN /\ call[c] = "chat"
     /\ IF target.provider \notin loaded
          THEN call' = [call EXCEPT ![c] = "refused"] /\ UNCHANGED audit
          ELSE /\ audit' = audit \cup {Event(c, "chat", m, target.egress)}
               /\ call' = [call EXCEPT ![c] = "admitted"]
     /\ UNCHANGED <<deployment, prompts, chat, wire, said, heard, stored, contacted>>

(* Mutant: a failed audit write is logged and the call goes on. *)
AdmitUnaudited(c) ==
  LET m == chat[c].model
      target == Route(m)
  IN /\ call[c] = "chat"
     /\ call' = [call EXCEPT ![c] =
          IF (target.egress /\ sovereign) \/ target.provider \notin loaded
          THEN "refused" ELSE "admitted"]
     /\ (UNCHANGED audit \/ audit' = audit \cup {Event(c, "chat", m, target.egress)})
     /\ UNCHANGED <<deployment, prompts, chat, wire, said, heard, stored, contacted>>

(* ModelGateway.admit_chat: refuse egress, then an unknown provider, then write
   the event, without which no call is made. *)
AdmitChat(c) ==
  LET m == chat[c].model
      target == Route(m)
      refuse == call' = [call EXCEPT ![c] = "refused"]
  IN /\ Asks(c, "chat")
     /\ IF target.egress /\ sovereign THEN refuse /\ Deny(c, m)
        ELSE IF target.provider \notin loaded THEN refuse /\ UNCHANGED audit
        ELSE \/ refuse /\ UNCHANGED audit
             \/ /\ audit' = audit \cup {Event(c, "chat", m, target.egress)}
                /\ call' = [call EXCEPT ![c] = "admitted"]
     /\ UNCHANGED <<deployment, prompts, chat, wire, said, heard, stored, contacted>>

(* The provider's stream is opened; from here errors are reported in-band. *)
Open(c) ==
  /\ call[c] = "admitted"
  /\ Contact(c, "chat", chat[c].model)
  /\ call' = [call EXCEPT ![c] = "streaming"]
  /\ UNCHANGED <<deployment, prompts, chat, wire, said, heard, stored, audit>>

Emit(c, event) == wire' = [wire EXCEPT ![c] = Append(@, event)]

Piece(c) ==
  /\ call[c] = "streaming" /\ said[c] < MaxPieces
  /\ said' = [said EXCEPT ![c] = @ + 1]
  /\ Emit(c, "delta")
  /\ UNCHANGED <<deployment, prompts, chat, call, heard, stored, trail>>

End(c) ==
  /\ call[c] = "streaming"
  /\ \E event \in {"done", "error"} :
       Emit(c, event) /\ call' = [call EXCEPT ![c] = IF event = "done" THEN "ended" ELSE "broken"]
  /\ UNCHANGED <<deployment, prompts, chat, said, heard, stored, trail>>

----------------------------------------------------------------------------
Client(c) == \E m \in Models, s \in BOOLEAN : Ask(c, m, s)
CoreApi(c) == Prepare(c) \/ Relay(c) \/ Refused(c) \/ Record(c)
Gateway(c) == AdmitChat(c) \/ Open(c)

Done == /\ \A c \in Chats : chat[c].pc \in {"answered", "failed", "left"}
        /\ \A x \in Calls : call[x] \notin Underway
        /\ UNCHANGED vars

Next ==
  \/ \E c \in Chats : \/ Client(c) \/ Prepare(c) \/ Relay(c) \/ Refused(c) \/ Record(c)
                      \/ Break(c) \/ Leave(c)
                      \/ AdmitChat(c) \/ Open(c) \/ Piece(c) \/ End(c)
  \/ \E x \in Calls : AdmitEmbed(x) \/ Embed(x)
  \/ Done

(* The services take their steps and httpx keeps its timeouts. Nothing is asked
   of a model, nor of a client. *)
Spec ==
  /\ Init /\ [][Next]_vars
  /\ \A c \in Chats : WF_vars(CoreApi(c)) /\ WF_vars(Gateway(c)) /\ WF_vars(Timeout(c))

----------------------------------------------------------------------------
(* In sovereign mode no question, document or answer reaches a model outside the
   network, and the models offered to users are ones it does not refuse. *)
NothingLeaves ==
  sovereign =>
    /\ \A x \in contacted : ~Egress(x.action, x.model)
    /\ \A e \in audit : e.action = "denied" => e.model \notin Listed

(* Whatever reached a model has an audit event that says so, with the truth
   about egress, and nothing that was refused reached one: fail closed. *)
EveryContactAudited ==
  /\ \A x \in contacted :
       Event(x.of, x.action, x.model, Egress(x.action, x.model)) \in audit
  /\ \A x \in contacted, e \in audit :
       e.action = "denied" /\ e.of = x.of => x.action = "embed"

(* An exchange is recorded only when the model finished its answer, and then it
   is all of what the model said; a client that got the last chunk can rely on
   the record being there. *)
RecordsAreWhole ==
  \A c \in Chats :
    /\ stored[c] # Unrecorded => stored[c] = said[c] /\ call[c] = "ended"
    /\ chat[c].pc = "answered" => stored[c] # Unrecorded

(* A prompt cites as many of the chunks found as it has room for, each once, and
   leaves out none that both searches placed before one it cites. *)
SourcesAreTheBest ==
  \A c \in Chats :
    LET all == Range(found[c][1]) \cup Range(found[c][2])
        cited == Range(sources[c])
        Place(s, x) == IF Contains(s, x) THEN Rank(s, x) ELSE TopK + 1
    IN /\ Len(sources[c]) = Cardinality(cited) /\ cited \subseteq all
       /\ Cardinality(cited) = Min({ContextChunks, Cardinality(all)})
       /\ \A x \in all \ cited, y \in cited :
            ~\A i \in {1, 2} : Place(found[c][i], x) < Place(found[c][i], y)

(* No request waits for ever, not even on a model that falls silent. *)
EveryChatEnds == \A c \in Chats :
  chat[c].pc = "embedding" ~> chat[c].pc \in {"answered", "failed", "left"}
=============================================================================
