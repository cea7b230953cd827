------------------------------ MODULE RagService ------------------------------
(* The first version's answers from documents: rag-service with its shared Chroma
   collection and its Redis cache of answers, llm-service behind it, and the admin
   page that uploads documents and clears the index and the cache. Questions and
   admin operations run side by side; any call to Redis, Chroma or llm-service may
   fail, and the web app may give up on one that goes on. *)
EXTENDS Chunking

CONSTANTS
  Documents,   \* PDFs an admin may upload: the pages of each
  Size, Overlap, \* the chunker's configuration
  Questions,   \* pairs of question and model: what make_key tells apart
  CloudOnes,   \* those whose model id names an enabled cloud provider
  ServerKey,   \* whether llm-service has a key of its own for it
  LegacyAnonymous, \* ALLOW_LEGACY_ANONYMOUS
  Asks, Ops,   \* requests and admin operations at once
  MaxPieces,   \* bound on the deltas of an answer
  MaxCollections, \* bound on the collections created
  None

ASSUME InstanceAssumption ==
  /\ {Size, Overlap, MaxPieces, MaxCollections} \subseteq Nat /\ Overlap < Size
  /\ Documents \subseteq Seq(Seq({0, 1})) /\ CloudOnes \subseteq Questions
  /\ {ServerKey, LegacyAnonymous} \subseteq BOOLEAN /\ None # TRUE

VARIABLES
  index,   \* Chroma: the incarnation of "documents", 0 for none, what it holds,
           \* and how many there were
  cache,   \* Redis "chat:*": for a question, whether the whole answer is there
  asks,    \* what each chat request is doing
  ops,     \* what each admin operation is doing
  acked    \* documents whose upload was acknowledged and not cleared since

ragVars == <<index, cache, asks, ops, acked>>

NoAsk == [pc |-> "free", kind |-> None, q |-> None, key |-> None, got |-> 0, want |-> 0]
NoOp == [pc |-> "free", kind |-> None, doc |-> None, coll |-> 0, left |-> {}, old |-> {},
         alone |-> FALSE, failed |-> FALSE]

RagInit ==
  /\ index = [coll |-> 0, docs |-> {}, made |-> 0]
  /\ cache = [q \in Questions |-> None]
  /\ asks = [a \in Asks |-> NoAsk]
  /\ ops = [o \in Ops |-> NoOp]
  /\ acked = {}

Goes(a, pc) == asks' = [asks EXCEPT ![a].pc = pc]
Ends(a) == asks' = [asks EXCEPT ![a] = NoAsk]
Turns(o, pc) == ops' = [ops EXCEPT ![o].pc = pc]

----------------------------------------------------------------------------
(* Mutant: whatever Bearer there is is taken for a provider's key. *)
BearerKeyOfAnyone(caller, bearer) == IF bearer \in {"identity", "provider"} THEN bearer ELSE None

(* _bearer_api_key: only an anonymous legacy caller's Bearer can be a provider's
   key, and placeholder keys are ignored. *)
BearerKey(caller, bearer) == IF caller = "anonymous" /\ bearer = "provider" THEN bearer ELSE None

(* What may come as a Bearer: nothing, an identity that holds or one that does not,
   a provider's key, a placeholder. *)
Bearers == {None, "identity", "expired", "provider", "placeholder"}

(* Authenticator: the verdict of the provider that accepts a credential is final; a
   caller no provider knows is anonymous while legacy calls are allowed. *)
Authenticate(bearer) ==
  CASE bearer = "identity" -> "user"
    [] bearer = "expired" -> "refused"
    [] OTHER -> IF LegacyAnonymous THEN "anonymous" ELSE "refused"

(* POST /chat and /chat/stream look in the cache; their body may bring a key. *)
Ask(a, q, bearer, key) ==
  /\ asks[a].pc = "free" /\ Authenticate(bearer) # "refused"
  /\ asks' = [asks EXCEPT ![a] = [NoAsk EXCEPT !.pc = "cache", !.kind = "own", !.q = q, !.key = key]]
  /\ UNCHANGED <<index, cache, ops, acked>>

(* POST /v1/chat/completions never does; its key comes from the Bearer. *)
AskOpenAI(a, q, bearer) ==
  /\ asks[a].pc = "free" /\ Authenticate(bearer) # "refused"
  /\ asks' = [asks EXCEPT ![a] = [NoAsk EXCEPT !.pc = "embed", !.kind = "openai", !.q = q,
                                  !.key = BearerKey(Authenticate(bearer), bearer)]]
  /\ UNCHANGED <<index, cache, ops, acked>>

(* mcp-service runs its tools with the key it was configured with as credential;
   the ask tool posts it with the question, and never a provider's key. *)
AskTool(a, q, credential) == Ask(a, q, credential, None)
CallTool(a, q) == AskTool(a, q, "identity")

(* ChatCache.get: a failure is a miss. *)
Lookup(a) ==
  /\ asks[a].pc = "cache"
  /\ \/ cache[asks[a].q] # None /\ Ends(a)
     \/ Goes(a, "embed")
  /\ UNCHANGED <<index, cache, ops, acked>>

(* _collection: the index once its collection was got or created. *)
Collection ==
  LET coll == IF index.coll = 0 THEN index.made + 1 ELSE index.coll
  IN [index EXCEPT !.coll = coll, !.made = Max({@, coll})]

(* embed_one and Retriever.retrieve: a search gets or creates the collection, also
   after a clear; whatever fails, the answer goes without context. *)
Retrieve(a) ==
  /\ asks[a].pc = "embed"
  /\ \/ index' = Collection /\ index'.coll <= MaxCollections
     \/ UNCHANGED index
  /\ Goes(a, "generate")
  /\ UNCHANGED <<cache, ops, acked>>

(* split_model and _route: a model id with the name of an enabled cloud provider
   before the slash goes there, any other one to the local provider. *)
Route(q) == IF q \in CloudOnes THEN "cloud" ELSE "local"

(* _completion, then _call_kwargs: the local provider is never handed a key, a cloud
   one takes the request's, else the server's. *)
KeyFor(a) ==
  IF Route(asks[a].q) = "local" THEN None
  ELSE IF asks[a].key # None THEN asks[a].key
  ELSE IF ServerKey THEN "server" ELSE None

(* A cloud provider refuses without a key. *)
Generate(a) ==
  /\ asks[a].pc = "generate"
  /\ IF Route(asks[a].q) = "cloud" /\ KeyFor(a) = None THEN Ends(a)
     ELSE \E n \in 0..MaxPieces :
            asks' = [asks EXCEPT ![a].pc = "pieces", ![a].key = KeyFor(a), ![a].want = n]
  /\ UNCHANGED <<index, cache, ops, acked>>

Piece(a) ==
  /\ asks[a].pc = "pieces" /\ asks[a].got < asks[a].want
  /\ asks' = [asks EXCEPT ![a].got = @ + 1]
  /\ UNCHANGED <<index, cache, ops, acked>>

(* The provider is done: an answer of at least one piece is cached, except for
   OpenAI clients. *)
Complete(a) ==
  /\ asks[a].pc = "pieces" /\ asks[a].got = asks[a].want
  /\ IF asks[a].got > 0 /\ asks[a].kind # "openai" THEN Goes(a, "store") ELSE Ends(a)
  /\ UNCHANGED <<index, cache, ops, acked>>

(* Mutant: what came before an error is cached. *)
BreakStoring(a) ==
  /\ asks[a].pc \in {"embed", "generate", "pieces"}
  /\ IF asks[a].got > 0 THEN Goes(a, "store") ELSE Ends(a)
  /\ UNCHANGED <<index, cache, ops, acked>>

(* A provider fails or times out, at any point: the stream ends with an error line,
   for OpenAI clients with an error in the text. Or the reader has gone. *)
Break(a) ==
  /\ asks[a].pc \in {"embed", "generate", "pieces"}
  /\ Ends(a)
  /\ UNCHANGED <<index, cache, ops, acked>>

(* answer_query and stream_answer: the steps of a question from the cache to the
   provider and back. *)
Answer(a) ==
  \/ Lookup(a) \/ Retrieve(a) \/ Generate(a) \/ Piece(a) \/ Complete(a) \/ Break(a)

(* What the operations under way remember of a question whose entry is replaced
   (the scan still meets its key) or gone (it need not). *)
Replaced(q) == [o \in Ops |-> [ops[o] EXCEPT !.old = @ \ {q}]]
Gone(q) == [o \in Ops |-> [ops[o] EXCEPT !.old = @ \ {q}, !.left = @ \ {q}]]

(* ChatCache.set: a failure loses the entry, never the answer. *)
Store(a) ==
  LET q == asks[a].q
  IN /\ asks[a].pc = "store"
     /\ \/ /\ cache' = [cache EXCEPT ![q] = asks[a].got = asks[a].want]
           /\ ops' = Replaced(q)
        \/ UNCHANGED <<cache, ops>>
     /\ Ends(a)
     /\ UNCHANGED <<index, acked>>

(* The entry's time to live is over. *)
Expire(q) ==
  /\ cache[q] # None
  /\ cache' = [cache EXCEPT ![q] = None]
  /\ ops' = Gone(q)
  /\ UNCHANGED <<index, asks, acked>>

----------------------------------------------------------------------------
(* The upload card sends its files one at a time, and a second batch beside it. *)
UploadFile(o, d) ==
  /\ ops[o].pc = "free"
  /\ ops' = [ops EXCEPT ![o] = [NoOp EXCEPT !.pc = "prepare", !.kind = "upload", !.doc = d]]
  /\ UNCHANGED <<index, cache, asks, acked>>

(* The button of the danger zone, once "clear" was typed. *)
ClearIndex(o) ==
  /\ ops[o].pc = "free"
  /\ ops' = [ops EXCEPT ![o] = [NoOp EXCEPT !.pc = "obtain", !.kind = "clear"]]
  /\ UNCHANGED <<index, cache, asks, acked>>

ClearCache(o) ==
  /\ ops[o].pc = "free"
  /\ ops' = [ops EXCEPT ![o] = [NoOp EXCEPT !.pc = "scan", !.kind = "cache",
                                !.old = {q \in Questions : cache[q] # None}]]
  /\ UNCHANGED <<index, cache, asks, acked>>

(* The pages are loaded, chunked and embedded; a document without text, an
   unreadable one or a failing embedding ends it. *)
Prepare(o) ==
  /\ ops[o].pc = "prepare"
  /\ \/ Chunks(ops[o].doc, Size, Overlap) # {} /\ Turns(o, "obtain")
     \/ Turns(o, "free")
  /\ UNCHANGED <<index, cache, asks, acked>>

(* upsert and clear begin with the collection, too. *)
Obtain(o) ==
  /\ ops[o].pc = "obtain"
  /\ \/ /\ index' = Collection /\ index'.coll <= MaxCollections
        /\ ops' = [ops EXCEPT ![o].pc = "act", ![o].coll = Collection.coll]
     \/ Turns(o, "free") /\ UNCHANGED index
  /\ UNCHANGED <<cache, asks, acked>>

(* When the store has answered, the web app clears the cache, unless it has given
   up waiting. *)
Proceeds(o) ==
  ops' = [ops EXCEPT ![o].pc = IF ops[o].alone THEN "free" ELSE "scan",
                     ![o].old = {q \in Questions : cache[q] # None}]

(* Mutant: a failure of the store is not raised. *)
UpsertUnchecked(o) ==
  /\ ops[o].pc = "act" /\ ops[o].kind = "upload"
  /\ index' = [index EXCEPT !.docs = IF index.coll = ops[o].coll THEN @ \cup {ops[o].doc} ELSE @]
  /\ acked' = acked \cup {ops[o].doc}
  /\ Proceeds(o)
  /\ UNCHANGED <<cache, asks>>

(* upsert by the incarnation obtained: one that was dropped since is an error, and
   an answer that is lost too. *)
Upsert(o) ==
  /\ ops[o].pc = "act" /\ ops[o].kind = "upload"
  /\ \/ /\ index.coll = ops[o].coll
        /\ index' = [index EXCEPT !.docs = @ \cup {ops[o].doc}]
        /\ \/ acked' = acked \cup {ops[o].doc} /\ Proceeds(o)
           \/ Turns(o, "free") /\ UNCHANGED acked
     \/ Turns(o, "free") /\ UNCHANGED <<index, acked>>
  /\ UNCHANGED <<cache, asks>>

(* clear: the collection is dropped by its name; that there is none is an error. *)
Drop(o) ==
  /\ ops[o].pc = "act" /\ ops[o].kind = "clear"
  /\ \/ /\ index.coll # 0
        /\ index' = [index EXCEPT !.coll = 0, !.docs = {}]
        /\ acked' = {}
        /\ Proceeds(o) \/ Turns(o, "free")
     \/ Turns(o, "free") /\ UNCHANGED <<index, acked>>
  /\ UNCHANGED <<cache, asks>>

(* The web app stops waiting, for a clear after three seconds; rag-service goes
   on, but nobody will clear the cache. *)
GiveUp(o) ==
  /\ ops[o].pc \in {"prepare", "obtain", "act"} /\ ~ops[o].alone
  /\ ops' = [ops EXCEPT ![o].alone = TRUE]
  /\ UNCHANGED <<index, cache, asks, acked>>

(* Mutant: the scan stops after its first batch. *)
ScanOneBatch(o) ==
  /\ ops[o].pc = "scan"
  /\ \E batch \in SUBSET {q \in Questions : cache[q] # None} :
       ops' = [ops EXCEPT ![o].pc = "delete", ![o].left = batch]
  /\ UNCHANGED <<index, cache, asks, acked>>

(* ChatCache.clear scans: a key that is there from start to end is met for sure. *)
Scan(o) ==
  /\ ops[o].pc = "scan"
  /\ ops' = [ops EXCEPT ![o].pc = "delete", ![o].left = {q \in Questions : cache[q] # None}]
  /\ UNCHANGED <<index, cache, asks, acked>>

DeleteKey(o, q) ==
  /\ ops[o].pc = "delete" /\ cache[q] # None
  /\ cache' = [cache EXCEPT ![q] = None]
  /\ ops' = Gone(q)
  /\ UNCHANGED <<index, asks, acked>>

(* Redis fails: what was cleared so far is reported, and no error. *)
ScanFails(o) ==
  /\ ops[o].pc \in {"scan", "delete"}
  /\ ops' = [ops EXCEPT ![o].pc = "told", ![o].failed = TRUE, ![o].left = {}]
  /\ UNCHANGED <<index, cache, asks, acked>>

Told(o) ==
  /\ ops[o].pc = "delete" /\ ops[o].left = {}
  /\ Turns(o, "told")
  /\ UNCHANGED <<index, cache, asks, acked>>

Over(o) ==
  /\ ops[o].pc = "told"
  /\ ops' = [ops EXCEPT ![o] = NoOp]
  /\ UNCHANGED <<index, cache, asks, acked>>

(* The documents page: an upload card and a danger zone. *)
DocumentsPanel(o) == (\E d \in Documents : UploadFile(o, d)) \/ ClearIndex(o) \/ ClearCache(o)

(* indexDocument, clearDocumentIndex and clearAnswerCache of the web app, over the
   endpoints of rag-service. *)
AdminService(o) == Prepare(o) \/ Obtain(o) \/ Upsert(o) \/ Drop(o) \/ GiveUp(o)

(* ChatCache.clear. *)
Clear(o) == Scan(o) \/ (\E q \in Questions : DeleteKey(o, q)) \/ ScanFails(o) \/ Told(o)

RagNext ==
  \/ \E a \in Asks, q \in Questions, bearer \in Bearers :
       \/ \E key \in {None, "provider"} : Ask(a, q, bearer, key)
       \/ AskOpenAI(a, q, bearer)
  \/ \E a \in Asks, q \in Questions : CallTool(a, q)
  \/ \E a \in Asks : Answer(a) \/ Store(a)
  \/ \E q \in Questions : Expire(q)
  \/ \E o \in Ops : DocumentsPanel(o) \/ AdminService(o) \/ Clear(o) \/ Over(o)

RagSpec == RagInit /\ [][RagNext]_ragVars

----------------------------------------------------------------------------
(* A question is never answered from the cache with part of an answer, whatever
   failed or went away while it was streamed. "Index one PDF, then drop cached answers
   so none predates it": once an upload, a clear of the index or of the cache has
   answered, no answer that was cached when its change was made is still there,
   provided that Redis worked. *)
CacheIsCurrent ==
  /\ \A q \in Questions : cache[q] # None => cache[q]
  /\ \A o \in Ops : ops[o].pc = "told" /\ ~ops[o].failed => ops[o].old = {}

(* A document whose upload was acknowledged is in the index unless the index was
   cleared since, and every character of it is found: in a chunk that names the page
   its own first character is on. *)
AcknowledgedIsFound ==
  \A d \in acked :
    LET pages == WithText(d)
        text == Text(pages)
        On(p, i) == p \in StartOf(pages, i)..(StartOf(pages, i) + Len(pages[i]) - 1)
    IN /\ d \in index.docs
       /\ \A p \in 0..(Len(text) - 1) : text[p + 1] = 1 =>
            \E c \in Chunks(d, Size, Overlap) : p \in c.from..c.to /\ On(c.from, c.page)

(* No provider is ever handed what a caller proves its identity with, and the local
   one no key at all. *)
IdentityStaysHome ==
  \A a \in Asks : asks[a].pc = "pieces" =>
    IF asks[a].q \in CloudOnes THEN asks[a].key \in {"provider", "server"} ELSE asks[a].key = None
=============================================================================
