# Formal models of LLM Dev Kit

TLA+ models of the parts of LLM Dev Kit in which several actors share state: the
ingestion queue and its workers, the turns of a web chat on the server and in the
browser, identities, keys and tokens, workspaces, the model gateway, the first version's
answers with their cache, the plugin registry, and the parts of a page that keep state of
their own. TLC checks each model on small instances; TLAPS proves the safety properties of
every one of them for every value of the constants.

- `tlc -config X.cfg M` runs a configuration, `tlapm X.tla` checks a module with proofs.
- `PROJECT.json` lists components, runs, mutants, the source lines of every definition,
  findings, hazards and theorems.
- A comment that begins with *Mutant* marks a plausible bug of the definition below it.
  No specification uses one; a property is worth its run only if some mutant breaks it.

## The system and its parts

| component | state | operations | shares with |
| --- | --- | --- | --- |
| ingestion queue (`core_api/adapters/postgres.py`) | `ingestion_jobs`, `documents`, `chunks`, `document_blobs` | `create_upload`, `claim`, `reclaim_expired`, `retry_later`, `fail`, `replace_chunks` | API requests, workers |
| ingest-worker (`ingest_worker/`) | the claimed `Job`, nothing else | `run`, `process_next`, `_index`, `_settle_failure` | the queue, other workers, model gateway |
| web chat turns (`chat-service.ts`, `api/chat/route.ts`) | `Chat`, `Message`, `MessageVersion`; per request a snapshot, a prepared turn, the text so far | `prepareTurn` (send, edit, regenerate), the streaming route, `finalizeAssistantMessage`, `deleteMessage`, `deleteChat` | the tabs of one user |
| web chat client (`use-chat-stream.ts`, `stream-client.ts`) | the list on screen, status, `abortRef` | `runTurn`, `stop`, refetches | chat route, query cache |
| web identity (`server/identity/`) | `SigningKey` rows, cached key, users, API keys | `activeSigningKey`, `publishedKeys`, `mintAccessToken`, `resolveApiKey`, `ensureAdmin`, role changes | other web processes, the auth plugin |
| auth plugin (`ldk_plugin_auth/`) | `KeySet._keys`, `_fetched_at`, `_exchanged` | `KeySet.key`, `verify`, `_from_api_key`, OIDC discovery | every Python service, web |
| core-api (`core_api/services`, `api`) | workspaces, memberships, keys, conversations, audit events | resolve a caller, create and revoke keys, upload, retrieve, stream and record an answer | gateway, Postgres |
| model gateway (`model_gateway/`) | policies, audit log | `admit_chat`, `stream`, `embed` | providers, callers |
| plugin registry (`ldk_core/plugins/registry.py`) | plugins, configurations, instances, a lock | `register`, `get`, `configure`, `enable`, `disable`, `aclose` | every service |
| rag-service, llm-service, mcp-service (v1) | Redis answers, Chroma collection | ask, ingest, clear | clients, the admin page |
| web chat list, folders, links (`use-chats.ts`, `folder-service.ts`, `chat-service.ts`) | the tab's copies of both lists, `Folder` and `Chat` rows, a prompt in `sessionStorage` | optimistic updates, rollbacks, refetches; create, move, share, delete | other tabs of the user |
| web accounts (`api/auth/register`, `lib/auth`, `rate-limit.ts`) | `User` rows, buckets in memory | register, sign in, limit | other requests |
| web page (`command-palette.tsx`, `middleware.ts`, `markdown-blocks.ts`, `message-item.tsx`) | the palette's box, answers and highlight; a tab's address and form; an answer, its blocks and versions | type, run; follow redirects, sign in and out; grow, regenerate, page back | the session cookie, the query cache |
| migrations, deployment, settings | no state of their own | | |

What makes these parts hard, and what makes each one correct:

- **Ingestion**: two tables written by five transactions; a worker holds its job through
  minutes of parsing and embedding without any lock, only with a lease that others may
  reclaim. *Correct*: document and job never disagree, a worker that lost its lease
  changes nothing, attempts are bounded although crashes count, every upload settles.
- **Chat turns**: `prepareTurn` reads the chat outside the transaction that uses it, and
  a stopped stream is finalized after the tab is idle again. *Correct*: the order of
  messages stays total, a text that was shown is kept as a version, nothing deleted
  comes back, a turn ends the chat and its prompt ends with the question.
- **Keys and tokens**: each web process uses a key it cached, rotation is decided by
  whichever request comes first, services keep a copy of the key set and refresh it from
  overlapping requests. *Correct*: a valid token's key is published until the token
  expires; a service that does not know a new key learns it soon.
- **Exchanged API keys, roles, admin**: verified keys are cached for a minute, limits are
  counted before the insert, the first admin is appointed by whoever signs up. *Correct*: a
  revocation or demotion takes effect within the stated time, limits hold or are missed by
  no more than the requests in flight, an administrator remains.
- **Workspaces**: a request's access is read in two transactions and used in a third, the
  audit event follows in a fourth. *Correct*: what a request does, it was entitled to at
  some moment of its life; the trail misses only what failed on the way.
- **Gateway and core-api**: admission and audit come before a call, recording comes after
  the stream, and two services, a model and a client may each stop in between. *Correct*:
  nothing reaches a model without its event, nothing leaves a sovereign installation, only
  whole answers are recorded, no request hangs.
- **rag-service**: the answer cache knows neither documents nor time. *Correct*: a change of
  the documents forgets the answers before it, no part of an answer is cached, what was
  acknowledged is found, no provider is handed a caller's identity.
- **Browser**: the hook's list, the query cache and the server's rows are three copies that
  change at their own pace. *Correct*: no refetch undoes what a turn shows, every turn ends,
  the lists converge, a prompt is sent once.
- **Page**: the palette shows two sources of matches that keep different time, a redirect
  carries what it was asked for through a session that may end at any moment, a growing answer
  is cut into blocks that are rendered once. *Correct*: nothing stale is run, who signs in gets
  where they were going, the blocks show what the whole would.
- **Registry**: instances are built under a lock, used outside it, and dropped by three
  operations. *Correct*: one instance for a configuration, none that was closed is handed out.

`PROJECT.json` lists each of these hazards at its line, with the properties that cover it.

## Modules

| module | models | composed with |
| --- | --- | --- |
| `DocumentLifecycle` | abstract: what ingestion promises of one document | implemented by `IngestQueue` |
| `IngestQueue` | queue, documents, workers, database clock | |
| `ChatTurns` | requests to one chat, its rows and versions | |
| `SigningKeys` | web side: rows, caches, requests in `activeSigningKey`, tokens, the clock's `Tick` | extended by |
| `TokenVerification` | one service: fetches, the set it knows; the whole system's `Next` | |
| `WorkspaceAccess` | requests of core-api, memberships, keys, documents, audit events | |
| `WorkspaceAccessProofs` | its theorems | |
| `ModelAccess` | a chat through core-api and the gateway, and the worker's embeddings | extends `Retrieval` |
| `Retrieval` | reciprocal rank fusion of two result lists | extends `Lists` |
| `AnswerProofs` | theorems on `ChatTurns`, `ModelAccess`, `Retrieval` | |
| `Identity` | accounts, roles, personal keys, the limiter; a service's cache of exchanged keys | |
| `IdentityProofs` | its theorems | |
| `RagService` | questions and admin operations over index and answer cache | extends `Chunking` |
| `Chunking` | pages to text to windows to chunks | extends `Lists` |
| `DocumentsProofs` | theorems on `IngestQueue`, `RagService`, `Chunking` | |
| `PluginRegistry` | threads over one registry | |
| `ServicePlugins` | what a service keeps for its plugins, one part at a time | extends `PluginRegistry`, `TokenVerification` |
| `PluginProofs` | theorems on `PluginRegistry` and on `TokenVerification` | |
| `ChatStreamHook` | one chat in the browser, with the server's rows and late writes | extends `Lists` |
| `ChatStreamHookProofs` | its theorems | |
| `ChatList` | the sidebar of one tab, the rows behind it, other tabs | |
| `Palette` | the command palette and its search | extends `Lists` |
| `SignIn` | middleware, forms and session, in several tabs | |
| `AnswerView` | an answer as it grows, its blocks and versions | |
| `WebPage` | one of the last three at a time | extends them |
| `BrowserProofs` | theorems on `ChatList`, `SignIn`, `Palette`, `AnswerView` | |
| `Lists` | a filter of lists, as a recursive function | |
| `ListLemmas` | induction over the natural numbers, recursive functions, lists | extends `Lists` |
| `MC…` | constants for TLC | |

### Ingestion

An action is a transaction of `PostgresStore`, taken under the row lock of the job
(`Upload`, `Claim`, `ReclaimExpired`, `RetryLater`, `Fail`, `ReplaceChunks`), or a step
of a worker between two of them (`Index`, `NothingDue`, `Crash`, `Restart`). `phase[w]` is
the place of a worker in `run` and `process_next`, `job[w]` the `Job` it claimed. The
lease is one bit per job that turns true at any moment after the claim (`LeaseExpires`),
so every ratio of lease to work is covered. `run_after` is kept as a time because the
queue is ordered by it. A chunk set is named by the attempt that wrote it.

`create_upload` of bytes that exist writes nothing modelled here. A re-index job exists
only in tests and is left out. The audit event after an upload is a transaction of its
own and is in `WorkspaceAccess`.

### Chat turns

A request passes `new`, `read`, `prepared`, `streaming`, `over`. `Read` is the query before
the transaction, `Send`, `Edit` and `Regenerate` are the transaction, each with the rows it
deletes, the text it archives and the row it leaves empty. `Finish` is the end of the stream
with `finalizeAssistantMessage`. A message id is the request that created it and the role;
a user text is the request that wrote it, an answer the request that produced it. Only
emptiness of a text matters to the code (`trim`), titles and models are left out.

`usage` says how far requests overlap, and is fixed at the start: `turns` (one after
another), `preparations` (`prepareTurn` runs alone, streams overlap with everything: one
tab, since the hook's status guard opens as soon as a stream is stopped), `free` (several
tabs). Each property names the overlap it needs; that is the answer to what the code
guarantees, since nothing on the server enforces either of the first two.

### Signing keys and tokens

One clock serves all processes; skew is what `Leeway` is for and is not modelled beyond it.
`call[c]` is a request inside `activeSigningKey` between reading the clock and filling the
cache: it found a key that may sign, or has to create one. `Find`, `Miss`, `Adopt` and
`Create` are the steps between its awaits; `Reuse` is the cached return. Insert and
deletion in `createSigningKey` are one step: what is deleted is published no more. The query of
`publishedKeys` is one step with the end of `activeSigningKey`. A change of `AUTH_SECRET` comes with a redeployment, and makes
sealed private halves unreadable while public halves stay.

On the service, `Ask` is the decision of `KeySet.key` with the start of `_refresh`, `Publish`
the web app's work for it, `Apply` the assignment of the new set, `FetchFails` any
exception. Any number of requests are between these steps; an answer that is older may be
applied last. When a fetch fails while the web app still works on it, that work is dropped
from the request and may be done by a minting request instead, which takes the same steps.
The answer's `Cache-Control` is not modelled: the services' HTTP client keeps no cache.

### Workspaces

A request of core-api is a slot that is used again: `Authenticate` is `AccessResolver.caller`
(for a key: the read of its row), `Resolve` the read of the membership with
`domain/access.resolve`, then one action per transaction of the service called, and `Audit`.
Only operators change a role, in the database; a key may expire at any step; `Fail` ends a
request between any two of its transactions. `entitled` and `unlogged` are history
variables: what key and role have been worth since the request began, and events that were
never written. Digests, prefixes and `last_used_at` are left out.

### Model access

One chat crosses core-api (`chat`), the wire, and the gateway (`call`); an embedding job of
the worker uses the gateway beside it. The deployment (sovereign mode, which providers have
keys) is chosen in `Init`, as `create_app` does it. The audit write may fail at any call,
a provider may fail or fall silent, the connection may break, a streaming client may leave.
Both searches return any ranking of the chunks; `Fuse` is evaluated on each pair, with the
fractions of `rrf` over a common denominator.

### Accounts, roles and keys

The web app's database is SQLite: an interactive transaction that has read does not commit
after another write (`AfterWrite` spoils it, `RoleCommit` then answers with an error).
`ensureAdmin` in a registration is one with its transaction; on a sign-up through a provider
it reads and writes in separate steps. Accounts are numbered by `createdAt`, which need not be
the order in which their rows appear. On the service, `Exchange` is the miss, `Resolve` and
`Mint` the web app's part, `Remember` the entry, whose time counts from `Exchange`. The cache
is a sequence in the order of insertion; what `_remember` keeps of it is `EntriesAt` the places
of the entries that are kept.

### rag-service

A question goes through cache, retrieval, generation and the cache again; whether its answer
is whole is all that is kept of it. Its search may make the collection anew, as `store.search`
gets or creates it. An administrator's operation is one machine from the
button through the web app and rag-service to the last deletion in Redis; `GiveUp` is the
web app's timeout, after which rag-service goes on and nobody clears the cache. The
collection has incarnations, as a handle outlives a drop. `SCAN` meets for certain only keys
that are there throughout. Documents are pages of ink and blanks, chunked by `Chunking`.

### Browser

`ChatStreamHook` holds what `useChatStream` holds (`shown`, `status`, `pending`), what
react-query holds (`data`, `fetch`), the events on the wire, and the rows that the route
writes, late or not. A text is the sequence of its pieces, each named by its turn, so that a
mix of two answers would be seen. The removal of a failed answer is one step with its request.
`ChatTurns` is the same server with all its races between requests; here the route's part is
reduced to what one tab can see of it.

`ChatList` holds both cached lists, their refetches, and requests of this tab and of others
in four states. A patch sets the folder or the link; title, pin and archive flag are set by
the same update and not told apart. `dead` and `gone` are histories of links: those that were
revoked, and those that left their chat while no other request to share had read them (`Held`).
A rollback restores the list from before its own change.
A chat whose folder is not on the tab's shelf is on neither list, as in `ChatNavigation`.

### Page

`Palette` keeps of a title only whether it contains a needle, and where: in front, inside or
in a keyword. `Pause` is the debounce, `SearchAnswers` and `SearchFails` the late or failed
answer; a request for a needle that is no longer waited for is aborted. `SignIn` keeps per
tab the page it shows, the address it is going to and its form; `Request` is the middleware,
`ChatLayout` the second check of the session, `wanted` a history variable. In `AnswerView` a
line is one of ten kinds, and grows from one kind to another as a stream does; `Rendered` is the
reference, written from the rules of Markdown and not from the splitter. The three share
nothing but the session, so `WebPage` runs one of them at a time.

Recursion over data (filtering, flattening, chunk windows, the lines of an answer, the fusion's
denominator) is written with recursive functions throughout: there is no `RECURSIVE` operator.

### Registry

Each action is a critical section of the lock, or a step outside it: the names `get_all`
reads, the closing of each instance. A factory may fail at any time; which entry points are
installed, and whether their manifests are sound, is chosen in `Init`.

## Runs

| run | instance | result |
| --- | --- | --- |
| `ingest` | 2 documents, 2 workers with ids of their own, 1 reliable, 2 attempts | 130,561 states, all properties hold |
| `chat` | 3 requests, window of 2, all three usages | 213,997 states, all hold |
| `workspace_access` | 1 workspace, 1 user, 3 keys under a limit of 1, 2 requests at a time, 1 role change | 2.1 million states, all hold |
| `model_access` | 1 chat of up to 2 pieces, 1 embedding job, 3 models, 3 chunks | 0.4 million states, all hold |
| `service_plugins` | registry: 2 threads, 2 plugins, 3 configurations (1 refused), 3 installs, 3 instances; key set: 1 web process, 1 minting and 2 verifying requests, 3 keys, 2 secrets, 6 ticks | 2.5 million states, all hold |
| `identity` | 2 accounts, 2 keys under a limit of 1, 2 requests at a time, 3 moments | 5.0 million states, all hold |
| `rag_service` | 2 documents, 2 questions, 1 asked at a time, 2 admin operations at a time | 2.9 million states, all hold |
| `chat_client` | 2 turns of up to 2 pieces, 1 further refetch | 0.8 million states, all hold |
| `chat_list` | 2 chats, 1 folder, 3 requests of which 2 at a time, 2 links, 1 prompt | 3.4 million states, all hold |
| `web_page` | 3 needles, 3 commands, 3 chats; 2 tabs; 5 lines, 2 older versions | 2.2 million states, all hold |
| `chat_answer_lost` | preparations alone | `NoAnswerLost` violated |
| `chat_link_revived` | 1 chat, 3 requests of which 2 at a time, 2 links | `OldLinksStopResolving` violated |

**What the passing runs show**

- `workspace_access`: `EffectsEntitled` (key and role each covered what was done at some
  moment since the request began; not at the moment it is done, which the code does not
  promise), `KeysNearLimit` (the limit is exceeded by at most the other requests that counted
  with it), `ChangesAccountedFor` (every change has one event, or a request about to write it,
  or one that failed to).
- `model_access`: `NothingLeaves`, `EveryContactAudited`, `RecordsAreWhole`,
  `SourcesAreTheBest` (a chunk both searches place higher is never left out for a lower one),
  `EveryChatEnds`.
- `service_plugins`: of the registry, `KeptIsCurrent`, `BuiltOnce`, `ClosedIsForgotten`; of the key
  set, `KeysOutliveTokens`, `RotationIsPickedUp`.
- `identity`: `RevocationBites` (no cached key or role outlives its end by more than the
  minute), `LimitsHold`, `AlwaysAnAdmin`.
- `rag_service`: `CacheIsCurrent` (no part of an answer is cached, and what was cached before a
  change is gone when it answers), `AcknowledgedIsFound` (every character of an acknowledged document is in a chunk
  that names its page), `IdentityStaysHome`.
- `chat_client`: `NothingWiped` (what is on the screen of an arriving answer, what waits for a
  frame and what is on the wire are together what the server has said), `AnswerStays`, `TurnsEnd`.
- `chat_list`: `ListConverges`, `LinksEndForGood` (a link that was revoked or replaced while no
  other request to share had read it, or whose chat was deleted, never resolves again),
  `PromptsSentOnce`. What a request to share brings back that did read it is `chat_link_revived`.
- `web_page`: `PaletteHonest` (what Enter runs matches what is in the box, and a command that is
  named goes before a chat that mentions it), `SignInReturns` (whoever the middleware sent to the
  form comes to the page asked for), `BlocksStandAlone` (at every moment of a stream the blocks
  render as the whole answer would, and highlighted code is complete).

`chat` and `service_plugins` list no type invariant: theirs is proved (see *Proofs*), for
every instance.

**Bounds, and why they are enough.** *Ingestion*: a second worker is needed to take a job
over, a second document to make the order of claims and the reclaiming of several jobs
matter, two attempts so that a first and a last one exist; the clock is bounded by uploads
and backoffs without a bound of its own. *Chat*: three requests make two turns and a third
that edits, regenerates or overlaps either; the rows are bounded by the requests; a window
of two makes prompts drop messages. *Tokens*: periods are scaled to a few ticks with the
code's order kept (rotation 3, publication 6, cache 2, token life 1); six ticks pass two
rotations and a withdrawal, three keys allow one key too many. `Slow` and `FetchTimeout`
bound a request and a fetch in ticks; the clock waits for them. `Foreign` is
empty in the run, to keep it small; the theorems hold for any. *Workspaces*: two requests
race, a third and later ones reuse their slots; three keys exceed a limit of one by the one
that may be and by one that may not; `MaxLost` is the number of events that may be lost.
*Model access*: chats share nothing but the trail, so one chat and one job show what each
may do; the models are one local, one Ollama cloud tag, one of a cloud provider; two of three
chunks have room. *Registry*: three instances are one more than plugins. *Identity*: two
accounts can demote each other; `Owners` limits key makers to the account that is not first;
a cache of one entry is full at once. *rag-service*: two operations overlap with each other
and with a question; one document has a page break inside a window and an empty page, the
other no text. *Browser*: a stopped turn and the next one are two; three requests are a change,
its rollback and one of another tab. *Page*: one command is named like a needle, one has it as
a keyword, one chat is titled like it and one mentions it; a second tab is needed to end or
begin the session behind the first one's back; five lines hold a fence with a blank line in it
and a line before and after. Symmetry is used for interchangeable requests and
keys, never with a liveness property.

**Deadlock** is checked except for `chat`, where all requests may be over, and for
`identity`, `rag_service`, `chat_client` and `chat_list`, where bounds on time, collections,
turns or requests end every behaviour; so they do in `chat_link_revived`.

**Fairness.** `ingest`: one worker is restarted after crashes and its parser and HTTP calls
end (`GatewayEmbedder` has a timeout), leases age and backoffs pass. Reclaiming and claiming are
strongly fair, since a crash can disable them again and again; that worker is not killed for
ever at the same statement. Of the other workers nothing is assumed. `model_access`: the
services take their steps, and httpx keeps the timeout of `GatewayModelClient`; nothing is
assumed of the model, which may fall silent, nor of the client. `chat_client`: the
browser's loop over the stream runs, and a turn the server has begun ends, because the
provider's request carries `AbortSignal.timeout`; nothing is assumed of the user or
of the network. The other runs check safety only.

### What the violations show

1. `chat_answer_lost`: a stopped stream is finalized between the read and the transaction of
   a regeneration; its text is overwritten and was not archived.
2. `chat_link_revived`: a chat is shared; a second share reads its link, an unshare in another tab
   revokes that link, and the share writes it back. "Revoking and re-sharing deliberately produces
   a new slug so old links stop resolving" (`chat-service.ts:145-146`) holds of requests that
   follow each other, but the link is decided from a row that is read before the update
   (`chat-service.ts:135-155`). `LinksEndForGood` is what is left of the promise, and is proved.

### Observations

What the models make visible beside the runs; the statements are about the code, and no
run depends on them.

- `worker_id` defaults to the hostname and the fences compare nothing else. Two workers on one
  host, with no `WORKER_ID`: one stalls, the other claims its job after the lease
  expired, and the late write passes the fence. `UniqueIds` is therefore an assumption of
  the proofs (`FenceExact`).
- A 400 or 422 of the model gateway has the error code of an unreadable file, so a readable
  document may fail on its first attempt.
- After a question was deleted on its own, a regenerated answer follows another answer.
- `KeySet` counts the refetch interval from the last refresh that succeeded: requests that
  arrive during one, or after a failed one, each start another.
- A role change reaches a service that has cached the key after up to a minute, as
  `RevocationBites` bounds it; the comment at `admin-service.ts:57-58` says that "API keys
  follow at once".
- A failure of Redis in the middle of a clear is reported as success with a smaller number, and
  the upload's notice says "cached answers cleared" also when the clear failed
  (`use-admin.ts:95-97`). `CacheIsCurrent` therefore excepts operations in which Redis failed.
- An answer in generation while the cache is cleared is stored after it, until it expires.
  `CacheIsCurrent` speaks only of answers that were there.
- The web app gives up on clearing the index after three seconds (`admin-service.ts:372`), while
  rag-service goes on; no clearing of the cache follows the one that comes late.
- A question whose search comes after a drop makes the collection anew, empty.
- What a request gets from the registry between the snapshot of `aclose` and its last close
  may be an instance built since, which that `aclose` does not close; `configure` and
  `disable` drop theirs unclosed. `ClosedIsForgotten` and `BuiltOnce` are about what is handed out.
- Two tabs that share a chat at once each make a link. The later one replaces the earlier, which
  stops resolving without having been revoked.
- An answer that breaks off on the OpenAI endpoint ends with finish reason `stop` and the
  error as text (`openai_api.py:147`); it never reaches the cache.
- The prompt of a chat whose creation failed stays in `sessionStorage` and is sent by the next
  empty chat that is opened; `PromptsSentOnce` holds nevertheless.
- An edit that is submitted while a turn is in flight is dropped without notice (`runTurn`).
- "The server owns the list" (`use-chat-stream.ts:82`), but a turn that is refused, or stopped
  before its `meta` event, changed no row; the refetch brings equal data, which keeps its
  identity, the effect at line 85 does not run, and the optimistic messages stay. The `meta`
  event of the next turn gives every temporary id its own rows, so that two messages share one.
- "Blocks only ever append" (`markdown.tsx:133`): after a paragraph and a blank line, a lone `-`
  starts a block and `- x` continues the one before, so two blocks become one while the answer
  grows. What is shown stays right; the block is rendered anew.
- The splitter knows nothing of a fence inside a list item, and cuts at a blank line within it;
  `BlocksStandAlone` excepts such answers (`NestedFence`).
- While an older version is on screen, a regeneration shows that version until the refetch.
- A visitor who is signed in by the time the login form is requested, in another tab for
  instance, is sent home and the page asked for is forgotten (`middleware.ts:27`); so it is by the
  registration form and by the layout's own redirect.
- A palette search that failed reads "No chats or commands match", and a late answer re-sorts
  the items under a highlight that stays at its index. Grouping by section places commands found
  by a keyword before chats titled like the needle when another command comes first.
- A chat renamed elsewhere keeps its old title as the draft of the next rename
  (`chat-list-item.tsx`).

## Proofs

| module | theorems | properties |
| --- | --- | --- |
| `DocumentsProofs` | `TypeCorrect`, `FenceExact`, `TablesAgree`, `AttemptsAreBounded`, `FailuresAreEarned`, `LostLeaseIsHarmless`, `QueueImplementsLifecycle` | all safety properties of `ingest`, and the refinement |
| | `CacheStaysCurrent`, `AcknowledgedStaysFound`, `IdentityNeverLeaves`, `EveryCharacterFound` | all properties of `rag_service` |
| `AnswerProofs` | `TypeCorrect`, `OrderIsTotal`, `NothingIsUnarchived`, `NothingReturns`, `TurnsComeLast` | all properties of `chat` |
| | `NothingEverLeaves`, `ContactsAreAudited`, `RecordsStayWhole`, `SourcesStayTheBest` | all safety properties of `model_access` |
| `PluginProofs` | `TypeCorrect`, `TokensStayVerifiable`, `RotationReachesTheService` | the properties of the key set in `service_plugins` |
| | `InstancesAreCurrent`, `ClosedOnce`, `BuiltAtMostOnce` | the properties of the registry in `service_plugins` |
| `WorkspaceAccessProofs` | `EffectsAreEntitled`, `KeysStayNearLimit`, `ChangesAreAccountedFor` | all properties of `workspace_access` |
| `IdentityProofs` | `RevocationBitesSoon`, `LimitsHoldAlways`, `AdminRemains` | all properties of `identity` |
| `ChatStreamHookProofs` | `AnswerIsNotWiped`, `FinishedAnswerStays` | the safety properties of `chat_client` |
| `BrowserProofs` | `ListSettles`, `LinksEnd`, `PromptsAreSentOnce` | all properties of `chat_list` |
| | `PaletteIsHonest`, `SignInReturnsToThePage`, `AnswerBlocksStandAlone` | all properties of `web_page` |

Every safety property of a passing run is a theorem. The theorems named `…Invariant` state the
inductive invariants that the others rest on. TLC checked the parts of each on its component's
instance before it was proved.

A module with proofs extends several components, so their specifications have different names:
`Spec` in `IngestQueue`, `ModelAccess`, `TokenVerification`, `ChatList`, `WorkspaceAccess`,
`Identity` and `ChatStreamHook`; `RagSpec`, `TurnsSpec`, `RegistrySpec`, `SignInSpec`, `PaletteSpec` and `AnswerSpec` in
the others.

**Assumptions.** `IngestAssumption`, `ChatAssumption`, `SigningAssumption` and
`VerificationAssumption` state the types of the constants and, for the keys, the two
inequalities between periods the code relies on: publication outlasts rotation plus token
life and leeway plus the cache time, or plus the time a request takes. They hold in
the code with most of a day to spare. `FenceExact` and what follows from it also assume `UniqueIds`, a
property of the deployment that is needed (see *Observations*). `NamesAssumption`
(`WorkspaceAccess`) and the `InstanceAssumption` of `Identity` and of `PluginRegistry` say that
requests, keys, users and plugins are finitely many, that limits are positive, as the settings
have them, and that the value for "nothing" is none of the values it stands beside. So do
`HookAssumption` (no message's id is "nothing"), `ListAssumption` (no link is), and
`SignInAssumption` (nor is a page; a foreign address is no page of the app). `BoundAssumption`
says that a chat is no embedding job and that the limits of a retrieval are numbers,
`PaletteAssumption` that commands and chats are lists. The `InstanceAssumption` of `RagService` is
that of `chunker_fixed`: the overlap of two windows is less than a window.

**Ingestion.** `FenceIsExact` is inductive with the types: a running row was locked by
the claim that counted its attempt, and an id belongs to one worker, which has one job at a
time. With it each outcome writes the row it is about, and `RowsOK` (status, chunks, attempts
and error of a document, by the state of its job) is inductive without looking at workers.
Agreement, bounds and reasons of failure follow, and each step maps to a step of
`DocumentLifecycle` or to a stutter.

**Chat.** The positions of a finite table have a greatest one; with that, `Fresh` (what a
request read still bounds all positions while it prepares alone) makes `UniquePositions`
inductive. `TextInv` adds that an id not yet used is in no table, that a turn's answer row is
an assistant row, and, when turns run alone, that it is empty until its own
stream ends: then what a transaction archives is the text the row has. A question that was just
written has the greatest position up to its own, and positions that differ are finitely many up to
any of them: the prompt is not empty, and it is its last one.

**Tokens.** `RowsInv` says that a row is deleted only when it is no longer published,
`CacheInv` and `CallInv` that a cached or found key is at most so old, `TokenInv` that a token
then expires before its key is withdrawn. `AnswerInv` says that an answer lacks only
keys that are withdrawn or newer than its fetch, hence `KeysInv`: a published key the service
does not know is at most one fetch older than the last refresh, whichever answer came last.

**Workspaces.** `Known` and `Acting` bound what a request has read by what its key and its role
have been worth since it began, which only grows: what it does at its end is then covered,
although nothing is checked again. For the trail, `Accounted` says of every change that the
events written, lost or about to be written which tell of it are one or none, as sets with
one element or none, so that the cardinalities of `ChangesAccountedFor` follow at the end.
`NearLimit` counts the keys of a workspace together with the requests about to insert one: one
that counts finds fewer keys than the limit, and about to insert are at most all requests.

**Model access.** `Admitted` and `Contacted` follow a call: who is past `admit_chat` or
`AdmitEmbed` has the event that tells the truth about it, and in a sovereign deployment a route
that stays; `Pairing` that the two halves of a chat are in states that fit. `Flow` splits what
the model said into what core-api heard and what is on the wire, with the end at its end;
then what is recorded is all of it. `Relay` would record a body that ends cleanly with neither `done`
nor an error, as `chat.py:115` does; the gateway's always ends with one of them (`End`).

**Retrieval.** A rank is at most the length of the longer list, hence the common denominator is a
multiple of each, and a chunk that both lists place higher has the larger score (`BetterShare`).
`Precedence`, by score and then by the place where a chunk was first seen, is a strict total order,
and `Ordered` counts for each chunk those before it: a bijection onto the places, of which `Fuse`
keeps a beginning.

**Registry.** `Current` is `KeptIsCurrent` with the instances bounded by those made. `Closes` says
that each thread in `aclose` holds a list of instances without repetition, none of them kept,
none closed, none on the list of another thread: closing the first of them keeps all of this.

**rag-service.** `AsksInv` says how far a question carries key and context, and that what it is about to
store is whole; `OpsInv` that the answers an operation still has to forget are among those its scan
has yet to delete, so that at its end none are left. `EveryCharacterFound` takes the text of the
pages apart: the windows start a step apart, which is at most their size, so that each character is
in one; a chunk's page is the last that starts at or before its first character.

**Chat in the browser.** `HookInv` follows the last turn: its answer on the screen, the text that waits for a
frame and the pieces on the wire add up to what the server has said. Texts of one turn are told
apart by their length, which makes the sum enough. The rows hold a finished answer before its end
is on the wire, and a refetch that was under way is asked again when the hook settles: what lands
later holds it too. An answer that still arrives shows no error (`Unfailed`), which matters at
its end, since `done` sets the text and leaves an error where it is.
The invariant is stated over the parts of a state (`TurnRight`, `AnswerRight`), so
that one lemma serves each kind of step.

**Accounts and keys.** `Sound` says what a request may rely on between its steps: what it read of a
key or a role held at some time since it began (`Onward`: time, the end of a key and a change of
a role go one way). An entry that is remembered counts from that beginning; hence the minute.
The entries a full cache keeps are described by their places, of which the prover needs to know
that they are the places kept, in order, and no more of them. For the limit of keys, keys and
requests about to insert one are counted together, as in `WorkspaceAccess`. The last
administrator stays since a transaction whose read is spoiled does not commit.

**Sidebar.** `Follows` is what makes `ListConverges` inductive: unless the tab cannot know, or a
request of its own will fetch the list again when it is over (`Pends`), what it shows without a
refetch under way, or what the refetch has read, is the rows. A step keeps it in one of four ways
(`StillFollows`): the tab cannot know of it, something is still to come, the refetch has yet to
read, or nothing of the three changed. It needs `Shelved`, that a chat is in a folder that exists:
otherwise deleting a folder that is gone would still change a chat. `LinkInv` ties a link to one
chat, in the rows and in the requests that read it: a link that left its chat is then on no other,
and can come back only with a request to share that read it, which has it in hand; such a request
holds no link that is `gone`, unless its chat is, and then it writes nothing. `MadeInv` adds that no
other request is about a chat that is to be made: one that was deleted does not come back.

**Page.** `TabsInv`: a tab whose visitor asked for a page is on, or is going to, an address that leads
there, by itself or by its callback, and a form is at work only in a tab that is going nowhere.
`PaletteInv` needs of the steps only that they show what the box admits: filtering keeps what is
found, a command named like the needle is ranked first, grouping by section keeps the first item.
`BlocksStandAlone` holds of any list of lines: `Joint`, by induction over them, says that after
each line the blocks and the one that is begun show what a reader of the whole has read, and agree
with him on the fence that is open.

**Induction over data.** The library's induction theorems take an operator as a parameter and
cannot be instantiated. `NatSets` replaces them by a statement about a set of numbers, which follows from the
least element of its complement (`NatLessThanWellFounded`, `WFMin`). `Iterates` and `Computed` then
say of a recursive function of the form f[0] = b, f[i] = F[i][f[i - 1]] that it exists and is
what its definition says, which its `CHOOSE` alone does not. Every recursive function of a model is one of these, on the
positions of a list.

**Only model-checked.** `EveryUploadSettles`, `EveryChatEnds` and `TurnsEnd` are liveness under
fairness, which the prover cannot treat (`ENABLED`). The definitions of mutants and the violated
properties are not proved about. No theorem depends on any of them.

## Not modelled, and why

- *No protocol state*: what a block renders to, themes, shortcuts, logging, wording, settings,
  migrations (read for defaults), deployment files, the health and statistics pages.
- *Libraries*: sessions and passwords, OIDC discovery, encryption of private keys, and what
  Ollama, LiteLLM, Chroma and the pdf parser compute. The models take from each adapter that a
  call ends with a result or an error, and the state it holds between calls (a
  collection's handle, a provider's key).
- *The legacy service token* accepted by the auth plugin: a constant comparison.
- *Version positions* within a message, the order of the list, searches, titles, pins, colours
  and the archive flag: data that no property tells apart.
- *Two chats at once in one hook*: leaving a chat unmounts the hook, which is its stop.
- *The SSE frame parser*: character by character work on a byte stream; the models take events
  as whole and in order.

## Plan

Done, in this order: ingestion with its refinement, chat turns, signing keys and tokens; then
workspaces, model access, registry, accounts and keys, rag-service, the browser's hook and list; the
page; and the proofs, the last of them on rag-service, the hook, the page, the fusion of results and
the end of a chat. What is left, most important first:

1. An abstract specification of the exchange cache (a key is honoured until a minute after its
   revocation) that `Identity` implements, and one of the chat's history that `ChatTurns` implements
   when turns run alone.
2. `ChatTurns` and `ChatStreamHook` joined into one system, with several tabs of the hook over the
   server's races. Each is checked with the other reduced to what it can see of it.
3. The admin dashboard's panels, whose forms keep drafts of what others may have changed.
