# Atlas payload provider: TLA+ models, model checking and proofs

The provider takes payloads over HTTP, stores each under the hash of its
namespace and bytes, and answers with a receipt that it signs if it has a key.
This directory holds TLA+ modules translated from its source, TLC
configurations that check them on small instances, and TLAPS proofs that hold
for every number of requests, namespaces, bodies, keys and restarts.

Paths are relative to the repository (`src/store.rs` is the provider's
`store.rs`). Run `tlc -config X.cfg M.tla` and `tlapm M.tla` in this directory.

## 1. The system

### Components

| component | state it keeps | operations | interacts with |
|---|---|---|---|
| payload store, `src/store.rs` | index in memory (`payloads`, `newest_first`, `total_bytes`) behind one `std::sync::Mutex`; one `{id}.json` per payload in `PAYLOAD_DIR`, `.{id}.tmp` while one is written | `load`, `submit` (with `persist_record`), `get`, `payload_bytes`, `snapshot` | signer; handlers call it from many threads; the file system; earlier processes, through the directory |
| records and receipts, `src/model.rs` | none | `metadata_for`, `receipt_for_record(_with_context)`, `legacy_hosting_receipt_for_record`, canonical JSON, summaries | store, signer |
| signer, `src/signer.rs` | the key of this process | `sign_record`, `sign_receipt`, `validate_payload_signature`, `signature_is_current_payload_receipt` | store |
| HTTP handlers, `src/server.rs` | none beyond the shared store and the bearer key | `GET /`, `/status`, `/payloads`, `/payloads/{id}`, `.../signature`, `.../raw`, `/healthz`; `POST /payloads`, `/arkiv/payloads` | store, validation, ARKIV adapter |
| validation, `src/validation.rs` | none | `validate_submission`, `validate_record_shape` | handlers, store (`load`) |
| ARKIV adapter, `src/arkiv.rs` | none | canonicalises an ARKIV envelope into a submission | handlers |
| start and configuration, `src/main.rs`, `src/config.rs` | none | read the environment, `load`, run the server, or exit | store, signer; the container runtime restarts it |
| status page, `src/index.html` | the page and a form in local storage | poll `/status`, submit a payload | handlers |
| JavaScript client, `clients/js` | none | submit, fetch, predict an id, verify a receipt | handlers, over HTTP |
| packaging, `Dockerfile`, `docker-compose.yml`, `scripts/` | none | build; `restart: unless-stopped` | the process |

### How they interact, and what is hard

A submission is one async handler without an `await`: it validates, makes and
signs a record, takes the mutex, looks the id up, and either answers with the
known metadata, or rewrites the file of a known payload that lacks a current
receipt, or writes a new file; then it updates the index, releases the mutex
and answers. `GET .../raw` reads the metadata under the mutex, then a blocking
thread looks the id up again and reads the file *without* the mutex. All other
GETs read the index once under the mutex. The index is only a cache of the
directory, rebuilt by `load` at each start, possibly with another key, no key,
or another `MAX_PAYLOAD_BYTES`.

The behaviours that tests of this code hardly reach:

- **Races.** The record is made, dated and signed *before* the lock; the
  decision "new or known" and the write come after it. Raw reads are not
  excluded from a rewrite of the same file.
- **Crashes.** The process may be killed between creating, filling and renaming
  the temporary file, between the rename and the index update, and before the
  answer; the client then sends the submission again.
- **Partial failure.** Each file operation may fail while the lock is held; the
  panic on an overflowing byte count comes after the record was persisted and
  poisons the mutex.
- **Sequences of processes.** Keys and limits change between processes; files
  of earlier versions hold receipts of a former form (`hostPayload`).
- **Two readings of one thing.** `validate_submission` decides what is stored
  and `validate_record_shape` what is loaded; two routes normalise one payload;
  the client recomputes ids and receipts from what it sent and what it fetches.
- **Several processes.** A process reads the directory before it binds its
  port and never again; one that is started beside another may serve later. One
  that finds its port taken, or a record over its limit, ends, and what comes of
  that is up to the restart policy.
- **Liveness.** One mutex, not fair, held over I/O on the runtime's few worker
  threads; a raw read needs a second thread, and the mutex again.
- **Power.** Nothing is synced; a rename may reach the medium before the data.
- **The page.** It asks again before the last answer has come.

PROJECT.json lists these hazards one by one, each at its line.

### What makes each component correct

- Store: index and directory agree; an acknowledged payload stays, unchanged
  but for a receipt that is added; created is said once; the inventory of
  `/status` is exact; the directory always loads again; every request ends.
- Receipts and signer: a receipt that was returned or stored is about the
  payload as it is stored; a current one is never replaced; a process with a
  key never answers without one.
- Handlers: a raw response is the addressed bytes under the stored content
  type; nobody waits for a mutex whose holder waits for a thread.
- Validation: what is accepted can be loaded again and normalises to one id.
- ARKIV: one JSON document has one form, and so one id, however it is written;
  a list of attributes has one form.
- Start: a usable configuration or no server; who serves knows the directory;
  whoever can run serves in the end, or another process has its port.
- Status page: the list is in the order of submissions; a page shows its own
  submission, and recovers from lost and overtaken answers.
- Client: a predicted id is the id the provider computes; a receipt the
  provider gives verifies.

## 2. Modules

| module | what it is |
|---|---|
| `Receipts` | records, receipts, signatures: pure operators of `model.rs`, `signer.rs` and the record helpers of `store.rs` |
| `PayloadStore` | the store and the tasks that call it, step by step, with crashes and restarts; the properties; the mutated operators beside the ones they mutate |
| `PayloadService` | what the service promises, with neither memory nor locks nor crashes: one map from ids to metadata, and the answers |
| `PayloadStoreInvariant` | the inductive invariant |
| `PayloadStoreProofs` | the theorems and their proofs |
| `Inventory`, `InventoryProofs` | what the service promises of the order of its list, across submissions and loads, and the proof that the order is that of the submissions |
| `ListedStore`, `MCListedStore` | `PayloadStore` under a clock that does not step back, with the history it takes to say that it implements `Inventory`; the instance of two payloads |
| `StoreRefinementProofs` | the proofs that the store implements `PayloadService` and `Inventory` |
| `MCPayloadStore` | constants for TLC; `MCPayloadStoreSame.cfg`, `MCPayloadStoreOverflow.cfg` |
| `MCPayloadStoreClaims` | a sentence of the documents that the code does not keep (`MCClaimPost.cfg`) |
| `Validation` | the validators of `validation.rs` and the preparation of an ARKIV envelope in `arkiv.rs`: pure operators over texts |
| `Ingress` | the two POST handlers from the request to the answer, over several runs of the process |
| `IngressProofs` | its inductive invariant, theorems and proofs, among them that it implements `PayloadService`, and the one about the receipts a client holds |
| `CanonicalJson` | the JSON parser's maps and `canonical_json_to_bytes`: functions on small trees |
| `MCIngress` | a handful of texts, requests, documents and limits for TLC; the documents' canonical forms come from two instances of `CanonicalJson`, one per map `serde_json` can be built with |
| `Client` | the JavaScript client against `Ingress` |
| `MCClient` | both together (`MCIngress.cfg`), and three sentences that the code does not keep (`MCClaimVerify.cfg`, `MCClaimPredict.cfg`, `MCClaimLimit.cfg`) |
| `DurableMap` | what `PAYLOAD_DIR` promises where the power may fail: the directory as it is, and as it was at one earlier moment |
| `PowerLoss`, `PowerLossProofs`, `MCPowerLoss` | the files of the store in the page cache and on the medium, with power failures; the proof that they implement `DurableMap` |
| `Workers`, `WorkersProofs`, `MCWorkers` | the runtime's worker threads, its blocking pool and the mutex, under requests of every kind |
| `Startup`, `StartupProofs`, `MCStartup` | arguments, environment, `load`, `bind` and the restart policy, for processes that share a directory and the ports of a machine |
| `StatusPage`, `StatusPageProofs`, `MCStatusPage` | the status page in front of `Inventory`, and proofs about it |

`PayloadStore` extends `Receipts`, and instantiates `PayloadService` with
`stored <- metadata of the files`. `Ingress` extends `Validation`, which extends
`Receipts`; `Client` extends `Ingress`. `PayloadStore` splits a submission into
its steps and takes it as validated; `Ingress` splits validation into its cases
and takes the store in one step. Both are proved to keep the promise of
`PayloadService`, which is what allows the one to stand for the other.

The other modules look at what `PayloadStore` takes for granted. `PowerLoss`
replaces its disk, which loses nothing, by one with a cache; it has one writer
at a time, as `LockIsHeldByWriter` shows, and no index, as `CacheCoherent`
shows. `Workers` replaces its scheduler, which runs whatever can run, by
threads that are taken and given back; what the handlers do to the store is
abstracted to who holds the mutex. `Startup` replaces its one process by
several, and `Inventory` its clock by one that goes on while tasks wait.

Three of the modules are promises, each with the model that is proved to keep
it: `PayloadService` (kept by `PayloadStore`, and by `Ingress`), `Inventory`
(kept by `PayloadStore` with the history of `ListedStore`) and `DurableMap`
(kept by `PowerLoss`). `StatusPage` stands on `Inventory`: what it shows of the
page holds of the page in front of the whole store.

### State and actions against the code

| TLA+ | code |
|---|---|
| `files`, `temps` | `{id}.json` and `.{id}.tmp` in `PAYLOAD_DIR`; `Torn` is a file that was created and not completely written |
| `payloads`, `newest_first`, `total_bytes` | `Inner` |
| `lock`, `poisoned` | `PayloadStore.inner`, a `Mutex` |
| `status`, `max_payload_bytes`, `signer` | the process and the configuration it was started with |
| `pc`, `record`, `context`, `created` | where a task is, and its local variables |
| `reply`, `served` | the answers that were given; history, read by no step |
| `Start`, `StartFails` | `main` up to and including `load`: one step, since nothing runs beside it; the directory order of `read_dir` is any |
| `Prepare`, `Reject` | `submit_payload` up to `inner.lock()`; the size limit of `validate_submission` |
| `AnswerKnown` | lock, known id, nothing to write, answer |
| `BeginUpgrade`, `BeginNew` | lock, and the two ways into `persist_record` |
| `OpenTemp`, `FillTemp`, `Rename` | `std::fs::write` in its two visible parts, `std::fs::rename` |
| `PersistFails` | the error of either, at each of the three points, with or without the removal of the temporary file |
| `CommitUpgrade`, `CommitNew` | the index update, the release of the lock and the answer |
| `CommitOverflows`, `LockPanics` | the `expect` of `checked_add` under the lock; the `expect` of `lock()` in every later task |
| `RawLookup`, `RawRecheck`, `RawRead` | `get` in the handler; `get` and the file read in the blocking thread |
| `Crash` | a kill: memory and tasks are gone, files stay |
| `max_payload_bytes`, `ingress_key`, `signer` (`Ingress`) | `MAX_PAYLOAD_BYTES`, `INGRESS_BEARER_KEY`, `SIGNER_PRIVATE_KEY` of the running process |
| `answers`, `accepted_limit` | every answer with its request, and the largest limit a process ran with; history, read by no step |
| `Start`, `Stop` (`Ingress`) | `main` and `load`, with any settings; the end of a process |
| `RefuseBody` | axum's `Json` extractor, which runs before any handler code |
| `RefuseBearer` | `authorize_ingress` |
| `RefuseSubmission` | the error of `validate_submission` or `prepare_submission` |
| `Accept` | `PayloadStore::submit` and `publish_submission` or `publish_arkiv_submission` |
| `submit_body`, `verifySignature`, `predictPayloadId`, `fetched` (`Client`) | the methods and functions of `clients/js/src` |
| `data`, `files`, `temps` against `medium`, `entries`, `temp_entries` (`PowerLoss`) | contents and names under `PAYLOAD_DIR`: in the cache, and on the medium |
| `ordered`, `data_first` | files whose data a journal writes before it commits their name, and for which renames the file system does so |
| `WriteBack`, `Commit`, `PowerFails` | the operating system and the machine |
| `worker`, `blocking`, `phase`, `mutex` (`Workers`) | the request on each tokio worker (`WEB_WORKERS`) and on each thread of the blocking pool, how far each handler is, and who holds the store's mutex |
| `Lock`, `Write`, `WriteEnds`, `Publish` | `inner.lock()`, `persist_record` under it, and `println!` after it |
| `WriteFails`, `WriteOverflows` | its error, answered without a `println!`; the `expect` of `checked_add` |
| `RawFound`, `PoolPicksUp`, `Relock`, `Reread`, `ReadEnds` | `get_payload_raw` and the closure it gives to `spawn_blocking` |
| `deployed`, `Start`, `Stop` (`Startup`) | what the operator started each process with, and whether it is to run |
| `Refuse`, `Launch`, `Load`, `LoadFails`, `Bind` | `startup_action` and `create_config`, `PayloadStore::load` and the panic of `main` over its error, `TcpListener::bind` on the port of this process |
| `restarts`, `exit`, `Crash` | `restart: unless-stopped`; the exit code, which that policy does not look at; a kill |
| `stale`, `created`, `widest` | the directory changed since this process read it; the 201s given; the largest limit so far; history, read by no step |
| `Date`, `Commit`, `Drop`, `Restart` (`Inventory`) | `submit` before the lock, under it for a new payload, and for a known one or with an error; `load`, which may find one record that was renamed and not listed |
| `begun`, `origin`, `listed` (`ListedStore`) | the submission each request makes, the one that created each file, and the last list; history, read by no step |
| `shown`, `durable` (`DurableMap`) | what a process finds in `PAYLOAD_DIR`, and what it would find after a power failure |
| `Store`, `Attach`, `Checkpoint`, `Follow` (`DurableMap`) | the rename of a new record and of one that gets its receipt; a commit of the directory; content written after its name |
| `Timer`, `Answer`, `Show`, `ShowFailure`, `Submit` ... (`StatusPage`) | `setInterval`, `status_handler`, `refresh` and its two endings, `submitPayload` |

A step of `PayloadStore` is what a task does between two points at which another task or a kill
could tell the difference. While the lock is held nobody else sees the index,
so the update, the release and the answer are one step; the file operations
before it are separate steps because raw readers and a kill do see them.

### Abstractions

- Cryptography is symbolic: an id is the pair (namespace, bytes) it is hashed
  from; a signature is the pair (address, receipt). The digest, r/s/v and
  recovery checks compare functions of that pair.
- In `PayloadStore`, namespaces, content types, contexts and bodies are values
  that passed validation; of validation only the size limit is in that model.
- In `Validation` a text is an abstract value with what the code asks of it: how
  it is trimmed and lower-cased, its length, the kinds of bytes in it, what it
  decodes to. `ValidatedAssumption` says, without the code, which texts are
  validated namespaces and content types; the validators are compared with it.
  The reasons to refuse a request are one value, `Failure`.
- `Ingress` accepts and stores in one step and has no failing write: those are
  the subject of `PayloadStore`. Canonical JSON is a given function from
  documents to bytes, for which TLC takes what `CanonicalJson` computes.
  `expiresIn` is only copied and is left out.
- A receipt context (nonce, payment) is one value or absent.
- The byte total of a set of files (`stored_bytes`) is the number of its byte
  positions, pairs of an id and a position in its body, and so needs no
  recursive sum.
- Each member of `Requests` is one request served once; a client that repeats a
  submission is another request with the same payload, so retries and
  duplicated or lost answers need no action of their own.
- Signing itself does not fail (the only error of a valid key is a degenerate
  signature). Reads of the index that change nothing, and 404s, have no action.
- In `PayloadStore` a kill loses nothing the process wrote, since the operating
  system still has it; `PowerLoss` is about the case where it has not.
- `PowerLoss` writes the directory as a whole, as a journal does, and files in
  any order. File systems without a journal are not covered.
- `Workers` lets each request come once, and the panic of a request end that
  request only. With the standard error closed too, the panic message itself
  would panic and abort the process: a kill, as in `PayloadStore`.
- `Startup` makes a submission one step. The operator gives a process any
  arguments and environment each time, and may stop it at any moment; the
  restart policy gives it the ones it has. `LISTEN_HOST` and a port held by
  another program are left out. A failed read of the directory and a kill are
  incidents, of which there are finitely many; a record over the limit is none,
  it is refused each time.
- `StatusPage` has no HTML; a payload of another sender may be submitted and
  listed at any time. An answer to the timer that is older than what the table
  shows may come in after it and be shown until the next one: the page does not
  number its requests, and no property excludes that.
- `CanonicalJson` takes a number as the text `serde_json` prints it with, so
  that `1` and `1.0` are different documents by definition, as they are for the
  code; what is checked is the order and the repetition of members.

## 3. What TLC checks

| run | question | properties |
|---|---|---|
| `same_payload` | Three requests about one payload, submissions and raw reads, over a directory that starts empty or with an unsigned, former-form or current record, under two keys or none, with one kill: do disk, memory and answers agree? | `CacheCoherent`, `AcknowledgedIsStored`, `ReceiptsAreAboutTheStore`, `RawServesStoredBytes`, `SignatureNeverLost`, `CreatedIsFirstAnswer`, `SigningServerSigns`, `AnswersStayReadable`, `ImplementsService` |
| `two_payloads` | Two payloads of sizes 1 and 2 under limits 1 and 2, three requests over two seconds, failing writes, one kill: is the inventory exact, its list in the order of submissions and that of `Inventory`, and does the directory load? | `InventoryExact`, `StaysLoadable`, `LatestFirst`, `ListsAsInventory` |
| `overflow` | The two sizes overflow `usize`, and one is over the lower of two limits: what happens after the panic under the lock? | `TypeOK`, `OverflowEndsService`, `PoisonIsFinal`, `EveryRequestEnds` |
| `ingress` | Both routes, fourteen submissions (four of them the JavaScript client's own) and seven envelopes with four JSON documents, with and without a bearer key, two signing keys or none, limits 2 and 6 and body sizes 1, 3 and 6, one run of the process after another with other settings: does what is accepted load again, under one id per payload and per document, with a receipt that tells nonces apart and verifies later? | `IngressTypeOK`, `AcceptedIsLoadable`, `OnePayloadOneId`, `ReceiptsTellNoncesApart`, `AttributesAreCanonical`, `AnswersAgree`, `StoredTypeIsServed`, `ReceiptsVerify`, `OneFormPerDocument` |
| `power_loss` | Two payloads: submissions, upgrades, kills and power failures, on a file system that orders every rename after its data and on one that orders only those that replace a file: what is left, of both together, and does what was acknowledged get to the medium? | `PowerTypeOK`, `SurvivorsLoad`, `MediumKeepsRecords`, `IsCheckpointed`, `AcknowledgedReachesMedium` |
| `workers` | Three requests of any kind on two workers and one thread of the pool, with reads and writes that hang, a closed standard output and an overflow: who waits for whom? | `WorkersTypeOK`, `OnlyOverflowPoisons`, `RequestsEnd` |
| `startup` | Two processes, good and bad environments and arguments, one directory, one port or two, an operator who starts and stops them, two kills or failed reads: who serves, what does it know, and does anybody serve in the end? | `StartupTypeOK`, `ServingKnows`, `OnlyStaleRedates`, `EventuallyServes` |
| `status_page` | Two payloads over two seconds and a restart, one submission under way at a time; a page of one row that submits one of them, with up to three refreshes under way that come late, out of order or not at all: does the page show what it submitted, and does it keep up? | `SubmissionIsShown`, `PageRecovers` |
| `claim_verify` | Does every returned receipt verify (clients/js/README.md:35)? | `ReturnedReceiptsVerify` (violated) |
| `claim_predict` | Is the predicted id the assigned one (clients/js/src/client.ts:160)? | `PredictedIdIsAssigned` (violated) |
| `claim_limit` | Is `MAX_PAYLOAD_BYTES` the maximum decoded size (README.md:31)? | `LimitIsDecodedSize` (violated) |
| `claim_post_signature` | Does `POST /payloads` return any receipt signature (README.md:105)? | `PostReturnsAnySignature` (violated) |

The comment above each property says what it means and
which code it is about. Every property has a mutant in PROJECT.json, a
plausible bug in a mapped definition that makes TLC find it violated.

`ImplementsService` is the refinement: with the files as the map `stored`,
every step of the store is a `Store`, `Attach`, `Answer` or `Serve` step of
`PayloadService` or changes nothing a user sees. So a crash between any two
steps, and any interleaving, is invisible except as a request without an answer.
The run shows it for one payload, `StoreImplementsService` for any number.

`ListsAsInventory` is the second refinement of the store. The commit of a new
record is `Commit`, its preparation `Date`, every other end of a submission
`Drop`, and a start is `Restart`. Between a rename and the commit the payload is
on disk and not listed; a kill at that moment makes the next `load` the step
that lists it, under the date of a request that was never answered. `Inventory`
has no disk, so `ListedStore` has to remember which request that was.

`IsCheckpointed` is that of the files: a rename is `Store` or `Attach`, a commit
of the directory `Checkpoint`. Where new files are not ordered, `Checkpoint`
may leave their names without content, and `Follow` is the write-back that
brings it.

### Bounds, and why they are enough here

- `Requests`, three: two writers of one payload that race and a third request
  that reads the file while they do, or that resubmits after a kill. Symmetry
  over requests is sound where it is used: no property names a request, and it
  is not used in the run with liveness.
- One kill (`MaxCrashes`), and any number of starts that fail; two processes
  are enough to change the key, the limit, and to retry.
- Two keys, two times, one content type or none, one context or none: equal and
  different are all the code distinguishes. Times are unordered with respect to
  the steps, so the clock may be stepped back.
- Two bodies, of sizes 1 and 2, with `Limits` {1, 2} and `USIZE_MAX` 3 or 2: a
  body over the limit, a lowered limit that refuses a stored record, a total
  that fits exactly, one that overflows. The real widths differ only in where
  the boundary is.
- The claim run of the store needs one request and one kill.
- `Ingress`: two answers (`MaxAnswers`) and two runs of the process
  (`MaxStarts`), since every property relates at most two answers, or an answer
  to a later load; the records of earlier processes add a third set of keys.
  One text for each way the code tells texts apart: padded, empty, too
  long, of a wrong kind of byte, in upper case, not base64. `BODY_LIMIT` 10
  against `Overhead` 4 lets a body of the largest size pass the limit 6 and not
  the extractor, as 2 MB do against a `MAX_PAYLOAD_BYTES` of 2 MB.
  `BearerBodies`, the bodies that also come with a bearer key, are a few of both
  routes, accepted and refused: once a request has passed `authorize_ingress`,
  the key has no part in it.
- Four JSON documents: one with an object in an array in an object, the same
  with its members in another order at both levels and another spelling of a
  number, the same with a key twice, and one that means something else.
- `EarlierIds`: the directory is empty, or holds one payload with a receipt of
  the former form.
- `PowerLoss`: two payloads and two files. Both payloads can be stored, alone or
  one after the other, and a power failure can come before, between and after
  the commits, so that either could be missing; an upgrade needs a second file
  for its temporary, old and new, and happens while the other payload is not
  stored. Three files, with which one payload is upgraded beside the other, are
  millions of states, too many for the liveness property. That files of
  different payloads are kept apart, and that a power failure takes all of them
  back to the same moment, is proved for any number of both (`NamesStayApart`,
  `DirectoryIsCheckpointed`).
- `ListedStore`: two payloads and three requests, so that one is listed, one is
  under way and one comes after a restart; two seconds, the least in which an
  order can be seen; one signing key, so that a process without it is followed by
  one with it. Its clock does not step back; nothing else is restricted. Three
  requests are under way at once, so two may pass each other between date and
  lock before a restart sorts them.
- `Workers`: two workers, one thread in the pool and three requests: two of them
  take every worker, or the lock and the pool, while the third waits.
- `Startup`: two processes, one payload, two incidents, two times, any number of
  stops by the operator: a process that loads beside another, takes over from
  it, and is replaced in its turn. One environment for each fault, one with
  another port, and one with a limit below the size of the payload.
- `StatusPage`: two payloads, two seconds and one restart are the least in which
  the order of submission and that of `load` can differ. `Limit` is 1, so that
  the list is cut. Several submissions under way at once are in `two_payloads`,
  whose list this one is (`ListsAsInventory`).

`StaysLoadable` holds in the run where the total always fits. In the `overflow`
instance it would not: the record whose size overflowed is already on disk, and
`load` then refuses the directory for good: `OverflowEndsService` states that
(hazard at `src/store.rs:101`).

### Fairness

`Fairness` of `PayloadStore` is weak fairness of `Step(r)` for each request that
has begun (tokio and the OS schedule a runnable task). It is *not* assumed that
requests arrive, that writes succeed, that a process which ended is started
again, or which waiting task the mutex lets in: `std::sync::Mutex` is not fair,
and with finitely many requests per behaviour weak fairness of each waiting task
is enough, because each holder releases the lock. With an unbounded stream of
requests a waiting task could be overtaken for ever, and `EveryRequestEnds`
would need a fair mutex.

`Ingress` and `Client` have no liveness property and no fairness. Elsewhere:

- `PowerLoss`: the operating system writes back what stays dirty and commits
  its journal, in its own time. No step of the process is fair.
- `Workers`: weak fairness of what a thread does with the request it runs, of a
  worker that takes a task, and of the pool. The disk need not answer:
  `RequestsEnd` says what happens if it does not. Which waiting task gets the
  mutex is again left open.
- `Startup`: `load` and `bind` end, and a process that ended, with whatever exit
  code, is started again with the same arguments and environment, unless the
  operator stopped it (`restart: unless-stopped`, `docker-compose.yml:20`).
  Nothing is assumed of the operator, who may stop a process for good. The exit
  code matters: a process that finds its port taken ends with success, and under
  a policy like `on-failure`, which is the mutant, nobody may serve in the end.
  `EventuallyServes` asks for a limit that is no lower than that of any process
  before, since a lower one can be refused for ever (hazard at
  `src/store.rs:76`).
- `StatusPage`: `setInterval` goes on, every request ends in an answer or an
  error whose handler runs, and not every refresh of the timer fails for ever
  (strong fairness of its `Answer`).

Deadlock is checked everywhere; `Quiet` is the running process that waits for
more requests when all of the instance are served.

## 4. What is proved

### The store

`PayloadStoreProofs` proves, for all values of the constants that satisfy the
`ASSUME`s of `Receipts` and `PayloadStore`:

| theorem | property |
|---|---|
| `TypeCorrect` | `TypeOK` |
| `LockIsHeldByWriter` | `LockHeldByWriter`, which no run checks by itself: it is part of the inductive invariant |
| `IndexAgreesWithDisk` | `CacheCoherent` |
| `FirstWriterWins` | `FirstWriteWins`, which no run checks: `ImplementsService` says it of the metadata |
| `SignaturesStay` | `SignatureNeverLost` |
| `AcknowledgementIsDurable` | `AcknowledgedIsStored` |
| `ReceiptsAreTrue` | `ReceiptsAreAboutTheStore` |
| `CreatedOnce` | `CreatedIsFirstAnswer` |
| `SignedAnswers` | `SigningServerSigns` |
| `RawReadsAreWhole` | `RawServesStoredBytes` |
| `PoisonStays` | `PoisonIsFinal` |
| `AnswersAreReadAgain` | `AnswersStayReadable` |
| `OverflowIsNeverShown` | `OverflowEndsService` |
| `InventoryIsExact` | `InventoryExact` |
| `DirectoryStaysLoadable`, `DirectoryAlwaysLoads` | `StaysLoadable`, under a hypothesis each (below) |
| `StoreImplementsService` (`StoreRefinementProofs`) | `ImplementsService` |
| `StoreListsAsInventory` (`StoreRefinementProofs`) | `ListsAsInventory` |
| `StoreListsLatestFirst` (`StoreRefinementProofs`) | `LatestFirst`, of the list of the store |

**Assumptions.** Sizes are positive naturals; times are naturals; `None` and
`Torn` are none of the values they stand apart from; limits are positive and fit
into a `usize`, as `MAX_PAYLOAD_BYTES` is parsed into one; the set of ids is
finite (namespaces have at most 64 characters, bodies at most
`MAX_PAYLOAD_BYTES` bytes). TLC evaluates them in every run.

**Argument.** None of the properties is inductive alone. `CacheCoherent` says
nothing of a task in the middle of a write, so the commit that follows could
put anything into the index; `AcknowledgedIsStored` says nothing of the record
a rewrite is about to publish. `PayloadStoreInvariant` adds what is missing:

- `TypeInv`, `LockInv`: types, the lock's owner, tasks only in a running
  process, and a poisoned mutex nobody holds;
- `AddressInv`: an id determines namespace, bytes and size wherever it occurs.
  This is what allows the code's "same id means same namespace and bytes, so
  the incoming body can be reused";
- `SigningInv`: a record to be stored has a current receipt, or none and then
  the process has no key;
- `WriterInv`: what a lock holder found when it took the lock still holds, and
  the temporary file it is about to rename is its own record;
- `ReaderInv`: a raw reader's file exists under the content type it remembers;
- `CacheCoherent` itself.

Their conjunction `StoreInv` is inductive (`StoreInvariant`), one lemma per
conjunct and one step per action. On it rest `OnlyRenameWrites` and
`WriteKeeps` (what a rename may change), which give the two action properties
about files; `AnswersWith` describes every answer, and `AnswerInv` carries the
answers along later writes. `Inv == StoreInv /\ AnswerInv`.

**The inventory.** `InventoryExact` speaks of the files, but what the commits
change is the index, so `InventoryInv` says it of the index alone: the list
names each known payload once, and the total is `BytesOf(known)`. One more id
adds its size (`BytesAdd`), a smaller set has no larger total
(`BytesMonotone`), and `KnownIsStored` brings the files back in whenever the
index can be read. The overflow needs no invariant of its own: in a state that
can be read the total is exact, and as a value of `usize` it fits.

**Loading again.** `StaysLoadable` is not true of the code without a condition:
a body that no longer fits is written before the total is checked
(`src/store.rs:161`, then 165), and the directory is refused from then on. What
is proved is that this is the only way to lose it. `DirectoryStaysLoadable`: if
the directory loads at first, it loads under the largest limit for as long as
its total fits. `DirectoryAlwaysLoads`: if all payloads there can be fit
together, for ever. `SizesInv` is the invariant: the files, and the records of
submissions under way, are within the largest limit, whichever process with
whichever limit accepted them. The runs start with directories that load.

**The refinement.** `PayloadService` has no state but the files' metadata and
the answers. `RenameStores` is the heart: of all steps of a submission the
rename is the one that a user can see, and it is `Store` if there was no file
and `Attach` if there was one without a current receipt, with some key that
signed (`CurrentIsSigned`), not necessarily that of a process that answers
later. `AnswerIsOfService` and `RawReadServes` do the same for the answers, and
`AnsweredInv` says that an answered request is over, without which a service
that answers once could not follow. Every other step, with kills and starts,
leaves metadata and answers alone.

**The list.** `LatestFirst` does not survive a restart alone, since `load` sorts
by date what was listed by commit: `InventoryInv` (`InventoryProofs`) adds that
what was stored before a payload was dated stays stored with a date that is no
later, and says "in front" by positions in the whole list, not in one that is cut
(`InFront`, `OrderOfSet`). It assumes finitely many payloads and a clock that
does not step back. `LaterIsListedFirst` and `ListIsTyped` are the theorems
about `Inventory`.

That the store keeps `Inventory` rests on `ListedInv`, beside `StoreInv` and the
invariant of the inventory: the file of an id has the date of the submission
that created it, and what is listed has a file (`OriginInv`); a request that
holds or awaits the lock remembers the submission whose record it carries, and
from the rename on that is the origin of the file (`BegunInv`); and a process
that ends leaves at most one file that it did not list, the origin of which is a
submission still remembered (`UnlistedInv`). The last one is stated
for directories that `load` can sum up: after an overflow the record that was
not listed stays, but then no later process starts. With it a start finds either what was listed
or one record more, and the sort of `load` is that of `Restart`. The order of
the list then needs no proof of its own: `StoreListsLatestFirst` instantiates
the theorem about `Inventory` (`Ordered`) and carries it over the refinement.

### The handlers

`IngressProofs` proves, for all texts, limits, keys, requests and restarts:

| theorem | property |
|---|---|
| `IngressTypes` | `IngressTypeOK` |
| `AcceptedLoads` | `AcceptedIsLoadable` |
| `OneIdPerPayload` | `OnePayloadOneId` |
| `NoncesToldApart` | `ReceiptsTellNoncesApart` |
| `AttributesAreOneValue` | `AttributesAreCanonical` |
| `ContentTypeIsServed` | `StoredTypeIsServed` |
| `AnswersDescribeOneRecord` | `AnswersAgree` |
| `HeldReceiptsVerify` | `ReceiptsVerify` |
| `HandlersImplementService` | `StoresAsService`, which no run checks: the map of `PayloadService` |
| `HandlersAnswerAsService` | `AnswersAsService`, which no run checks: its answers |

**Assumptions.** Trimming twice is trimming once; decoding what was encoded
gives it back; `None` and `Failure` are none of the values they stand apart
from; requests consist of texts and numbers; `Namespaces` and `ContentTypes`
are the texts that `ValidatedAssumption` describes.

**Argument.** `AcceptedIsLoadable` is not inductive: it says that records pass
the validators of `load`, not that they are already normalised, and it says
nothing of the limit a record was accepted under against the one that grows
with later processes. `IngressInv` adds: every stored record is `Sound` for
`accepted_limit`, which is at least the limit of the running process
(`SettingsInv`, `StoredInv`); the id in every answer is that of the payload its
request means, and is still stored (`AnswersInv`, which makes a second 201
impossible); every receipt and ARKIV context is a function of what the request
names (`ReceiptsInv`, `ArkivInv`). `NamespaceValid`, `ContentTypeValid` and
`SubmissionValid` relate the validators to `ValidatedAssumption`; `Prepared`
carries that to both routes, `Accepts` to the step. `RecordsInv` says that the
record behind an answer is stored with the same id, content type and date,
which is all that an answer, or a receipt without a context, depends on.

The last two theorems connect `Ingress` with `PayloadService`. There `Store` or
`Attach` and `Answer` are two steps, between which others may come; `Accept`
does both at once. So the map is one theorem, a refinement with the answers
hidden (`MapAfter`, `MapAfterNew`), and the answers are another, an action
property with the conjuncts of `Answer` about the map as it is after the step.
In the `ingress` run they would take TLC too long, with an abstract step to
look for among all ids.

### The disk, the threads, the start and the page

| module | theorem | property |
|---|---|---|
| `PowerLossProofs` | `NamesStayApart` | `PowerTypeOK` |
| | `RecordsOnMediumStay` | `MediumKeepsRecords` |
| | `SurvivorsAreWhole` | `SurvivorsLoad` |
| | `DirectoryIsCheckpointed` | `IsCheckpointed` |
| `WorkersProofs` | `ThreadsAndLockAgree` | `WorkersTypeOK` |
| | `HoldersRun` | `HolderRuns`, a consequence of it |
| | `NobodyWaitsInACircle` | `NoCircle`, which no run checks by itself: `RequestsEnd` and the deadlock check are close to it |
| | `StdoutNeverPoisons` | `OnlyOverflowPoisons` |
| `StartupProofs` | `PortAndConfiguration` | `StartupTypeOK` |
| | `ServersKnowTheDirectory` | `ServingKnows` |
| | `RecordsKeepTheirDate` | `OnlyStaleRedates` |
| | `DirectoryLoads` | `WideLimitsLoad`, which no run checks by itself: with it `EventuallyServes` can hold |
| `InventoryProofs` | `LaterIsListedFirst` | `LatestFirst` of `Inventory` |
| | `ListIsTyped` | `InventoryTypeOK`, which no run checks by itself |
| `StatusPageProofs` | `PageIsTyped` | `PageTypeOK`, which no run checks: the form is ready again once its refresh is over |
| | `SubmissionsAreShown` | `SubmissionIsShown` |

`PowerLossProofs` assumes of the file systems what `FileSystemsAssumption`
says: that a rename which replaces a file waits for the new file's data. Its
invariant `PowerInv` says of a record on the medium that its successor in the
cache is whole and either on the medium too or among the files the next commit
waits for (`MediumInv`), and that the temporary file of a submission is no
record's file on either side (`ApartInv`); neither `MediumKeepsRecords` nor
`PowerTypeOK` survives a step without them. `OrderedInv` adds, where renames
that create a name wait too, that no name comes before its data, and that what a
name on the medium leads to is on the medium as it is in the cache. From both
follows `DirectoryIsCheckpointed`, one lemma per kind of step: a rename changes
what is shown of one payload (`RenameStores`), a commit makes what is shown
durable for all at once (`CommitIsCheckpoint`), a power failure the reverse
(`PowerFailureRestores`), and a write-back changes something only where new
files are not ordered (`WriteBackFollows`). The invariant of `WorkersProofs` bounds where a request may be by its kind: only a raw read
is ever off its worker, and only a submission writes. From it follows
`NoCircle`: while no file is being written, some request has all it needs for
its next step, unless every one that has begun waits for the disk or the pool.
It needs at least one worker, as tokio does. The invariant of `StartupProofs`
extends `ServingKnows` to processes that have loaded and do not serve yet;
`LimitInv` says that no record and no running process is over `widest`.

`StatusPageProofs` assumes that the timer's refreshes are none of the other two.
`PageInv` adds to `PageTypeOK` that the form's payload is stored once it was
accepted, and that an answer which is on its way to the refresh of the form
lists it, or is full of payloads that come before it in the list
(`SnapshotShows`); which of two was later does not change any more
(`DatesStay`). That an older answer comes in after the newer one does no harm
to this refresh because it is another's.

### Only model-checked

- The liveness properties `EveryRequestEnds`, `AcknowledgedReachesMedium`,
  `RequestsEnd`, `EventuallyServes` and `PageRecovers`: fairness is out of the
  provers' reach.
- `OneFormPerDocument`: what a recursive function over trees computes is an
  induction over data, which they cannot do either.

Every other property of a passing run is a theorem.

## 5. Findings

`claim_post_signature`: README.md:105 says the answer to `POST /payloads`
returns "payload metadata and any receipt signature". A server without a key
that is sent a payload whose stored receipt has the former action `hostPayload`
answers without it: `submit` clears the signature of its copy before it knows
that it cannot make a new one (`src/store.rs:134`), while `GET /payloads/{id}`
still shows it. Nothing is lost on disk (`SignaturesStay`).

`claim_verify`: clients/js/README.md:35 says "Submit a payload and verify the
returned receipt signature." The receipt of a submission with a nonce or a
payment covers both; the metadata it is returned with, and any fetched later,
has neither, so `verifySignature` reports that the receipt does not match
(`clients/js/src/verify.ts:78`). Receipts without them always verify, also
later (`ReceiptsVerify`).

`claim_predict`: `predictPayloadId` is said to predict the id "the server will
assign to a payload" (clients/js/src/client.ts:160). It hashes the namespace as
given; the server trims it first.

`claim_limit`: README.md:31 calls `MAX_PAYLOAD_BYTES` the "Maximum decoded
payload size." The router leaves axum's default body limit of 2 MB in place, so
a larger setting has no effect for payloads whose request is over it: 413.

Three more sentences of the documents hold only under conditions that the
models make precise; they are stated as properties that hold.

- `instructions.md:146` says every accepted payload is persisted. A submission
  is answered before anything is synced (`src/store.rs:325`): until the
  operating system has written it back, a power failure takes an accepted
  payload away, and on a file system that does not order a new name after its
  data it leaves a file that `load` panics on. What is promised is
  `AcknowledgedReachesMedium`, `MediumKeepsRecords` and `SurvivorsLoad`.
- README.md:104 says a known payload is answered with 200. A process that
  loaded the directory while another still served may answer 201 for a payload
  the other one stored, and overwrite it with a new date: `OnlyStaleRedates`
  says that nobody else does.
- README.md:172 says a JSON document is stored as `application/json`. If its
  canonical bytes were first sent to `POST /payloads` without a content type,
  they stay without one, while the ARKIV answer says `application/json`
  (`src/arkiv.rs:170`): `AnswersAgree` says when the two agree.

## 6. Not modelled

- Wording, log lines, the layout of answers and of the page, the form that the
  page keeps in local storage: no property is about them.
- The byte layout of receipts and records, hashes and signatures: symbolic.
- Of the JavaScript client, the methods that only send a request and return
  the answer (`health`, `status`, `list`, `getSignature`, `getRaw`) and the
  base64 helpers.
- GET handlers that read the index once: in `PayloadStore` they change nothing,
  so what they would answer is a state property; in `Workers` they are the
  requests that take the lock and give it back.
- A panic with the standard error closed, which aborts the process: a kill.
- The build scripts and images, which have no behaviour at run time beyond the
  restart policy.

## 7. What could follow

All components are modelled but for what section 6 lists, every safety property
that a run checks is proved but for `OneFormPerDocument`, and each promise is
proved of the model that keeps it. Two connections are left to argument:

1. `PowerLoss` takes one writer and an index that is the directory from
   `LockIsHeldByWriter` and `CacheCoherent`; a composition of the two modules
   would make that a refinement too.
2. `Workers` abstracts the store to its mutex; that the handlers hold it exactly
   as the tasks of `PayloadStore` do is read from the code.
