# ClawWarden in TLA+

ClawWarden is a gateway between a bank's analysts and a language model. It
replaces identifiers in a prompt by tokens, forwards the prompt, restores the
tokens the caller's role may see, and keeps a hash-chained audit log of all of
it. Around the gateway (`apps/gateway/gateway`, Python, FastAPI on asyncio) stand
a web console (`apps/web`, Next.js), clients of a governance service
(`sdk/typescript`, `packages/classifier`) and an open detector library
(`packages/finsafe-core`).

This directory specifies the stateful parts of all of these in TLA+, checks them
with TLC and proves with TLAPS, for every value of the constants, what matters
most: the audit chain with and without the loss of its data, the token vault, the
chat handler, the governance clients, the rotation of secrets, what is redacted
of a message and read of its answer, the web console, the waitlist's rate limit,
the browser's tokenizer, the dataset of a chat and the open detectors. Every
safety property that a passing run checks is also a theorem.

## 1. The system

| Component | Source | State | Operations |
|---|---|---|---|
| Audit chain | `audit.py` | Redis, per tenant: `chain_tip`, `gseq`; per tenant and day: the list, `seq`, `watermark`, `genesis` | `log_event`, `verify_chain`, `get_logs` |
| Anchors | `audit_store.py`, `audit_anchor.py` | SQL table `audit_entries`, unique in (tenant, seq); S3 objects written once under Object Lock | `append`, `verify_chain`, fan-out by `MultiAnchor` |
| Session store | `redis_store.py` | Redis, per session, each with a TTL of an hour: provider config, owner, token map, a counter per entity type, a token per value | set and get of each, `get_or_create_token_for_hash`, `update_token_map` |
| Tokenizer, detokenizer | `tokenizer.py`, `detokenizer.py`, `rbac.py` | none of their own | `analyze_spans`, `run_tokenize`, `run_detokenize` |
| Chat handler | `main.py` | the locals of a request across a dozen awaits | `POST /v1/chat/completions` |
| Session set-up | `main.py` | through the session store | `POST /api/session/configure` |
| Tokens, revocation, secrets | `auth.py`, `revocation.py`, `config.py` | each process: the secrets it read at its start (current and previous, signing and vault); Redis denylist with TTL | issue, validate, revoke, encrypt, decrypt, rotate |
| Accounts | `users.py`, `database.py` | SQL `users` | register, login |
| Guards | `injection_guard.py`, `output_guard.py`, `ssrf.py` | none | scan, sanitise, check of a provider URL |
| Provider routing | `llm_router.py` | none | one HTTP call |
| Governance clients that retry | `packages/classifier/.../governance.py`, `sdk/typescript` | a call's attempts, its key, its timer | write with retries under one idempotency key, drop hook, read |
| The gateway's governance client | `governance_client.py` | a call and its timer | one post without a key; failures are logged and swallowed |
| Detectors and score | `packages/finsafe-core` | a registry | `scan`, `assessRisk` |
| Console: session, sign-in, set-up, chat, audit pages | `apps/web/lib`, `apps/web/app`, `apps/web/components` | localStorage (token, role, session id), React state of the open page, calls under way | submit, launch, send, switch persona, pick date, verify |
| Browser tokenizer and its page | `lib/tokenizer.ts`, `app/tokenize/page.tsx` | a vault in the page | tokenize, restore, reset |
| Dataset of the chat page | `components/CsvUpload.tsx` | the parsed table | choose, parse, preview, prompt, remove |
| Waitlist | `app/contact/page.tsx`, `app/api/waitlist/route.ts` | a map of hits in process memory | submit, rate limit, mail |
| Integrations | `packages/integrations` | a metrics registry | formatting, transport |

Interactions. The chat handler calls, in order, the denylist, the session store,
the injection guard, the audit log, the tokenizer (which calls the session store
once or more per identifier), the session store, the audit log, the provider,
the session store, the output guard and the audit log. Every arrow is an
`await`, so other requests of the process run in between; several gateway
processes share one Redis, so a lock in the process would not help. `log_event`
calls the anchors synchronously after its Redis pipeline. The console calls the
gateway; a page that is left loses its React state, while its calls go on and
still write to localStorage. The governance clients call a service that is not in
the repository. The gateway's own is an `httpx` client of its own, best-effort by
design (`governance_client.py:10-12`), and nothing in the gateway calls it yet.

What is hard here:

- **Interleaving.** `log_event` is four reads and increments and then a
  `MULTI/EXEC` pipeline that stands on them; `update_token_map` is a read and a
  write; minting a token is up to five round trips; two persona switches, two
  fetches of a log or a send and New Chat run at once in one page.
- **Partial failure.** A Redis error, a client that goes away or a crash ends a
  call between any two round trips and leaves the counters it has bumped.
  Anchors swallow their own failures.
- **Time.** The audit day is fixed at the start of a call; day keys expire
  together after the retention, session keys one by one; tokens and denylist
  entries die at times of their own.
- **Lost and late answers.** A governance write may be on record although its
  answer is lost, late, an error or unreadable, and is sent again.
- **Configuration in motion.** Instances restart one by one while secrets are
  rotated and dropped.
- **Crash and recovery.** Redis runs with `appendfsync everysec`: a restart goes
  back in time, the anchors do not.
- **Verification while writing.** `verify_chain` is three reads.

What makes each component correct: the audit log is one chain that its verifiers
accept exactly as long as nothing is lost; anchors never rewrite a record and
show what they miss; a token stands for one value and a value for one token, and
what was sent can be restored; no prompt leaves in clear, for a stranger,
unguarded or unrecorded; a rotation never lets a revoked token back in nor a live
one out; a governance write is recorded at most once, and one of a client that retries
is never lost silently (the gateway's client promises no such thing: a write that
fails is a line in its log); a page shows what it says it shows.

## 2. The modules

| Module | Extends | What it is |
|---|---|---|
| `AuditChain` | | `log_event`, anchors, midnight, expiry, interruption; the two verifiers as operators |
| `AuditVerify` | `AuditChain` | `verify_chain` read by read beside the writers |
| `AuditLoss` | `AuditChain` | a log that loses entries or days; what the verifiers say |
| `AuditRecovery` | `AuditChain` | Redis going back to its last fsync |
| `AuditFaults` | the three above | the audit log meeting one of them, chosen at the start (`meets`) |
| `TokenVault` | | tokenization of one session's concurrent requests |
| `ChatGateway` | | the chat handler await by await, session set-up, revocation |
| `GovernanceLedger` | | abstract: what a governance client promises of a write |
| `GovernanceWrites` | | the three clients, attempt by attempt; an instance of the ledger |
| `WebSession` | | one browser tab: localStorage, calls under way, sign-in pages |
| `SetupPage` | `WebSession` | the three set-up steps and the launch |
| `ChatPage` | `SetupPage` | conversation, personas, inspector |
| `AdminPage` | `ChatPage` | the audit page |
| `WebConsole` | `AdminPage` | navigation between the pages over one session |
| `Waitlist`, `BrowserTokenizer`, `CsvTable`, `DetectorRegistry` | | the public site's rate limit, the browser's tokenizer, the dataset, the open detectors |
| `Redaction` | | a message from the analyser's spans to what a role reads |
| `KeyRotation` | | signing secrets, vault keys and denylist over several instances |
| `Standalone` | the six above, `ChatGateway` | the parts whose models share no state, one of them per behaviour (`part`) |
| `AuditChainProofs`, `TokenVaultProofs`, `ChatGatewayProofs`, `GovernanceWritesProofs`, `WebConsoleProofs` | their module | theorems and their proofs |
| `AuditFaultsProofs` | `AuditFaults`, `AuditChainProofs` | the same for the log that meets a fault |
| `WebPartsProofs` | `Waitlist`, `BrowserTokenizer`, `DetectorRegistry`, `CsvTable` | the same for these four, after the lemmas about sequences |
| `GatewayPartsProofs` | `Redaction`, `KeyRotation`, `WebPartsProofs` | the same for the first two, with those lemmas |
| `*MC` | | model values, definitions and symmetry for TLC |

The modules that extend one another compose: the next-state relation of the
larger one contains the actions of the smaller one as they stand.

### AuditChain

One tenant: every Redis key of `log_event` holds the tenant. An entry is named by
the number of the call that wrote it. The body holds a fresh uuid and the HMAC is
taken to be injective, so the name stands for the body and the hash; `0` is
`GENESIS_SENTINEL`. A watermark is kept as what it signs.

| Code | Action |
|---|---|
| `log_event` up to its first await (day key) | `Start` |
| `_get_prev_hash` | `ReadTip` |
| `incr` of `gseq`, of the day's `seq` | `IncrGseq`, `IncrSeq` |
| `get` of the day's genesis | `ReadGenesis` |
| `pipe.execute()` | `Exec` |
| `durable.append` (SQL, S3 or both) | `Mirror(w, ok)`, `ok` the anchors that take the write; `{}` is also a process that stops after the pipeline, or the pipeline's lost reply |
| an await that raises, cancellation, crash before the pipeline | `Interrupt` |
| UTC midnight | `NextDay` |
| TTL of a day's keys | `Expire` |

`history`, `incidents`, `missing` and `faults` are not in the code: they record
what happened so that the properties can speak of it. `incidents` holds "overlap"
once a call starts inside another's window (from its first line to its pipeline),
and "gapSeq" or "gapGseq" once a call dies after the counter in question.
A verifier's result does not depend on them.

Abstracted: the content of an event; the `chain_head` key, which nothing reads;
clocks of several gateways that disagree about midnight. `Expire` needs that no
call on that day is in its window; a call does not last as long as the retention
(30 days by default).

### AuditVerify, AuditLoss, AuditRecovery, AuditFaults

`AuditVerify` adds `verify_chain` as `ReadList`, `ReadDayGenesis` (which ends the
call at a broken link, before the watermark is read) and `VerifyMark`.
`AuditLoss` adds `LoseEntry` and `LoseDay`: an operator deletes in Redis. Nothing
that needs the HMAC key is modelled, so the verdicts on a forged or modified
entry are not either. `AuditRecovery` adds `Fsync` and `Restart`, modelled from
`docker-compose.yml` (`appendonly yes`, `appendfsync everysec`); the gateway's
calls survive with what they have read. In a behaviour of `AuditFaults` the log
meets one of the three; calls are cut short, or anchors fail, only where a
verification runs, so that each property has one cause to speak of.

### TokenVault

One session and one entity type: keys carry the session, and the type selects the
counter and the token's name (all short codes are distinct), so a token is its
number. Actions are the round trips of `get_or_create_token_for_hash` (`Find`,
`Incr`, `ExpireCounter`, `Claim`, `ReadWinner`) and of `update_token_map`
(`ReadMap`, `WriteMap`), the handler's loop over messages (`Begin`, `Another`,
`Send`) and the end of a request at any point (`Finish`). Every key carries the
tick at which it dies. `overran` and `clobbered` record that a request outlived
its session, and that one merge overwrote another. Encryption at rest is in
`KeyRotation`, the text around a span in `Redaction`.

### ChatGateway

One action per await of `chat_completions` that reads or writes something shared;
`Fail` is the same await raising, with the status its `except` gives it. `Arrive`
and `ArriveUnauthenticated` are the token check, which awaits nothing. The audit
log and the vault are seen from outside. A prompt has any number of messages, none
included, up to the bound; a message is its role's class, what
`scan_for_injection` makes of it at the configured threshold, and whether it has
identifiers. Denylist entries do not expire here: `KeyRotation` has them with
their TTL, and `RevokedStaysOut` there is what justifies leaving it out.

### GovernanceLedger, GovernanceWrites

`Call` starts a write or a read; `Serve` and `Refuse` are the service (external:
`Take` recognises a write sent again by its key, and takes one without a key as it
comes); `Answer` is what comes back, if
anything: 2xx, a 2xx that does not parse, a retryable or a final error. `Receive`
and `Timeout` end an attempt, `Retry` starts the next one after the back-off
under the same key. A late answer is dropped, a late request is still served.

| | TypeScript SDK (`TsWrites`) | Python client (`PyWrites`) | gateway's client (`GatewayWrites`) |
|---|---|---|---|
| attempts | up to `MaxRetries + 1`, one key | up to `MaxRetries + 1`, one key | one, no key |
| 408, 429 | tried again | given up | given up |
| 2xx that does not parse | tried again | raises | raises |
| given up | drop hook | drop hook | logged and swallowed ("unheard") |

`GovernanceLedger` knows outcomes and a count of records only, and which writes are
`BestEffort`: `Forget` ends one of those with or without a record, its caller none
the wiser; every other write that ends is on record or dropped. `KeepsLedger` is
`GovernanceWrites` implementing it, with `BestEffort <- GatewayWrites`. Clients that
are not configured (`enabled`) send nothing and are left out.

### WebSession, SetupPage, ChatPage, AdminPage, WebConsole

`ui` is the React state of the open page, `Nil` while it has not run its first
effect; `calls` holds what is under way, each with `on`: whether the page that
started it is still open. An answer to a page that was left writes to
localStorage, navigates if the code does, and changes nothing else. Each call may
fail at any time. Handlers are one action up to their first await (`SubmitLogin`,
`Launch`, `Send`, `SwitchRole`, `PickDate`, ...), continuations one action each
(`Signed`, `Begun`, `Configured`, `Answered`, `Switched`, `Logged`, ... and their
failures). Guards are the `disabled` attributes and early returns. A model's name
is where it comes from, a key the provider it was typed for, a message its number,
a log its date; a field of the set-up may be emptied again. The effects of a page
read localStorage as it is, its buttons hold what the last render read (`token` of
the audit page, `jwt` of the chat page).

`slips`, `overlapped`, `hushed` and `before` are not in the code. The first three
record an order of steps that the page's closures do not expect, and the passing
properties name them as exceptions. Each stands for a real divergence of the page:
a list of models that resolves under another provider or URL, a key typed for one
provider and sent to another (`setup/page.tsx:153`), two persona switches or two
fetches of a log under way, a check of the log's integrity that takes down the
error of a failed fetch (`admin/page.tsx:289`). `before` is the last message sent
before New Chat, for the run `console_newchat`.

### Waitlist, BrowserTokenizer, CsvTable, DetectorRegistry

`Waitlist`: the form (`Submit`, `Answered`, `Lost`) and the route (`Admit`,
`Notify`), time between any two steps, and a new instance that starts without the
map (`Redeploy`). `BrowserTokenizer`: a text is a sequence of words, each with
what the regular expressions see of it; `tokenize` is the run of capitalised
words, the overlap rule, the vault's counters and keys. `CsvTable`: `parseCSV`,
character by character (`ParseChar`), of which only comma, quote, newline and
space matter; the table shown and the prompt with its cut. `Written` and `File`
are what a spreadsheet writes, and are not in the code. `DetectorRegistry`:
detectors settle or throw in any order, findings are aggregated in the order of
registration; `luhnValid` is a fold over digits. Loops of the code that are
theorems' subjects are recursive functions over positions.

### Redaction

A message is a sequence of symbols, characters or tokens that a user may have
typed. `Analyze` chooses any list of spans the analyser could report and thins
it out (`ByScore`, `Deduped`); `Replace` replaces one, from the right
(`NextSpan`); the model repeats what it was sent, once or twice; `Detokenize`
restores the tokens of the types the role may see, one after the other over the
whole answer. A session's token map is `Minted`: one token per value and type and
one value per token, which is what `INCR` of the type's counter and the token kept
per value leave behind; numbers may be missing ("a harmless gap in numbering",
`redis_store.py:120`). A new value gets a number above those in the map
(`NextNumber`). That concurrent requests mint such maps, as long as none outlives
its session, is `TokensAreOneToOne` of `TokenVault`; what their overlapping merges
lose is there too.

### KeyRotation

`env` is the environment the operator edits after the runbook, `settings[i]` what
instance `i` has read, which changes at `Restart` only. `RotateSigning` and
`RotateVault` move the old value to the previous ones; `DropSigning` and
`DropVault` drop one that no instance has used for `Grace`. Instances issue,
revoke, accept, encrypt and decrypt with their own settings. `hidden` is the set
of signing secrets in their grace when the vault gets its first key of its own.

## 3. What is checked

| Run | Bounds | Question |
|---|---|---|
| `chain_safety` | 2 calls in flight, 3 entries, 2 days, retention 1, 2 anchors, 1 fault | Do calls that take turns keep one chain, verifying days and anchors, through midnight, expiry and interruptions? What goes wrong only if they overlap? Does an entry reach every anchor that did not miss a write? |
| `chain_overlap` | 2 calls, 2 entries, no fault | Violation: overlapping calls make an intact day fail |
| `audit_faults` | 2 calls, 3 entries, 2 days, retention 1, 1 anchor; 1 restart, or 2 deletions, or 1 check and 1 fault | What survives a restart that loses writes? Do deletions show, also after further appends and deletions? What may a verdict given in three reads be trusted for? |
| `loss_day` | 1 call at a time, 2 days, 1 deletion | Violation: a deleted day does not break the next |
| `vault_safety` | 2 requests, 2 values, 4 messages, TTL of 2 ticks, clock to 2 | Do tokens and values stay in bijection, and what may a lost update do? |
| `vault_lost` | 2 requests, 2 messages | Violation: concurrent merges lose tokens |
| `chat_unlogged` | 1 identity, 1 message | Violation: a forwarded prompt without any event |
| `governance` | 1 write of each of the three clients, 1 read, 1 retry | Do they implement the ledger, the best-effort one as far as it promises anything, and does every call end? |
| `console` | 1 analyst and 1 administrator, 2 personas, 2 URLs, 2 dates, 2 calls under way, 2 messages | Does every page show what it says, in any order of answers and failures? |
| `console_inspector` | as above | Violation: the inspector shows another turn's message |
| `console_newchat` | as above | Violation: a message on its way comes back after New Chat |
| `parts` | chat handler: 2 identities, 1 session, 1 request of up to 2 messages; waitlist: 2 visitors behind one address, limit 2, window 2, time to 4, 4 posts, 1 restart; tokenizer: texts of up to 5 words of 7; dataset: tables of one and two columns over 7 cells, 1 row in the prompt, 2 files; detectors: texts of up to 3 marks, cut at 2, and 4 card numbers; redaction: 2 messages of 3 symbols, up to 3 spans with 2 scores, 2 token maps, 2 roles; rotation: 2 instances, 1 token, lifetimes and grace 2, 4 secrets, clock to 3 | Seven parts, each on its own; of the chat handler: is it fail-closed on every branch and every failing await? |

Properties, by what they guard against:

- `OneChain`, `DaysVerify`, `AnchorsVerify` state the chain's guarantee with its
  exact price. A false verdict without a deletion needs an overlap or a call that
  died past the counter in question; midnight, expiry and all other failures are
  harmless. The two kinds of interruption are apart on purpose: a call that dies
  between `gseq` and `seq` hurts the anchors only.
- `NoRowRefused`: the refusal that `append` swallows never hides a live record,
  as long as Redis does not go back in time.
- `DayHoldsHistory`, `GapShows`, `LossShows`, `AnchorsOutliveRedis`,
  `RefusalShows`: nothing gets lost without a verifier showing it, each with the
  condition under which that is true.
- `AnchorsOutliveRedis` is about deleted entries and deleted days alike: whatever
  Redis lost, an anchor that missed nothing verifies and has it.
- `RestartKeepsDays`: a restart between calls brings back days that verify.
- `OkIsCurrent`, `FalseIsExplained`: an ok is about the log as it is at the last
  read; a false verdict of an undisturbed log needs a write between the reads.
- `LoggedIsMirrored` (liveness): what is in Redis reaches the anchors.
- `TokensAreOneToOne`, `NeverSwapped`, `SentIsVaulted`: lost updates lose tokens
  but never put one individual in another's place.
- `NeverInClear`, `OwnSessionOnly`, `GuardedBefore`: about the prompts that left,
  whatever failed before or after. `OutcomeOnRecord`: which ends of a request
  imply an event in the log: a refused token or session (401, 403), an answer
  (200), and whatever was detected before a step failed (422, 502). A session that
  is not found (404), a vault that is down (503), and a 422 or 502 of a prompt in
  which nothing was detected write no event (`main.py:534-542`, `619-625`, `649`).
- `RecordedOnce`, `KeepsLedger` (refinement), `EveryCallEnds` (liveness): retries
  neither duplicate nor lose a write, the gateway's client never takes a failure
  for a result, and no call retries for ever.
- `LaunchFits`, `ShownRoleIsTokens`, `AskedWithThread`, `LogsOfDate`,
  `BusyHasCall`: provider, model and key belong together at the launch; the
  persona shown is the token's; each turn was asked with the turns shown above it,
  however answers and New Chat change them meanwhile; the log shown is that of the
  date shown; no page stays busy.
- `AtMostTwice`: over any stretch as long as a window, fewer than twice the limit
  get through. `RoundTrip`, `SameValueSameToken`, `NamesAreTokens`: what the
  browser's vault restores and which names stay readable. `DatasetAsWritten`: the
  file's cells reach the page and the prompt under their own headers.
  `NothingMilder`: a failing or slow detector never makes the assessment milder.
- `ReadsAsWritten`, `ClearOnlyIfOutbid`: an answer reads as the message does, with
  what the role may see in its place and tokens for the rest; what was found and
  is still in clear belongs to a span that was outbid.
- `RefusedOnlyByOlder`, `RevokedStaysOut`, `UnreadableOnlyToOlder`: rotations,
  restarts and drops in any order.

Why the bounds are enough. Two calls in flight give every order of two windows,
and a third entry shows what the first two left behind. Two days and a
retention of one give a call that crosses midnight, a day whose genesis is taken
from the day before, and an expired day. One fault is enough to separate each
incident from the others; two deletions let the second hide the first, which it
does not. Tokens need two values to be confused and two requests to race; a third
and fourth message reuse what the first two minted, and a clock of TTL ticks
brings requests up to the end of the session and past it. Chat requests share
only the session and denylist they read, which other actors change at any step,
so one request meets all the states that several would; the theorems of section 4
are about any number. Governance writes share nothing but the service, so one of
each client gives every order of answers; one retry has a first and a last attempt,
with a late request of the first beside the second. Every race of a page is between two of its calls, one for each of
two dates, personas or URLs. The waitlist's clock covers two windows that meet.
Four secrets give two rotations of either kind, or one of each, on top of a vault
with or without a key of its own, and two instances the state between two
restarts. Three spans over three symbols give a span outbid by two others, two
that overlap in part and two that do not, and equal scores.

Type invariants: those of `AuditChain` (also where the log meets a fault),
`TokenVault`, `ChatGateway`, `GovernanceWrites`, `KeyRotation`, `Waitlist` and
`WebConsole` are proved (section 4), so no run repeats them. In the other parts
the inductive invariants hold the types that the proofs need.

Deadlock is not checked: the bounds on events, messages, requests, posts and
calls run out, and a system without traffic may stop.

Fairness. `AuditChain!FairSpec` is weak fairness of `Step(w)`, the next round trip
of a call: the event loop resumes every coroutine whose reply has arrived, and
redis-py raises on a connection that fails (`Interrupt`). Starting calls,
midnight, expiry and failures are not fair. `GovernanceWrites!FairSpec` is weak
fairness of the end of an attempt (`Receive` or `Timeout`) and of `Retry`: both
wait for a timer of the client's own runtime, which fires. The network and the
service owe nothing.

## 4. What is proved

`AuditChainProofs` proves, for any number of calls, anchors, days, entries and
faults and any retention:

- `TypeCorrect`: `Spec => []TypeOK`.
- `RowsAccepted`: `Spec => []NoRowRefused`. Inductive invariant `GseqInv`: the
  numbers held by calls past `IncrGseq` are at most `gseq` and distinct, and no
  anchor holds one of a call that still has to mirror it. `NoRowRefused` alone
  says nothing about calls that have a number and are not yet at the anchors.
- `TurnsKeepOneChain`: `Spec => []OneChain`. Inductive invariant `ChainInv`:
  without an overlap at most one call is in its window, the tip is the hash of
  the last entry of the history, and a call past `ReadTip` holds that tip.
- `TurnsKeepDays`: `Spec => []DaysVerify`. Inductive invariants `CalendarInv`
  (calls and entries are on days that have come, a day has a genesis exactly when
  it has entries, a call that found one will still find it) and `DayInv` (without
  overlaps and gaps: the day that is written next ends in the tip, the day's
  counter counts its list and the one call that has bumped it, and that call's
  reading of the genesis is still true). `DaysVerify` speaks of stored keys only;
  that the next pipeline keeps them in step follows from what the call holds.
- `TurnsKeepAnchors`: `Spec => []AnchorsVerify`. Inductive invariant `AnchorInv`,
  on top of `GseqInv` and `ChainInv`: without overlaps and dead numbers, `gseq`
  counts the history and the one call that has bumped it, the sequence number of
  a record is the place of its entry in the history, and every place is in the
  anchor or on its way to it. Links between records then follow from links
  between entries.
- `GapsShow`: `Spec => []GapShows`, in any interleaving and whatever is cut
  short. Inductive invariants `IdInv` (a name is given once), `NumberInv` (a number
  from `gseq` is of one call and of one entry) and `GseqInv`. The anchor's records
  up to the later number would have to be a chain without a gap from the first on;
  the first record in it that is not the entry's own (`LeastNumber`, the
  well-ordering of the naturals) breaks it.
- `DaysHoldHistory`: `Spec => []DayHoldsHistory`. Inductive invariant `KeptInv`:
  the place of an entry in its day's list is its rank among the history's entries
  of that day, and a day without a watermark was never written or will never be
  again. That a late call does not write to a day that has expired comes from
  `CalendarInv`.

`AuditFaultsProofs` proves, of the log that meets restarts of Redis, deletions or
a verification (`FaultsSpec`), for any number of each. `ModeInv` says that a
behaviour meets one of the three; what `AuditChainProofs` shows carries over where
the fault leaves its variables alone.

- `RefusalsShow`: `[]RefusalShows`, from names that are given once.
- `DeletedIsAnchored`: `[]AnchorsOutliveRedis`, for deleted entries and for those
  of deleted days. A deletion touches the keys of a day only, so `GseqInv`,
  `ChainInv` and `AnchorInv` still hold (`AnchoredInv`), and whatever is listed or
  deleted was logged (`ListInv`).
- `DeletionsShow`: `[]LossShows`. Inductive invariant `LossInv`: while calls take
  turns, a day's list is never longer than its counter and its watermark say, and
  strictly shorter once an entry is gone, calls that have bumped the counter
  included. No later append or deletion can close that gap.
- `RestartsKeepDays`: `[]RestartKeepsDays`. Inductive invariant `DaysInv`: the
  state on disk, where it holds no counter ahead of its list, satisfies what
  `DayInv` and `CalendarInv` say of the state in memory (`SavedInv`), so that a
  restart between calls goes back to a state the log could have been in.
- `FalseExplained`: `[]FalseIsExplained`. `CheckInv`: what the verifier holds is
  what is stored, unless a step raced it, and an ok list is a prefix of the day's.
- `OkVerdictsCurrent`: `FaultsSpec => OkIsCurrent`, an action property. `TailInv`:
  a watermark is of the last entry of its list and hashes are distinct, so a
  watermark that fits the list read before fits no longer list.

`TokenVaultProofs` proves, for any number of requests, values and messages and any
TTL: `TypeCorrect`, `TokensOneToOne` (`[]TokensAreOneToOne`), `TokensNeverSwapped`
(`[]NeverSwapped`) and `SentTokensVaulted` (`[]SentIsVaulted`). The inductive
invariant `VaultInv` adds what requests hold between two round trips: a number
taken from the counter is in one request's hands, or is one value's token, or is
lost (`Numbered`); a request that lost the race for a value will find the
winner's token (`Returned`); keys live as long as anyone tokenizes, unless a
request outlived its session (`Lasting`); what was sent is in the vault, unless a
merge overwrote another (`Kept`). Every map that a request holds, or Redis, gives
a token the value it was minted for (`Handed`), even after lost updates: this is
what keeps individuals apart.

`ChatGatewayProofs` proves, for any callers, sessions and requests in flight and
prompts of any length, type correctness (`TypeCorrect`), that what leaves is
tokenized (`PromptsAreTokenized`), the owner's on a token that was good
(`PromptsAreTheOwners`), guarded (`PromptsAreGuarded`), and that a request that
ends refused for its token or session, answered, or with something detected in it
is on record (`OutcomesAreOnRecord`; section 3 says which refusals are not). The properties speak of prompts that have left; the
inductive invariant `GatewayInv` says of a request at each await what has been
established by then (`Owned`, `Current`, `Guarded`, `Masked`, `OnRecord`), and of
a session that its owner, once there is one, is who configured it. That a check
made early still holds when the prompt leaves, three awaits later, follows from
two facts of the steps of others: a creator is never rewritten and a revocation
never undone (`OthersChange`).

`GovernanceWritesProofs` proves, for any writes of the three clients, reads and
number of retries: `TypeCorrect`; `WritesRecordedOnce` (a key is recorded only when
it was unseen and every request of a write bears its one key; a write without a key
has one request); `WritesNotLost`, `[]NothingLost` (a 2xx, parsed or not, is only on
its way once its write is on record, so that a write is missing only if it was
dropped or, in the gateway's client, swallowed); and `ClientsKeepLedger`, that
`GovernanceWrites` implements `GovernanceLedger`: each step maps to a step of the
ledger or a stutter under `Outcome`.

`GatewayPartsProofs` proves two things of a redacted message, for messages of any
length and characters, any spans and scores, any role and any minted token map.

- `ClearHolds`: `[]ClearOnlyIfOutbid`. Sorting neither loses nor adds a span and
  puts no score before a higher one (`SortedByScore`); of the sorted spans, a kept
  one overlaps none kept before it, and one that is dropped overlaps a kept one
  that came before it (`KeptOnes`, over the positions of the loop). `ReportedInv`:
  what was reported are spans of the message. That the message sent is the message
  with exactly the kept spans replaced is part of `RedactionInv`.
- `ReadingHolds`: `[]ReadsAsWritten`. `RedactionInv` describes the message between
  two replacements: symbol by symbol it is what it was, but that each kept span
  already done stands as its token (`SentPieces`), and every such token is in the
  map with the value the span covers (`Replacing`). Only spans further left remain,
  because `NextSpan` is the one furthest right: this is why positions taken from
  the original message still fit the shortened one. One replacement is one step of that
  description (`CutPieces`). Restoring distributes over the pieces of an answer
  (`ForRoleConcat`, `ForRoleFlatten`), a token is restored to its own value and,
  if no value holds a token, no further (`ForRoleOne`), a new token is above all
  of its type and so none of the map's (`NextIsAbove`), and what is not a token of
  the map stays (`ForRoleSelf`).

Of the rotation of secrets it proves, for any number of instances, tokens, secrets and any
lifetimes: `TypeCorrect`; `RevocationHolds`, `[]RevokedStaysOut` (`Outlived`: a
denylist entry lives as long as its token); and, for a grace of at least a
token's, or a session's, life, `GraceKeepsTokens`, `[]RefusedOnlyByOlder`, and
`GraceKeepsVault`, `[]UnreadableOnlyToOlder`. Their invariants (`SigningFleet`
and `InFlight`, `VaultFleet` and `AtRest`) say which secrets an instance of a
given age knows, and until when a secret out of use is kept.

`WebConsoleProofs` proves of the composed console, for any users, personas, dates,
URLs and calls under way: `TypeCorrect`; `SpinnersHaveCalls` (`[]BusyHasCall`);
`LaunchesFit` (`[]LaunchFits`); `PersonaIsTokens` (`[]ShownRoleIsTokens`);
`TurnsInContext` (`[]AskedWithThread`); `LogIsOfDate` (`[]LogsOfDate`). The properties
speak of what is shown; the inductive invariant `Inv` relates it to the calls
under way. `HomeInv` says that a call whose page is open belongs to the page that
is open, so that no answer is applied to another page's state: type correctness
of `ui` needs it. `PlaceInv` and `KeyInv` follow model, list, place and key
through the three steps of the set-up; `SwitchInv` ties the one persona switch
under way to the role it leaves and the role shown; `TurnsInv` says that at most one
message is under way and that its request holds, right before the message, the
thread as it is now (empty once New Chat has cleared it); `DateInv` ties the fetch under way to
the date shown. Each action is one lemma, and one more each says what a step
leaves alone that stays on its page (`OnSetupPage`, `OnChatPage`, `OnAdminPage`,
`OnFormPage`), leaves it (`Elsewhere`) or is of a call whose page is gone
(`Aside`).

`WebPartsProofs` proves of the waitlist `LimitHolds` (`[]AtMostTwice`), for any
limit, window, number of visitors, posts and restarts: each accepted post is in
the window of one first post, windows of an address lie apart, and no two posts of
a window have one number (`WindowInv`); what the map holds is the last window
(`HitsInv`). A stretch as long as a window then meets two of them, and the posts
in it map one to one into `1 .. 2 * RateLimit - 1` (`FewWithin`).

Of the browser's tokenizer it proves, for any words, texts of any length and any
number of them: `NamesReplaced` (`[]NamesAreTokens`), `ValuesHaveTokens`
(`[]SameValueSameToken`) and `TextsRestored` (`[]RoundTrip`). The scan for names,
the assignment of tokens, the pieces and `FlattenSeq` are recursive functions. Each
is shown to exist, and to have its property at every position, by the least
position at which it would not (`LeastNumber`); no induction theorem is
instantiated. The core of `NamesReplaced` is about the scan alone: it comes by the
first word of every run (`ScanComesBy`), and what it matches there reaches the end
of a run of up to four (`NameIsFound`). All three use the inductive invariant
`TokenizerInv`: keys and tokens of the vault are one to one, a token is of its
type and at most its counter, it restores the value of its key (`VaultOK`), and
every result since the reset is still what the vault would make of its text
((`ResultOK`, because the vault only grows: `Grows`).

Of the detectors it proves `AssessmentHolds` (`[]NothingMilder`), for any
registered detectors, severities and texts: each pattern that matches is a finding
(`FoundIn`), each failure another (`OutcomeIn`), and what the aggregation carries
from finding to finding is at least as bad as all before it (`WorstExists`,
`RiskIsWorst`). `AssessmentInv` ties an assessment to detectors that have all
settled and settle no more.

Of the dataset it proves `DatasetHolds` (`[]DatasetAsWritten`), for tables of any
rows, cells and characters. The core is `FileRead`: `ParseCSV(File(table)) =
table` for every table without newlines, spaces at a cell's edge and empty lines.
`FlattenPlaces` says where the pieces of a text end up, and `SeparatedParts` where
the cells of a line and the lines of a file do. From the start of a cell the
parser, whether the cell is quoted or not, comes to its end with that cell read
and outside of quotes (`PlainParsed`, `QuotedParsed`: two quotes in a row are one,
a last one before a comma or the end closes), so that every comma it meets next is
a separator (`RowParsed`). Lines come apart only where they were joined
(`LinesFound`), and trimming takes nothing from a line that begins and ends with a
letter, a comma or a quote (`PartsInked`): this is where a row of one empty cell
has to be left out. `DataInv` says that a dataset is what its file is read as.

Assumptions: those of the modules. Bounds are natural numbers; at least one day, a
retention, a TTL, a window and a limit of at least one; lifetimes are natural
numbers; the console has a URL and a date. `Absent`, `Nobody`, `None`, `Nil` and
"none" are none of the values they stand beside; a word that is not of the kind
"token" does not read like one; a table's characters include the four that matter;
a finding has one of four severities; a session's token map is minted (section 2).
Bounds occur only in guards, so the theorems hold for every value of them. The
grace is a premise of the two theorems that need it.
Conditions such as "no overlap" are part of the properties, and section 5 shows
runs in which they fail.

Loops and folds. The prover instantiates no theorem whose parameter is an
operator, so induction is by the least position at which a property would fail
(`LeastNumber`, `Upwards`), a recursive function is first shown to exist
(`RecursionExists`), and the fold behind `FlattenSeq` is unfolded once
(`FlattenedBy`). `luhnValid` stays a fold of the community modules, about which
the theorem of the detectors needs nothing.

Only model-checked: liveness (`LoggedIsMirrored`, `EveryCallEnds`), which is out
of this prover's reach, and the violations of section 5, which are
counterexamples.

## 5. What the modelling found

Shown by a run:

- `log_event` reads the tip several round trips before it advances it. Two
  overlapping calls, in one process or two, fork the chain, and `verify_chain` of
  an untouched log is false from then on (`chain_overlap`).
- A deleted day is invisible to `verify_chain` of the next, which starts from its
  own stored genesis (`loss_day`); an anchor that missed nothing still has its
  entries (`AnchorsOutliveRedis`).
- Concurrent `update_token_map` calls lose tokens whose prompt is already on its
  way (`vault_lost`).
- A request whose provider call fails after the prompt has left writes no event
  if the prompt had no identifiers (`chat_unlogged`; `README.md:45` of the
  repository has every request in the audit log).
- From the second message of a conversation on, the inspector shows the first
  message as what the model received (`console_inspector`).
- New Chat clears the turns but not the message on its way, whose answer puts it
  back and into the next request (`console_newchat`).

Stated as conditions of the passing properties:

- A single call cut short after the day's counter leaves the day failing for good
  ("gapSeq" in `DaysVerify`).
- `FalseIsExplained` allows a false verdict when an entry is appended between the
  reads; `RefusalShows` exists because a restart of Redis can make anchors refuse
  new entries.
- The counter of a session that expires under a request starts again at 1, and the
  request gives a token that the conversation already holds to another individual,
  although `llm_router.py:42` tells the model that a token always refers to the
  same one: the vault's properties end there (`overran`).
- Both Python governance clients return `resp.json()` and catch HTTP errors only: a
  2xx whose body does not parse raises in the caller (`Settle` of the ledger may end
  "raised"), against `governance.py:3` and `governance_client.py:75`.
- A write of the gateway's governance client that fails is lost without its caller
  knowing ("unheard"), as `governance_client.py:10-12` has it.
- While instances restart one by one, one that has not restarted refuses the
  tokens of one that has (`RefusedOnlyByOlder`; the runbook says "zero-downtime",
  `ha-dr-runbook.md:72`). The runbook's grace is a session's life, one hour
  (`:78`), while a token lives four (`config.py:33`) and
  `tests/test_auth_rotation.py:6-7` lets it "keep working until they expire": the
  theorem asks for a grace of a token's life.
- Previous keys of the vault are its own or else the signing secrets, never both
  (`redis_store.py:29-33`), so the first key of the vault's own shuts out a
  signing secret still in its grace (`hidden`).
- Of two spans that overlap in part, what only the loser covers is sent in clear
  (`ClearOnlyIfOutbid`; `OWASP-LLM-mapping.md:12` says "never raw PII").
- The browser's page says "zero raw PII exposed" (`tokenize/page.tsx:276`) of
  texts in which names in runs of more than four words, or behind a phrase that is
  not a name, stay readable (`NamesAreTokens`). `CsvUpload.tsx:337` says that all
  rows are injected, the prompt stops at 200 and says so (`DatasetAsWritten`).
- A persona switch shows its role at once and, if it fails, restores that of the
  render it was called from. With two under way that end in another order, or
  fail, the page is left with a role its token has not (`overlapped` in
  `ShownRoleIsTokens`; `chat/page.tsx:100` says "You're acting as").
- The audit page stores a log whatever date is shown when it arrives, so that a date
  can be shown with another's entries (`overlapped` in `LogsOfDate`), and so it can
  when a check takes down the error of the fetch that failed (`hushed`).
- The other exceptions of the console's properties (section 2).

A persona switch of the chat page mints its token for "ui-user"
(`chat/page.tsx:90`), so that the owner of a session set up by an account cannot
send in it afterwards; the model has it, no property speaks of it.

## 6. What is not modelled

- Accounts: hashing, uniqueness and one commit are the database's; a registration
  that fails after its commit leaves a complete account, and nothing is promised
  of it. The console sees registration and login from outside.
- Provider routing and the address check of provider URLs: HTTP, and name
  resolution that is outside of the code.
- The guards' patterns and severities, the recognizers and the language model
  behind the analyser, the formats of the browser's tokenizer, the classifier's
  lookup: data, not control. Their verdicts are inputs of the models.
- `MultiAnchor.verify_chain`, which names its verdicts by class, and the S3
  listing; the fallback of the audit key to the signing secret, which is one
  expression evaluated at each use.
- The waitlist's `Retry-After`, a figure no step of the code reads; its webhook,
  which nobody waits for.
- Settings panel, guide, activity log and public pages of the console:
  presentation and preferences that no other component reads.
- Integrations, logging, schemas, the evaluation harness and the demo: formatting
  and transport of single values, or not part of the running system.

What is left to prove: liveness, once a prover does it. The theorems about the
parts of `Standalone` are of each part's own specification; that one part runs per
behaviour is a matter of the run, not of the code.
