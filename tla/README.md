# ai-memmail in TLA+

ai-memmail polls mailboxes over IMAP, lets an AI decide what to do with each mail, and replies or
forwards over SMTP; a web panel configures it, hands threads to humans and lets them write mail.
Its state is spread over four places that fail separately: the IMAP mailbox (the `\Seen` flags), the
SMTP server (what was sent), PostgreSQL (what the program believes it did) and the local state of
every process. These modules model how the program keeps them together.

## Components

| Component | State | Operations | Hard behaviour | Correct when |
|---|---|---|---|---|
| Message pipeline (`worker.rs`, `worker/process.rs`, `processing.rs`, `outbound.rs`, `history.rs`, `step_timeout.rs`, `thread_context.rs`) | local state of one run per mail | fetch, claim, scan, quarantine, thread context, handoff, classify, decide, review, send, write status, flag seen | replicas and restarts; crash between send and status; AI timeouts; non-fatal writes | one outbound mail per mail, Seen only after an outcome, failed mail retried |
| Row store (`storage_pg/processing_store.rs`, `storage/value_helpers.rs`) | `processing_runs`, sender reviews | claim by INSERT / SELECT / conditional UPDATE, heartbeat, status, evidence | races between the SELECT and the UPDATE, unfenced writes | a claim is exclusive, finished rows stay finished |
| Inbox access (`mail_external.rs`, `mail.rs`) | none (IMAP, SMTP) | fetch unseen, flag seen, send | ambiguous send, UIDVALIDITY change, unparsable mail, fetch limit | every accepted mail is fetched in the end |
| Sent synchronisation (`worker/sent_sync.rs`, `storage_pg/sent_store_impl.rs`) | cursor, backfill cutoff, sent mails | read cursor, fetch a batch, record it | stale cursor, changed UIDVALIDITY or folder, expanded backfill | no sent mail of the backfill window is missing when the inbox is processed |
| Thread handoff (`worker/handoff.rs`, `web/handoff.rs`, `storage_pg/handoff.rs`) | handoff and delivery rows | begin, send, finish; route later mail of the thread | retried requests, ambiguous delivery, race with the worker's lookup | a handed-off thread gets no automatic reply; one delivery per request |
| Portal (`web/portal.rs`, `storage_pg/portal.rs`) | conversations, revisions, portal messages | open, reply, forward | check-then-act on the revision, crash between insert and send | a request is sent at most once, an operator never answers unseen mail |
| Taxonomy and rules (`storage_pg/classification.rs`, `worker/classification.rs`, `web.rs`) | categories, topics, rules, classification columns of the rows | seed, list, add a label; create, change, delete a rule; match, record | seeding on every request, rules that change under a worker, a recorded rule that is deleted | the first enabled rule in order decides, and history says what decided |
| Configuration (`config.rs`, `web.rs`, the panels under `src/web`) | file, the copy of each process, sessions, forms | login, logout, edit, replace, reload by the worker | concurrent saves, half-written file, redacted secrets | file, copy and worker agree; a save keeps the secrets not typed again, each at its server |
| Migrations (`storage_pg/core.rs`, `migrations/`) | schema, applied versions | migrate at start | two processes at once, crash midway | each version applied exactly once, in order |
| Thread ids and context (`mail.rs`, `storage_pg/core.rs`, `storage_pg/sent_store_impl.rs`) | thread ids in three tables | look up, save at claim and sync, load the history | id computed again later, three statements without one snapshot, mail stored after its answer | one conversation has one thread, and its history is whole |
| Safety rules (`safety.rs`) | none | `decide`, `sender_is_banned` | boundaries of matching | only a safe verdict is answered |
| Process start (`main.rs`) | none | load, migrate, run panel and worker | either one's end ends the other | only a process that migrated serves |
| AI engine (`ai*.rs`), mail composition, logging, prompts, the rest of the React panel | none the others read | calls, formatting | provider errors | data, see "Not modelled" |

`main.rs` migrates, then runs the web server and the worker in one process; replicas share PostgreSQL
and the mailbox. Worker and web handlers meet in the tables (handoffs, conversations, rules) and in the
configuration file. The worker gates the inbox on a completed Sent sync, then processes one mail at a
time; every `await` on AI, database, SMTP or IMAP is a point where another process may run and where
this one may die.

## Modules

| Module | What it is |
|---|---|
| `MessageWorker` | the pipeline for one mailbox: workers, rows, flags, faults |
| `OutboundPromise` | the abstract specification of what the pipeline owes for each mail |
| `MCMessageWorker` | `MessageWorker` for TLC, with four configurations |
| `MessageWorkerProofs` | the inductive invariant and the safety theorems |
| `MessageWorkerRefinement` | `MessageWorker` implements `OutboundPromise` |
| `SentSync` | the synchronisation of a mailbox's Sent folder, which gates its inbox |
| `MCSentSync` | `SentSync` for TLC, with three configurations |
| `SentSyncProofs` | the inductive invariant and the safety theorems of `SentSync` |
| `ThreadHandoff`, `MCThreadHandoff` | handing a thread to a human: the web handler, and the worker that routes later mail |
| `ThreadHandoffProofs` | what a handoff guarantees, for any handlers, workers, requests and repetitions |
| `Portal`, `MCPortal` | operators who answer and forward conversations while mail is claimed |
| `PortalProofs` | what the portal guarantees, for any windows, workers, requests and repetitions |
| `Migrations` | the advisory lock, the ledger and the loop over the versions |
| `ConfigSecrets` | redacting secrets and restoring them, as operators on configurations |
| `ConfigUpdate` | the file, the copies in memory, sessions, saves and polls |
| `Service`, `MCService` | the process of `main.rs`: composes `Migrations` and `ConfigUpdate` |
| `ServiceProofs` | what the migrations and the configuration guarantee, for any processes, builds and windows |
| `RuleBook`, `MCRuleBook` | the classification rules: panel, seeding, matching and history |
| `RuleBookProofs` | what rules and history guarantee, for any windows, workers, mails and labels |
| `ThreadIndex`, `MCThreadIndex` | thread ids and the histories loaded by them |
| `ThreadIndexProofs` | one thread per conversation and whole histories, for any number of workers and mails |

The modules cut the program along its tables. `MessageWorker` is the whole of `process_message` for one
mailbox, with the handoff, the rules and the thread as outcomes of one step each; `ThreadHandoff`,
`RuleBook` and `ThreadIndex` open one of these steps and keep the rest of the pipeline in brief (claim,
failure, retry). `SentSync` ends where `MessageWorker` begins. `Service` composes what shares a process.

### MessageWorker

A worker is one process. Its variables are the local variables of `process_mailbox` and
`process_message`: `batch` (the fetched mails not yet started), `msg` (the mail being processed), `pc`
(the await it stands at), `kind` and `goal` (the outbound mail to send and the status to write after it)
and `read` (the status `claim_message` selected). The shared variables are the columns of
`processing_runs` that decisions read (`status`; `stale`, that `updated_at` is older than three minutes;
`run`, the claiming worker; `safety`, the recorded verdict), the sender reviews (`review`) and the
`\Seen` flags (`seen`). `handled`, `replies`, `forwards` and `blame` are history: what was decided, what
SMTP accepted, and which mishaps befell a mail. No guard reads them.

| Actions | Code |
|---|---|
| `FetchUnseen`, `StartMessage` | `process_mailbox`, `precheck_sender` |
| `ClaimInsert`, `ClaimSelect`, `ClaimReclaim`, `ClaimError` | the queries of `claim_message`, and `claim_before_side_effect` on their answers |
| `SafetyScan`, `RecordQuarantine` | the scan with `record_safety_result_for_history`; `record_quarantine_state` |
| `LoadThread`, `RouteHandoff` | `load_thread_context_or_retry` and the handoff lookup; `route_active_thread_handoff` up to the send |
| `Classify`, `RuleDecision`, `AgentDecision`, `OutboundReview` | the AI steps and their outcomes |
| `RecordOutbound`, `Send`, `UpdateStatus`, `MarkSeen` | `send_and_mark_seen`, and the ends of the other branches |
| `Heartbeat`, `Expire`, `Overrun` | `touch_processing` in `run_ai_step`; three minutes without a write to the row |
| `Crash` | the process dies and starts again |

What an AI step answers is a choice among the outcomes its caller tells apart: a verdict, a decision, a
context limit, a missing prompt, an error or timeout. The configuration may change between polls, so the
ban of a sender is a choice at each attempt. A write that is only logged when it fails may fail at any
time. Faults (`Fault`) draw on a budget `MaxFaults`; mail bodies, prompts, logging and message ids are
left out.

### SentSync

One mailbox, several processes. A worker's variables are the locals of a poll: `conf` (the configuration
it loaded), `cursor` (the row it read), `want` (the cutoff it computed from the clock) and `batch` (what the
search returned, with `since`, the date searched from). Shared are the row of `mailbox_sync_state` (`row`)
and `sent_messages` (`recorded`). The world is the date of each UID of each Sent folder, the clock, and the
configuration. `owed`, the window's mails at the time of the search, and `raced` are history.

| Actions | Code |
|---|---|
| `Poll` | the loop of `run` loads the configuration; a window of 0 days skips the sync |
| `ReadCursor` | `sent_sync_state`, and the cutoff from the clock |
| `FetchSent` | `fetch_sent_with_session`: `sent_sync_range` (`Resumes`), `sent_uid_query` (`Found`), sort and truncate (`Firsts`) |
| `InsertSent`, `SaveCursor` | the two halves of `record_sent_batch_impl` (`Merged` is the upsert), and the gate in `run_once_with_store` |
| `ProcessInbox` | `process_mailbox`, which is `MessageWorker` |
| `Crash`, `Arrive`, `Tick`, `Edit` | a process dies; a mail appears in the folder, of any date up to now; time passes; an operator edits the window, or the folder is replaced or renumbered |

A folder stands for a name with its UIDVALIDITY, because the code only ever compares the two together.
SINCE compares days, while the cutoffs are seconds, so a day has `DayLength` ticks and a mail is in a
window when it is not before the cutoff's day. Every database or IMAP call may fail, the inserts at any mail.
The column `initial_backfill_complete` is kept although nothing reads it: the gate uses the batch alone.
Left out: mail expunged between search and fetch, Sent mail that cannot be parsed (it fails every fetch of
its range, so the inbox stays closed), and UIDs at the top of their 32 bits.

### ThreadHandoff

One thread, the web handlers (`Operators`) and the workers. An actor's variables are its position (`step`)
and its locals: the `request` id and which attempt at it this is (`try`), the human (`to`), whom he is to
answer (`target`), the mail the sent text ends with (`about`), and the `mail` a worker handles. Shared are
the thread's rows (`rows`, with sender, verdict and status), the row of `thread_handoffs` (`handoff`) and
the rows of `thread_handoff_deliveries` (`delivery`). `outbox` is what SMTP accepted.

| Actions | Code |
|---|---|
| `Validate`, `ReadTarget`, `LoadThread` | the checks of `create_handoff`, `latest_thread_remote_target`, the thread and `handoff_action` |
| `OpenDelivery`, `SendHandoff`, `CloseDelivery` | `begin_thread_handoff_delivery` (`BeginDelivery`), the send, `finish_thread_handoff_delivery` (`FinishDelivery`) |
| `ClaimNew`, `ClaimAgain`, `ScanMail`, `LookUp`, `Decide` | the worker's run up to and after `active_thread_handoff` |
| `OpenRouting`, `SendRouted`, `CloseRouting`, `RecordStatus` | `route_active_thread_handoff` |
| `Interrupt`, `FailMail` | a query that fails, a client that goes away, a process that dies |

Begin and finish are transactions and one step each; every other statement is its own. A window may send
a request again at any time, also under another human's name, and two windows the same one at once.
`excused` and `blame` are history. Handoffs of different threads share no row, so there is one thread.

### Portal

A window shows a conversation (`view`: the revision it read and, by a later statement, the mails) and has
at most one request under way (`form`). `known` is what the handler had to know of when it checked the
revision, `quoted` the timeline it read after that. Shared are `email_conversations` (`conv`: revision and
thread id), `portal_messages` (`message`) and the rows of mails. Mails are claimed meanwhile: the row
first, the revision in a later statement; `behind` are the mails between the two. `cut`, the requests one of
whose handlers ended before it had written the status, is history.

| Actions | Code |
|---|---|
| `OpenSummary`, `OpenTimeline`, `Submit` | the window: `portal_conversation_detail`, and a request under an id of the window's |
| `Check`, `LoadTimeline`, `CreateChild` | the revision check of `send_portal_message`, `prepare_reply` and `prepare_forward`, `create_child_conversation` |
| `InsertMessage`, `BumpBegun` | `begin_portal_message`: the insert under the request's id, and the revision |
| `SendComposed`, `FinishMessage`, `BumpFinished`, `BumpSource` | the send, `finish_portal_message`, and the revision of the conversation a forward came from |
| `ClaimInsert`, `ClaimAgain`, `ClaimBump`, `Scan`, `FailMail` | `claim_message` and the scan, as far as conversations see them |
| `Interrupt` | the handler ends at any await |

### Migrations, ConfigUpdate and Service

`Migrations` has one variable per session state (`stage`, `version`, the ledger as it was `seen`), the
advisory lock (`holder`) and two views of the database: `schema`, the SQL that took effect, and `ledger`,
what `schema_migrations` says of it. SQL text is a value; a checksum stands for the text it is taken of, so
builds that edited or added a version are sequences that differ. A session that died keeps the lock until
the server notices (`EndDeadSession`).

`ConfigSecrets` has `redacted` (`Redacted`), `preserve_redacted_secrets` (`Preserved`, with the
guess at renamed servers, `Renamings`) and `validate` (`Valid`) as operators. `ConfigUpdate` has the file
(`file`, which a writer truncates and then writes), the copy of each process (`memory`), what its worker
connected with and last polled with (`running`) and the windows: sessions (`live`), the form and the copy it
was made from (`base`), and the request (`handler`, `draft`). A worker connects to PostgreSQL once, with the
file as it is when the worker starts (`StartWorker`); a poll takes everything else from the file and keeps
the connection (`Poll`).

A form is edited as the panels of `src/web` allow: the database password is typed; a server is renamed,
removed or added (`EditServers`); a variable of a server gets a value, another name with what it shows, or
goes away (`EditVariables`); a mailbox gets another id, password or servers, goes or comes
(`EditMailboxes`). A variable whose name `is_sensitive_env_name` does not take for a secret (`Variables \
Sensitive`) is shown as it is. The operator types secrets and never the placeholder. Every mailbox of the
model is an enabled one; switching one on or off is not modelled, and a mailbox that is added comes with its
password. What a field holds between two keystrokes is not a state of the form, and neither are two
mailboxes of one id, which `validate` refuses.

| Actions | Code |
|---|---|
| `StartMigration`, `TakeLock`, `ReadLedger`, `CheckVersion`, `RunMigration`, `Unlock` | `migrate`, `apply_migrations`, `validate_applied_migration`, `apply_pending_migration` |
| `LoadConfig`, `StartWorker`, `Poll` | `main`, `run` of the worker, one turn of its loop |
| `Login`, `Logout`, `OpenForm`, `EditForm` | `/api/login`, `/api/logout` or an expired session, `GET /api/config`, the operator |
| `BeginSave`, `Truncate`, `WriteFile`, `FailWrite`, `Remember` | `replace_config`, with `sanitized_for_save` and `save` |
| `Boot`, `Migrate`, `Launch`, `Exit`, `Crash`, `Panel`, `DiskFull` | `main`, which composes the two |

`Service` puts them into one process: what makes the worker return ends the panel too, so a worker that
reads a file a save has just truncated ends the process. `mishap`, `beside`, `apart` and `cause` are history.

### RuleBook

Windows show a `list` of rules and labels and press one button at a time; each request of the panel is a
write, the seeding of the default policy, and the list, three steps. Workers poll (seeding first), take a
mail, classify it (`found`), match it (`matched`), check the prompt and record. Shared are the labels, the
rules with their ids and the unique index on default names (`Clashing`), and the classification columns
of `processing_runs` (`history`), whose rule id is a foreign key. `outcome` is what was really decided.

| Actions | Code |
|---|---|
| `OpenRules`, `SeedForPanel`, `ListRules`, `AddLabel`, `CreateRule`, `UpdateRule`, `DeleteRule` | the handlers of `web.rs` on `storage_pg/classification.rs`, `ensure_default_classification_policy` |
| `Poll`, `SeedForPoll`, `SeedFails`, `Take`, `EndPoll` | `process_mailbox` |
| `SkipClassification`, `Classify`, `ClassifyFails`, `Match`, `CheckRulePrompt`, `Record` | `classify_message_for_rules`, `find_matching_email_rule`, `record_email_classification_for_history` |
| `RulePromptGone`, `Answer`, `ForwardTooLong`, `GiveUp` | the decision of `process_message` and its failures |

### ThreadIndex

A mail is its number in the order of composition, with the mail it answers, its References and the `root`
of its conversation, which no code reads. Correspondents and the owner use clients of two habits: full
References, or In-Reply-To only. Three tables hold thread ids: `runs` (with the id of the reply and a
coarse state), `sent` and `portal`. A worker does one job at a time, a claim, the sync of a Sent mail, or
the loading of a context; each looks the thread up again (`found`), and `history` is what it has read.

| Actions | Code |
|---|---|
| `MailArrives`, `OwnerWrites`, `CopyToSent` | the world |
| `LookInRuns`, `LookInSent`, `LookInPortal`, `Thread` | the statements of `thread_id_for_message`, and `MessageMetadata::thread_id` (`Fallback`) |
| `Claim`, `SaveRun`, `Scan`; `SyncSent`, `SaveSent` | `claim_message`, the verdict; `record_sent_batch_impl` |
| `ReadRuns`, `ReadSent`, `ReadPortal` | the statements of `load_thread_messages_impl` |
| `ComposeReply`, `RecordOutbound`, `SendMail`, `MarkRun`, `GiveUp` | the reply with its References (`ReplyRefs`), `send_and_mark_seen`, and every way to fail |
| `PortalReply`, `PortalForward`, `PortalAccepted`, `PortalFinish` | `prepare_reply`, `prepare_forward`, the send and its result |

`astray` are the conversations one of whose mails was looked up before anything it names was recorded, when
the mail alone does not tell the root; `due` is what a history should hold.

## Runs

| Run | Instance | Shows |
|---|---|---|
| `worker_pair` | 2 workers, 1 mail, 2 faults | `ExclusiveClaim`, `DuplicateNeedsCause`, `SeenNeedsOutcome`, `EvidenceAgrees`, `FinishedStaysFinished`, `KeepsPromise`, `EventuallySeen`, `TypeOK` |
| `worker_batch` | 1 worker, 3 mails (one oversized, one asking for a human), 2 per fetch, 2 faults | `SeenOnlyWhenHandled`, `EventuallyHandled` |
| `worker_duplicate` | 1 worker, 1 mail, 1 fault | violation of `NoDuplicateReplies` |
| `worker_lost_claim` | 2 workers, 1 mail, 2 faults | violation of `FailedMailStaysUnseen` |
| `sent_solo` | 1 worker, 2 folders of 2 mails, windows of 0 to 2 days, 2 ticks a day, 2 edits, 1 fault | `HistoryBeforeInbox` |
| `sent_pair` | 2 workers, 1 folder of 2 mails, windows of 1 and 2 days, 1 edit, 1 fault | `HistoryUnlessRaced`, `CursorCovers`, `InboxReached`, `TypeOK` |
| `sent_race` | 2 workers, 1 folder of 3 mails, 1 edit, no fault | violation of `HistoryBeforeInbox` |
| `handoff` | two requests and a routing worker; one request, two workers, 1 fault; one request sent 3 times from 2 windows, 2 faults | `AnsweredOnlyIfOvertaken`, `ResentNeedsCause`, `ActiveIsDelivered`, `HandoffMailHidden`, `MailSettles`, `TypeOK` |
| `portal` | one request sent 3 times from 2 windows, 2 faults; 2 requests while a second mail is claimed | `SentOnce`, `StatusIsTrue`, `ForwardLandsInChild`, `SeenWhatWasClaimed`, `OneReplyPerView`, `TypeOK` |
| `service` | 2 processes of 3 builds start, 2 faults; 2 windows save on one process after 2 edits of servers; 1 window saves on two processes after an edit of the database password; 1 save after an edit of a server, 1 fault; 1 save after 2 edits of servers and 1 of a variable, or 2 of mailboxes; a configuration of two servers, one with a secret more, the other with a plain variable | `LedgerIsHistory`, `ServesOwnSchema`, `PlaceholderNeedsCause`, `SecretsStayHome`, `PanelShowsFile`, `SavedTakesEffect`, `TypeOK` |
| `rulebook` | 1 window, 1 worker, 1 mail tried twice, 1 fault; 2 workers, a mail that asks for a human; 2 windows, 2 writes, 1 fault | `HistoryAgrees`, `MarketingIsDeclined`, `TypeOK` |
| `threads` | an exchange with the owner's own mail; one with a reply and 1 fault; one with a portal reply; one with a forward; 2 workers | `OneThread`, `ContextWhole`, `TypeOK` |

The bounds. Rows of different mails do not interact except through one worker's batch, so a race needs
one mail and two workers, and the batch needs one worker and more mails than a fetch takes. Two faults
are enough for each property's interesting case: a failed attempt and a lost claim, a crash and a lost
evidence write, two ambiguous sends. Deliveries of a mail are counted up to two (`Bump`), because no
property asks for more. `FetchLimit` is 10 in the code and 2 in `worker_batch`, so that a second fetch
is needed. Deadlock is checked: a poll that finds nothing is a step that changes nothing.

In the Sent runs `BatchSize` is 1 (200 in the code), so two mails already make a backfill of two batches,
with a cursor between them. A mail may arrive later with an earlier date, so two mails are enough for a UID
order that is not the date order, which is what a widened window has to go back for. Two edits let the
window or the folder change twice, there and back; one suffices where two workers disagree about it.

The five other modules meet more kinds of actors than one instance can hold. Their constant `Bounds` is a set
of records, and `Init` chooses one (`bound`, which never changes), so that one run covers several small
instances, listed in the table, each made for a question: what needs two requests rarely needs a third
attempt at one of them. The definitions are in the MC modules with a comment each. `portal` takes its two
windows as symmetric, `threads` its two processes. In `threads` two mails of the correspondent and up to two
others are enough for a mail to be stored after its answer, answered by each kind of sender, and read back
from each table; a third generation repeats what the second did, because an id is looked up through one
generation only.
Attempts and mails are cut where a further one finds the row in a state already covered. In `service`
every process has one of three builds, one that adds a version and one that edited a version, which are the
ways two builds can disagree at a version. Its edits are bounded by kind, since the sections of a form are
restored apart. Two edits of servers rename both, or remove one and give the other its name: the guess at a
renamed server is refused only when two candidates meet, and one of the two servers has a secret the other
lacks, so that a name or a variable may be one its server has no old value for. A third edit, of a variable,
leads to a placeholder that is restored from the wrong server. Two edits of mailboxes give one another id
and change or add one. Where two windows or two processes save, and where a save is cut short, it matters only
that the forms differ, and one or two edits of one kind do that.

Fairness (`FairSpec`). `WF_vars(Progress(w))`: a process keeps polling and each await returns. The loop in
`run` never ends by itself, and an AI step ends by its 90 second timeout. That IMAP, SMTP and PostgreSQL answer,
or fail, is an assumption about the environment: the code gives these calls no timeout of its own
(`mail_external.rs:283-307` for IMAP), so a server that holds a connection open and says nothing stops the
worker, and then no liveness property holds. `WF_vars(Expire(m))`: time passes, and nobody but a holder
writes an abandoned row. No fault is ever obliged to happen, and after the last one of the budget the system
must recover by itself.

`SentSync` assumes the same of its processes, `WF_vars(Progress(w))`, with the same assumption about IMAP
and PostgreSQL, and nothing of mails, days or edits. `ThreadHandoff` assumes it of its workers, with the
same assumption, and nothing of operators.
`Service` assumes that a started process goes on (`Run`), that its worker polls (`PollOnce`), that a request
runs to its end (`SaveStep`) and that PostgreSQL notices a dead session. The lock needs strong fairness: it
is taken and released for ever by others, and PostgreSQL grants an advisory lock in the order of the
requests, so whoever waits gets it. Nobody has to start a process, repair the file or use the panel.
`SavedTakesEffect` is what this is for.

### What the violations say

`worker_duplicate`: README.md:163 says repeated polls do not send duplicate replies. The mail goes out
before the status is written. In the trace SMTP returns an error although the server took the mail: the row
says `send_failed`, the next poll claims it again, and the mail is answered a second time. A crash between the
send and the status ends the same way, one step later: it leaves a row in `processing`, which is reclaimed
when it has been stale for three minutes. `DuplicateNeedsCause` says that these two, a lost status write and a
step slower than the stale window are the only causes.

`worker_lost_claim`: two replicas select the same failed row, `retryable_failed` in the trace, `send_failed`
as well. The second UPDATE finds the row in `processing` and matches nothing, and `claim_message` then answers
from the status it had selected. Either status counts as already finished, so the mail is flagged seen while
the first replica is still retrying it; when that retry fails, no later poll fetches the mail, contrary to the
tests
`send_failure_does_not_mark_seen` and `send_failure_can_be_retried_by_later_poll`. With one process
polling it cannot happen (`SeenOnlyWhenHandled`, `worker_batch`).

`sent_race`: README.md:173 says that the inbox is closed while the history is incomplete. The cursor row
is not locked between its read and its write, and the merge takes the greater UID whatever date a batch was
searched from. A worker with the old configuration searches its short window; the window is widened; a
second worker starts the long backfill over from UID 0 and saves its first batch; then the first worker's
batch moves the cursor of the long backfill past mails of which nobody has searched. The next search finds
nothing more, counts as complete, and opens the gate. `HistoryUnlessRaced` says that this is the only way,
and `sent_solo` that it takes two processes.

### What the passing runs leave open

Most of the other properties say "unless": what they except does happen, and the runs show it when the
exception is taken out. No document speaks of these cases except where quoted.

- Handoff. A worker that looked before the first handoff row was written still answers
  (`AnsweredOnlyIfOvertaken`). A retried request mails the thread again after an error or a cut
  (`ResentNeedsCause`), and that second mail has a message id no delivery row names, so its Sent copy shows up
  in the AI's history (`HandoffMailHidden`). One request id sent for two humans mails the second and makes the
  first the destination (`ActiveIsDelivered`). The mail tells the human that replying addresses the latest
  remote sender (`worker/handoff.rs:63`), but a routed mail carries the remote target that was stored with the
  handoff (`worker/handoff.rs:172`), whoever wrote since.
- Portal. The conflict "conversation changed; refresh before sending" (`web/portal.rs:102`) covers what was
  claimed before the check; a mail claimed between the check and the timeline is quoted, and may be the parent
  of the reply, although the operator never saw it. Two windows that both pass the check both send.
- Configuration. The worker loads the file before every poll, but connects to PostgreSQL once (`worker.rs:58`),
  so an edit of the database settings needs a restart, and `SavedTakesEffect` is about everything else; a lost
  connection needs one too. While a save has the file open, a worker that loads it stops the process. Six
  kinds of forms store the placeholder or move a secret, each a cause in `PlaceholderNeedsCause` or
  `SecretsStayHome`: one loaded before another save (`stale`); one that gives a server the name of another
  (`reused`); one with two servers to guess at, or one to guess at and two gone (`several`); one with a hidden
  password under another mailbox id (`mailbox`); one that gives a hidden variable another name, which
  `McpServersPanel.tsx` allows and `config.rs:311` finds no current value for (`rekeyed`); and one that does so
  in a server that has a new name too while another server goes, where the guess can take the server that
  went for the renamed one and give its secret to it (`moved`).
- Rules. README.md:226 has one default rule that operators may edit. The seeding looks for it by name and
  category, so renaming it, even when it was switched off first, brings a second, enabled one with the next
  poll; `MarketingIsDeclined` is about the opposite, the rule missing. `email_rule_mailbox_seeds` is written
  and never read. A rule deleted between match and record makes the write a foreign key error that is only
  logged; the row of an older try, if there was one, then stands for a decision it did not make (`unwritten`).
- Threads. README.md:176 has Message-ID, In-Reply-To and References link mails "into one mailbox-scoped
  canonical thread". An answer that names only its parent and is recorded before it (a Sent mail stored
  later) gets a thread of its own, and so does one that answers a reply of an attempt whose id a second
  attempt overwrote (`astray`). A portal reply that the provider also files in Sent is read twice.

## Proofs

TLAPS checks, for every set of workers and mails and every fault bound, under `WorkerAssumption` alone
(UIDs are positive, the special mails are mails, the bounds are numbers):

| Theorem | Statement |
|---|---|
| `TypeCorrect` | `Spec => []TypeOK` |
| `ClaimIsExclusive` | `Spec => []ExclusiveClaim` |
| `DuplicatesHaveCause` | `Spec => []DuplicateNeedsCause` |
| `SeenHasOutcome` | `Spec => []SeenNeedsOutcome` |
| `EvidenceIsRecorded` | `Spec => []EvidenceAgrees` |
| `FinishedIsFinal` | `Spec => FinishedStaysFinished` |
| `PipelineKeepsPromise` | `Spec => KeepsPromise` |

None of the invariants is inductive by itself. `IInv` adds what makes them so:

- `MsgOK`, `PlanOK`: a worker names a mail exactly while it is inside `process_message`, and what it plans
  to send and write fits the step it is at;
- `LeaseOK`: unless a step outlived the stale window, the row of a mail that is held is in `processing`,
  fresh, and carries the holder as its run. Only failed and stale rows are taken, so nobody takes this one
  and the row names at most one holder. `ExclusiveClaim` follows;
- `HandledOK`: an outcome precedes the finished row, the acknowledging step and the flag, with the lost
  claim as the only other way to it;
- `CountOK`: a mail without a cause of duplicates was sent at most once, and if it was, its row is finished
  or its one holder is about to write so. The lease is needed here: without it, a second worker might stand
  before its own send;
- `EvidenceOK`: what the holder learnt from the scan is in the row.

Types are proved first, with one lemma for each way an action moves a worker. Each later conjunct is one
lemma with one step per action. The refinement maps answered and repeated to the delivery counts,
concluded to `handled`, acknowledged to `seen`, and excused and misled to the causes in `blame`; each
action is one step of the promise or a stutter, and only `Send` needs the invariant (`DeliverPosts`).

For `SentSync`, under `SyncAssumption` (the batch size and the day are positive, the windows fit before the
first tick), for every set of workers and folders:

| Theorem | Statement |
|---|---|
| `SyncTypeCorrect` | `Spec => []TypeOK` |
| `CursorIsCovered` | `Spec => []CursorCovers` |
| `InboxHasHistory` | `Spec => []HistoryUnlessRaced` |
| `AloneHasHistory` | `Alone => (Spec => []HistoryBeforeInbox)`, `Alone` for one process |

The invariant (`IInv`) follows a batch. `Covers(c)`: every mail the cursor `c` promises is stored; it holds
of the row and of the copy a worker read. `BatchOK(w)`: once the batch is stored too, nothing is missing
up to its last UID from its date on, and if it is complete nothing is missing of the window. `FetchCloses`
makes the second from the first: what the search skipped lies behind the cursor, and the cut batch has no
hole (`FirstsHaveNoHole`). `MergeCovers` leads back: the upsert moves the cursor only over what the batch
covers, or `Overtakes`, which sets `raced`. `Grows` carries all of it over the steps of others: nothing
stored is lost, and mails that arrive have higher UIDs. Alone, the cursor a batch was searched from is
still the row it is merged into (`Undisturbed`), so no batch overtakes.

For `Service`, under `BuildsAssumption` and `ServiceAssumption`, for every set of processes and any builds
(each a sequence of versions; two builds may differ in what a version runs):

| Theorem | Statement |
|---|---|
| `LedgerIsTrue` | `Spec => []LedgerIsHistory` |
| `SchemaIsOwn` | `Spec => []ServesOwnSchema` |
| `OneMigrates` | two processes in the migration loop are the same process, in every state |

`MigrationInv` is the invariant of the migrations alone. `LockOK`: who stands between lock and unlock is the
holder of the advisory lock, so only the holder changes the ledger and the schema. `LedgerIsHistory` is part of
it, as the SQL of a version and its row take effect together. `LoopOK`: below the version a process has reached,
the schema is the one its own build describes (`Matches`): what it read in the ledger is still there, as nothing
is ever deleted from it, and what was missing it ran itself. At the end of the loop this is `ServesOwnSchema`.
`ServiceMigrates` shows that every step of `Service` is a step of the migrations or leaves them alone, which
carries the invariant over to the composition.

For `Portal`, under `PortalAssumption` (the root conversation is no request, the bounds are numbers), for every
set of windows, workers and requests, however often a request is repeated and whatever is interrupted:

| Theorem | Statement |
|---|---|
| `PortalTypeCorrect` | `Spec => []TypeOK` |
| `RequestIsSentOnce` | `Spec => []SentOnce` |
| `StatusTellsTruth` | `Spec => []StatusIsTrue` |
| `ForwardIsFiled` | `Spec => []ForwardLandsInChild` |
| `OperatorHasSeen` | `Spec => []SeenWhatWasClaimed` |
| `RepliesToOneViewRace` | `Spec => []OneReplyPerView` |

The types need to know what a handler has at each step (`FormOK`) and that what is shown, named or written
to exists (`LiveOK`). `Lasting` says what no step takes away: a stored thread id, and what a message was
inserted with. Four invariants build on it. `SentInv`: of all handlers of a request at most one stands
between insert and send, its mail is not out yet, and the message says under which id it will go out; the
insert keeps this because a row that is there sends every later attempt back. `StatusInv`: a handler that
has yet to write the status finds its row in `sending` and knows whether its mail is out, so a row says
`sent` only of a mail that is, and stays in `sending` only while somebody is going to write or was cut off.
`SeenInv`: a window whose revision is still the conversation's shows every mail whose claim is complete;
revisions only grow, and while one stays no mail becomes claimed (`Grown`), as the row comes before the
revision. `RaceInv`: two handlers between check and bump know of each other (`PassedOK`), and a reply that
moved the revision left the one its operator saw behind (`MovedOK`), so who passes the check later saw
another one; who passed it before is in `beside` (`RaceOK`, `PairOK`).

For `ThreadHandoff`, under `HandoffAssumption` (handlers are not workers, the ids the program makes are not
those of requests, the bounds are numbers), for every set of operators, workers, humans and requests:

| Theorem | Statement |
|---|---|
| `HandoffTypes` | `Spec => []TypeOK` |
| `AnswersStop` | `Spec => []AnsweredOnlyIfOvertaken` |
| `ResendIsExplained` | `Spec => []ResentNeedsCause` |
| `ActiveWasMailed` | `Spec => []ActiveIsDelivered` |
| `HandoffIsHidden` | `Spec => []HandoffMailHidden` |

`HandoffInv` follows a request. As long as its `blame` names no overlap, error or interruption (`Clean`), one
attempt at a time is under way (`OneAttempt`), the delivery row is that attempt's and open, with no mail out
before the send (`OwnRow`), an open row has an attempt (`RowInUse`), and an attempt that has yet to open one
finds none, or a sent one that ends it (`FoundSent`). So there is one mail (`OneMail`) and the row names it.
`SameHuman` and `SentMail` carry the human from request to row to mail, which is what `ActiveIsDelivered` needs
when the delivery is closed. `Overtaken` is `AnsweredOnlyIfOvertaken` with the workers that are still
deciding. Each action of a handler or a worker is first shown to be one of five kinds of step (ask, pass,
open, send, close), and each invariant is proved for the kinds.

For the configuration, in the composition of `Service`, also under `FirstAssumption` (the first configuration
has no placeholder in it and each server has its own secrets, and nobody types the placeholder as a secret):

| Theorem | Statement |
|---|---|
| `ServiceTypes` | `Spec => []TypeOK` |
| `NoPlaceholderStored` | `Spec => []PlaceholderNeedsCause` |
| `SecretsAreHome` | `Spec => []SecretsStayHome` |
| `PanelIsFile` | `Spec => []PanelShowsFile` |

`FormsOK`: whatever the edits, a form that was made from a configuration (`MadeFrom`) has no value that is
away from its server, and a server that shows a placeholder is one of that configuration, perhaps under
another name; there is one lemma for each edit. From this, lemmas about `Preserved` say where a restored
secret comes from: the server of the same name, or of the one renaming the code accepts. In a form that is
`Settled` (no name reused, no hidden variable renamed where the guess could go wrong) that server is the one
the form's came from; in one that is `Orderly` every placeholder finds a value. `NoPlaceholder` and
`AllAtHome` hold of all that is kept, the file, the copies and the drafts on their way to them. `Alone`,
`Undisturbed` and `Agreed` are about saves: one that is not beside another is the only one, so nothing comes
between its truncation, its write and its copy in memory.

The exceptions are as narrow as the proof allows. Giving a server the name of another stores the placeholder
when the server that had the name lacks one of its secrets, which no instance with equal secrets shows: hence
the two unequal servers of `service`. Renaming a hidden variable always may; it moves another server's secret
only together with a new name for its server while two servers are missing, because otherwise the guess has
one server to take, the right one.

For `RuleBook`, under `RuleBookAssumption` (the seeded labels are labels, the special mails are mails), for
every set of windows, workers, mails and labels:

| Theorem | Statement |
|---|---|
| `BookTypes` | `Spec => []TypeOK` |
| `HistoryIsTrue` | `Spec => []HistoryAgrees` |
| `MarketingNeedsConsent` | `Spec => MarketingIsDeclined` |

`RowOK`: a worker about to decide wrote its row in this try, and then the row says what the worker knows, or
the write is known to have failed. `HeldOK` keeps other workers from the mail, and a row names its rule by
what was copied into it, so it stays when the rule is edited or deleted. `DefaultOK`: since a poll seeded the
rules, there is a default rule or `removed` says that one was taken away. The step of `MarketingIsDeclined`
is the match: if no rule decides a marketing mail, the default rule does not either.

For `ThreadIndex`, under `IndexAssumption` (a bound on the mails, faults are numbers), for every number of
workers and mails:

| Theorem | Statement |
|---|---|
| `IndexTypes` | `Spec => []TypeOK` |
| `OneThreadPerConversation` | `Spec => []OneThread` |
| `HistoryIsWhole` | `Spec => []ContextWhole` |

Every thread id anywhere names a mail of the same conversation (`RunsOK`, `SentOK`, `PortalOK`, the last part of
`StageOf`), since a mail names only mails of its own conversation (`MailsOK`). Unless the conversation went
astray, that id is the root: `RowsTrue` for the rows, `LookOf` for a worker in the middle of its three
statements, where a look-up that found nothing so far has a named mail in a later table or a mail that tells
the root by itself. Rows grow (`RowsGrow`): no step takes back an id, a safe verdict or a sent reply. This
carries `DueOf` over the statements of others: after each of the three reads, what is due is read, or is
recorded in a table that is still to be read. `OneHandler` keeps the worker's own row as it took it, so it
does not read its own reply. A step is one of the world (`WorldMoves`), or of one worker while the others
wait (`WorkerMoves`); rows are proved once for the three ways to write one (`RowMoves`).

For `MessageWorker`, besides the theorems above:

| Theorem | Statement |
|---|---|
| `NoAutomaticReply` | `Spec => []NeverAutoReplied` |
| `OneProcessFlagsHandled` | `Spec => []SeenOnlyWhenHandled`, if there is only one worker |

The hypothesis of the second is the setting of `worker_batch`; with two workers `worker_lost_claim` refutes
it. With one, nobody changes the row between the claim's SELECT and its UPDATE (`SoloOK`), so no claim is
lost. The first is proved only, no run checks it: `ReplyOK` says that a mail too long never enters the chain
of AI steps, and that one asking for a human never gets to the steps that may plan a reply.

Only model-checked: the liveness properties (`EventuallySeen`, `EventuallyHandled`, `InboxReached`, `MailSettles`,
`SavedTakesEffect`), because fairness and `ENABLED` are beyond the prover. Every safety property of a passing
run is a theorem.

## Plan

Done: the pipeline, Sent synchronisation, handoff, portal, configuration and migrations, rules, threads.
Left, in this order:

1. Proofs: an abstract specification of the handoff and of the portal request, and their refinement; what
   `SentSync` owes to `MessageWorker`, once `InboxFetch` composes them.
2. `InboxFetch`: search, fetch limit, unparsable mail, changed UIDVALIDITY, and the composition of `SentSync`
   and `MessageWorker` in one poll.
3. Safety: `decide` and `sender_is_banned` as operators against a reference definition.

## Not modelled

The AI provider's protocol, prompt and payload layout (`ai_external.rs`, `ai/payloads.rs`, `prompts.rs`),
mail composition, signatures and HTML cleaning (`mail/composed.rs`, `mail/signature.rs`,
`html_sanitizer.rs`) are conversions of data no decision modelled here depends on. `logging.rs` is output.
The React panel is an HTTP client, except for what it lets an operator do to a configuration, which is
`EditForm`. Token quotas, TLS and the IMAP and SMTP protocols are libraries, seen
here only through their results.

Renaming, deleting and merging of categories and topics exist in the store, but nothing calls them. The
in-memory store serves tests and one-shot runs of the worker; it recognises the default rule by its category,
where PostgreSQL compares the name too.

Of the inbox, three things are outside the models. Seen is set by UID with no UIDVALIDITY compared, so after a
renumbering between fetch and flag another mail is flagged (`worker/processing.rs:107`). Each poll fetches the
lowest ten unseen UIDs, so ten mails that fail for ever keep newer ones from being read
(`mail_external.rs:179`); the models bound the faults, so no mail fails for ever in them. A mail that cannot be
parsed fails the fetch it is in, in the Sent folder as well as in the inbox.
