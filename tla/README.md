# Vasuli: verification project

Vasuli calls customers whose payment failed. A Go *recovery orchestrator* keeps the
customers in SQLite and talks to Razorpay; a Go *gateway* carries each phone call; a
Python *inference engine* listens and speaks. This directory holds TLA+ modules of their core
logic, TLC runs on small instances, and the TLAPS proofs of what holds for every
instance. Everything is translated from the source; paths below are relative to `src/`.

## 1. Inventory

### The system's parts

| part | code | state it keeps | operations |
|---|---|---|---|
| session store | `recovery-orchestrator/internal/store` | `recovery_sessions`, `campaigns`, `audit_log` in SQLite, one connection | one statement or one transaction each |
| opening of the store | `.../store/db.go` Open, `schema.sql` | the tables and their unique indexes | schema, migrate, applyUniqueIndexes |
| campaign manager | `.../campaign/manager.go` | none of its own | CreateCampaign, AssignSession, EndSession, HandlePaymentFailed, HandlePaymentCaptured, HandlePaymentLinkPaid |
| HTTP API | `.../api` | none | decodes a request, calls the manager, decides what is acknowledged |
| queue and metrics views | `.../store/db.go`, `.../api/handlers.go` | none | one statement, and two |
| payment provider | `.../razorpay` | links at Razorpay | CreatePaymentLink; three kinds of webhook event come back |
| gateway | `var-thon/services/orchestrator-go/internal/gateway` | one call: channels, flags | StreamAudio, its two relays, collectOutcome |
| voice session | `.../internal/session` | state, outcome, idle timer, three channels | Attach, readPump, setOutcome, signalDone |
| recovery client | `.../internal/recovery` | none | AssignSession, EndSession, with a 3 s timeout |
| inference engine | `var-thon/services/inference-py/main.py` | two FIFO queues, history | read pump, utterance worker, generator |
| utterance detector | `.../vad/detector.py` | debounce state, four frame buffers | process_frames, get_utterance_frames |
| language model client | `.../llm/engine.py` | the tokens not yet spoken | generate_stream |

A call goes: the gateway accepts a caller's stream, opens a stream to the engine, asks
the orchestrator to assign a customer (HTTP), relays audio both ways, half-closes the
engine's stream when the caller leaves, waits for the engine to classify the call and
reports the outcome to the orchestrator (HTTP). The orchestrator may then create a
payment link; a payment, or the failure that starts it all, arrives as a webhook.

### What is hard

* *Handlers interleave between statements.* The store serialises statements, not requests;
  `EndSession` reads, calls the network, then writes.
* *At-least-once delivery.* Razorpay repeats an event until it is answered 200, may deliver
  it twice at once, and orders nothing between events.
* *Partial failure.* Only RecordOutcome and AssignNextPending are transactions;
  recovering, loading and queueing are two to four statements; a link is made elsewhere.
* *Two timeouts in a row.* The gateway gives a report up after 3 s, the orchestrator its
  provider after 10 s, and giving up cancels one of them and not the statements.
* *Starting on an old file, or dying while starting.* Schema, migration and three indexes are
  separate statements, and an index may not apply to rows that are already there.
* *Teardown of a call.* Five goroutines, four channels, one timer, two gRPC streams of which
  one permits a single sender; the caller may vanish or stop reading, the engine may fail.
* *Two stages of queues in the engine*, whose end must come exactly after the rest.
* *Debounce and buffers* that survive from one utterance to the next, and tokens that end
  anywhere in a sentence.

`PROJECT.json` lists each hazard at its line with the property that covers it, or why none does.

### What makes each part correct

* Store and manager: at most `max_contact_attempts` calls; one settling outcome a contact; one session
  a call; a stopped customer is never called again; a recovery is counted once and an acknowledged
  payment is never lost; no call while the link recorded for the customer can be paid; the audit
  trail and the row agree.
* Opening: what this version created is guarded by its indexes before it serves; one bad column
  does not cost the others theirs; a file is served in the end.
* Views: who is shown as finished with stays so; a count never exceeds the truth.
* Intake: one session a payment; a total that counts its sessions; no event lost by being
  acknowledged; every event settled.
* A call across both services: nothing is lost that the gateway takes for recorded; no link
  without an account of it; no wait without an end.
* Gateway: one sender on the engine's stream; no verdict lost before the timeout; the engine
  is not torn down before it classified; nothing leaks once the caller is gone.
* Engine: one outcome, last, about the end of the conversation; the stream ends.
* Detector: debounced at both ends, bounded, no frame lost inside an utterance or given twice.
* Splitter: what is spoken does not depend on how the model cuts its tokens.

## 2. Modules

| module | models | how |
|---|---|---|
| `ContactPolicy` | the promise to the customer | abstract: a phase and a number of contacts per session |
| `Recovery` | store, manager and handlers from assignment to payment | a request is a record with a control state; one action per statement or transaction; `Abort` between any two |
| `CampaignViews` | queue and metrics | extends `Recovery`: the queue is a function of its state, the metrics a request of two statements between the others |
| `Intake` | CreateCampaign, payment.failed and an early capture | the same shape as `Recovery`, with fairness: it is where retries matter |
| `StoreOpening` | Open, its index loop and the statements the indexes guard | a file of any age, opened, served, killed and opened again |
| `CallLifecycle` | one call between gateway, orchestrator and provider | the two HTTP requests and the provider's, their answers, timeouts and cancellation, in ticks |
| `EngineStream` | what the gateway may rely on of the engine's events | abstract: audio, one outcome, the end, or a failure before it |
| `GatewayCall` | StreamAudio, relays, readPump, idle timer | a program counter per goroutine; a step is what runs between two channel operations, locks or stream calls |
| `InferenceEngine` | one StreamEvents call | read pump, worker and generator over two sequences |
| `VADDetector` | the debounce machine | a frame is its number, its score free |
| `SentenceSplitter` | generate_stream | a reply is a sequence of kinds of character, cut into tokens anywhere |
| `MCRecovery`, `MCCampaignViews`, `MCIntake` | instances for TLC | promise dates, batches, symmetry |
| `RecoveryProofs` | theorems about `Recovery` and `CampaignViews` | section 5 |
| `IntakeProofs`, `StoreOpeningProofs`, `CallLifecycleProofs`, `GatewayCallProofs`, `InferenceEngineProofs`, `VADDetectorProofs`, `SentenceSplitterProofs` | theorems about the module of that name | section 5 |

The modules meet where the components do. `Recovery` assumes the unique indexes;
`StoreOpening` says for which files they are there (`FreshStoreIsGuarded`). `Intake` makes the sessions
`Recovery` starts from. `CallLifecycle` has the requests of `GatewayCall` (assign, then one report) on one side and
the statements of `Recovery` on the other, for one call, and adds the time they take. `GatewayCall` and `InferenceEngine`
share the contract `EngineStream`: the engine implements it (`ImplementsStream`), and the engine's actions in `GatewayCall` are its
steps and nothing else, at most `MaxSpoken` chunks of audio aside. So every theorem about `GatewayCall` holds of the engine there is.
The contract does not promise that the outcome answers a half-close: an exception over what the read pump read ends
the engine's input too, and the engine then classifies and ends the stream while the caller still speaks.
`InferenceEngine` takes an utterance as `VADDetector` delimits it and a sentence as
`SentenceSplitter` yields it. They are not one state machine: each hides
what the next needs only the promise of.

State corresponds by name. In `Recovery`, `row[s].status`, `.call`, `.attempts`, `.next`, `.link` are
the columns `status`, `call_session_id`, `contact_attempts`, `next_eligible_at`,
`razorpay_link_id`; `audit` counts rows by type (`call_ended` stands for itself and
`outcome_classified`, which is always written with it); `acked` holds the events answered
200. In `Intake`, `rows` is the table in order of insertion, `campaign[c].total` is `total_accounts`,
and `torn` is a history variable: the campaigns of which a request ended in an error between two
statements. In `StoreOpening`, `loaded` and `rows` are the rows and their indexed columns, `indexes` those
created, `legacy` whether the file is older than this version. In `CallLifecycle`, `gw` is the
gateway's handler and what it was answered, `req` the end requests of the gateway and of an operator,
`made` the links at the provider. In `GatewayCall`, `closed` is the set of closed channels, `assigned`, `relayExited`
and `sendFailed` are the locals of those names (`recoveryAssigned`, `inboundRelayExited`),
and `halfClosed` and `cancelled` record CloseSend and cancelAgent. In `InferenceEngine`, `answered` and
`skipped` are history variables, and the pump starts by building its detector, which may fail. Operators named "A bug:"
are the faults the properties are tested against; no specification uses them.

Abstractions. Time in `Recovery` is ticks of a fraction of the 24-hour cooldown, with the cooldown no
shorter than a link's validity (`RecoveryAssumption`; both are 24 h in the code). Requests that
read and change nothing are stuttering. `Recovery` starts from loaded sessions of one active campaign.
In `VADDetector`, `MaxUtterance` must exceed the frames a confirmed start already holds, as 469 does.
`GatewayCall` starts with the engine's stream open. `CallLifecycle` has one failure of the store at
most in a run, and a request there has the one row of its call.

## 3. Runs

| run | bounds | result |
|---|---|---|
| `recovery` | 1 session, 2 calls, 2 links, 2 handlers, 6 requests, 2 attempts, cooldown and validity 2, horizon 3 | six invariants hold (1.36 M states) |
| `campaign_views` | 2 sessions, one hand-edited, 2 calls, 4 requests, cooldown, validity and horizon 1 | `NeverOverstated`, `ClosedForGood` and the refinement of `ContactPolicy` hold (594 k) |
| `intake` | 1 campaign, 2 payments (one without id), batches of 1 and 2, 2 handlers, 1 fault | safety, `AckedIsQueued`, and `EveryFailureSettled` under fairness (0.26 M) |
| `store_opening` | 2 sessions, 1 call, 1 payment, 2 links, 2 crashes | two invariants, `IndexedAsFarAsPossible`, and `OpensEventually` under fairness (15 k) |
| `call_lifecycle` | 2 links, timeouts of 2 and 4 ticks, 1 failure of store and provider each | three invariants, and `NobodyWaitsForEver` under fairness (23 k) |
| `gateway_call` | channel of 1, 3 chunks from the engine, 1 from the caller | four invariants, finality, teardown under fairness (0.55 M) |
| `vad` | debounce 2 and 2, lookback 2, ceiling 6, 12 frames | four invariants, two action properties (1 M) |
| `engine` | 3 utterances, 2 sentences, history of 2 turns | three invariants, the refinement of `EngineStream`, and `StreamEnds` under fairness (38 k) |
| `sentence_splitter` | replies of up to 7 characters, pieces of at least 2 | `TokensDoNotMatter` holds (84 k) |
| `outcome_race` | as `recovery`, 4 requests | `RaceLoserRejected` violated: section 4 |
| `old_database` | as `store_opening` | `EveryDatabaseOpens` violated: section 4 |
| `slow_provider` | as `call_lifecycle` | `SlowAnswerDelays` violated: section 4 |

Why the bounds are enough. Two handlers make every race of two statements; six requests are a full
first contact (assign, two ends), a second one, and payment events across both. Two attempts are the
least budget that tells "retry" from "exhausted", and horizon 3 passes one cooldown of 2. `campaign_views` has
the second session because binding and choosing are about two, and the hand-edited timer because it is what
could bring a closed session back. In `store_opening` two rows are what a duplicate takes, and two crashes cut off a first
start and the one after it. In `call_lifecycle` the provider's timeout exceeds the gateway's, as 10 s exceed 3 s, by more
than one tick, so that each can fire with the other pending or not. In `gateway_call`
three chunks are one more than the channel and the relay hold, so readPump does block. In `vad`
twelve frames are two utterances, the first cut at the ceiling of 6, with false starts
and lulls; every threshold differs from 1, so counting matters. In `engine` a third turn
is the first to be dropped from a history of two. In `sentence_splitter` seven characters are
two full pieces, an ending too early to count and a rest. Deadlock checking is off everywhere, because all these
systems stop: a bounded number of requests, a call that ended. Where a theorem of section 5 states the
property, the bounds matter only to its tests.

Fairness. `Intake`: weak on each handler's next statement (the Go scheduler runs a runnable
goroutine) and strong on each event's delivery, because Razorpay keeps redelivering while the server
is now free, now busy; faults are finite. `StoreOpening`: weak on Open, started again after each of finitely
many deaths; nothing is asked of requests or of the operator. `CallLifecycle`: weak on timers (time, the gateway's timeout, the provider's) and on what
each end request can do by itself; nothing is asked of the provider, the caller, the operator, or of an answer to arrive.
`GatewayCall`: weak on main, relays and readPump; `outcomeTimeout` is a
step of main, hence passes. A SendAudio under flow control is excepted: nothing is asked of the engine, and
`TornDown` says that only such a send can keep a goroutine once the caller is gone. `InferenceEngine`: weak on the pump's start (which may be its end) and on the end of the input
being noticed, on the worker (its model calls return or fail) and on the generator; an exception that kills
the worker is not a step it is forced to take, nor kept from.
`Recovery`, `CampaignViews`, `VADDetector`, `SentenceSplitter`, `ContactPolicy` and `EngineStream` have safety properties only.

## 4. Disagreements between the code and what it says

Violated runs, one finding of `PROJECT.json` each:

* `outcome_race`: UNCLEAR leaves a session in a status from which an outcome may be recorded, so two racing
  `EndSession` requests can both commit, against `store/db.go:421-423`. What remains true is
  `OneOutcomePerContact`: at most one of them *settles* the contact.
* `old_database`: the schema indexes `next_eligible_at` before the migration that would add the column, so
  Open refuses a file without it. `migrate`'s ALTER TABLE and backfill are therefore unreachable.
* `slow_provider`: a provider slower than the gateway's 3 s, though within its own 10 s, is cancelled with the request:
  no outcome is recorded and the session stays `active`, against `razorpay/live.go:18-21`.

Met while modelling, and left in the models as the code has it, without a run of their own:

* Recovering is two statements. If the second fails, the retry sees a recovered
  session, writes nothing and is acknowledged: the recovery stands, its audit row is never written.
* An earlier link is overwritten by the next AGREED; its payment, reported late,
  matches nothing and is acknowledged. `AckedIsRecovered` excepts exactly this.
* A capture delivered before its failure is acknowledged as unknown and the
  customer is queued afterwards, although they paid (`HandlePaymentCaptured` of `Intake`).
* An event without a payment id queues a second session when it is delivered twice; `CreateCampaign`
  over a file without the index on payments loads duplicates.
* A session assigned to a call whose answer was lost, or whose START_SESSION failed (`server.go:165`), stays
  `active`, which nothing ever leaves but a payment or a report by hand.
* A hung engine blocks SendAudio for ever. `TornDown` excepts exactly this.
* The detector's lookback is not the trailing audio `var-thon/docs/vad.md`
  describes after a false start or a previous utterance; `NoHoles` and `GivenOnce` say what is true past it.
* A rest of a reply shorter than `_MIN_CHUNK_LENGTH` is not spoken; `TokensDoNotMatter` shows nothing else is lost.
* A dead worker (an exception no handler names), or a detector that cannot be built (`main.py:308`, before the try), leaves the
  engine's stream open. `StreamEnds` excepts both.
* If the half-close fails, the handler reports UNCLEAR without another look at the outcome (`server.go:286-289`), which readPump may
  have stored meanwhile. `VerdictCollected` excepts exactly this.
* The queue shows the sessions of a campaign that is not active as due, which the assigner passes over; a session in a call counts as closed, while `db.go:584`
  calls the queue's states exhaustive; `schema.sql:42-43` says that a session out of attempts has no timer, but
  AGREED and PROMISED leave one; the session's state is not TERMINATED after a receive error
  (`session.go:263-266`); `main.py:265-269` says that every queued utterance is in the history, while
  skipped ones are not; `cmd/main.go` of the gateway waits for an end of the stream that never comes.

## 5. Proofs

All by `tlapm`, from the assumptions on constants only, for every value they allow. Each theorem follows from an
inductive invariant: `Init` gives it, each action keeps it (one step of the proof per action), it implies the property.
In every module the type invariant comes first, strengthened by what each program counter or request
knows, since without that a request could write an outcome it never built.

`RecoveryProofs`, from `RecoveryAssumption` (a positive
budget, natural durations, `LinkValidity <= FollowUpCooldown`, `Null` distinct from the data):

* `TypeCorrect`: `Spec => []TypeOK`. The range `attempts \in 0 .. MaxContactAttempts` is the contact budget, and
  rests on the guard of assignment. `TypeInv` adds what requests know (`Knows`).
* `CapturedAtMostOnce`: `Spec => []CapturedOnce`. A request
  between its UPDATE and its audit row owes a row; `CaptureInv` adds that a debt is of a recovered session with
  no row yet and of one handler only.
* `ContactSettlesOnce`: `Spec => []OneOutcomePerContact`, whose second conjunct
  (an open session has settled fewer contacts than it made) makes it inductive.
* `RecoveryImplementsPolicy`: `Spec => ImplementsPolicy`. A step is classified by what it
  shows of each row (`Effects`, `RecordEffect`) and each class maps to a Call, a Decide, a Pay or a stutter.
* `OneSessionPerCall`: `Spec => []CallBoundOnce`, no two rows carry one call; inductive as it stands, and stated here only.
* `AckedForGood` and `NoCallBeforeExpiry`: `Spec => []AckedIsRecovered` and `Spec => []NoCallWhileLinkLive`, both from `LinkInv`, which
  follows a link from its creation on: a request about to record one holds a live link of its
  session that no other request and no row has (`GoodWrite`, `Alone`); a row's link was made for it, and until it expires
  the session has recovered or waits for a follow-up no earlier than that (`GoodRow`); a request about to acknowledge an
  event has recovered its session (`GoodEvent`). This is where `LinkValidity <= FollowUpCooldown` is used.
* `TrailIsTrue`: `Spec => []TrailMatchesStatus`, which needs `GoodWrite` too: a link is written exactly with the status
  `link_sent`, as it is audited.
* `ClosedIsFinal`: `ViewSpec => ClosedForGood`, about the queue of `CampaignViews`. `TimerInv` says that a session that waits,
  and a write about to let it wait, has a timer; so a customer who waits and may not be
  called is out of attempts, which no moved timer gives back.
* `ReportsUnderstate`: `ViewSpec => []NeverOverstated`. What the first statement counted only grows, for no session loses a contact, a
  recovery or its link (`RowsAdvance`, `CountsGrow`); what the second one adds up is the number of sessions with a `payment_captured` row, for none has two
  (`CapturedRowsCount`), and each of those recovered. The sum is a fold over a finite set, shown equal to that number by the
  least counterexample among its subsets, without the theorems that take an operator. `ViewsAssumption`
  (finitely many sessions) is for this count.

`IntakeProofs`, from `IntakeAssumption`, which asks for finitely many campaigns and handlers:

* `IntakeTypeCorrect`, and `QueuedOnce`: `Spec => []OneSessionPerPayment`, by the index.
* `TotalExact`: `Spec => []TotalExactUnlessTorn`. A load counts its accounts before it inserts them, an event is
  counted after its row, so totals and rows differ while requests are under way. `TotalInv` says by how much: what is
  counted, with the events still to count, is what is there, with the accounts still to load. The proof counts sets of
  handlers and of rows, hence the finiteness.
* `AckedAfterQueued`: `Spec => AckedIsQueued`, from `EventInv`: an event past its insert has its row where the
  request remembers it, and no row loses its payment.

`StoreOpeningProofs`: `TypeCorrect`; `IndexesTellTheTruth` (a column with an index never holds a value
twice, across clean-ups and restarts), `FreshStoresAreGuarded` and `OneColumnSparesTheOthers`. `OpenInv` says what the loop over
the columns has done so far, and that a file this version created has all indexes or no rows.

`CallLifecycleProofs`: `LifecycleTypeCorrect`, `NothingLostInSilence` and `EveryLinkAccounted`, from
`LifecycleInv`: what the gateway believes is what it was told, or a failure (`GatewayInv`); an outcome in the row is in the
trail (`RowInv`); only a request that asked the provider, for an agreement, has a link, what it answered is what became of
the row, and one that asked and ended accounts for its link unless the store failed (`RequestInv`).

`GatewayCallProofs`, for every capacity of AgentAudioChan and number of chunks:

* `CallTypeCorrect`: in particular `Len(audioChan) <= ChanCap` and
  `inboundErr \in 0 .. 1`: a send blocks rather than overflows.
* `OneSender`, `StoredVerdictCollected`, `HangUpSparesEngine`, from `CallInv`, because each is
  an argument through several goroutines:
  * `StartInv`: nothing but the handler runs before START_SESSION;
  * `RelayInv`: a message in `inboundErr`, or `inboundRelayExited`, proves the relay over, and the half-close needs it.
    This alone gives `SingleSender`;
  * `OutcomeInv`: an outcome is stored before any channel a reader waits on is closed, and
    nothing is stored once DoneChan is closed;
  * `HandlerInv`: the handler falls back only after DoneChan was closed without an outcome, after it gave up, or for a half-close that failed;
  * `EngineInv`: before the cancel, readPump ends only because the engine has finished or failed, so DoneChan
    stands for that.
  The lemma `Arrivals` says that an event in flight was sent by the engine in the step that put it there.
* `TerminatedForGood`: `Spec => TerminatedIsFinal`, from the table of transitions and `StartInv`.
* `TeardownHasNoCircle`: `Spec => []NeverStuck`, the safety behind `TornDown`: once the caller is gone the call is torn
  down, held by flow control, or some goroutine can go on. `TeardownInv` says where each goroutine may be and what each wait waits for: a relay that is
  over has left its message or was waited for, and outboundDone and AgentAudioChan are closed exactly when their owner has
  returned. ENABLED is out of the prover's reach, so `Able` spells out the guards at the points where a goroutine
  may block. That the goroutines do get there stays with TLC.

`InferenceEngineProofs`, for calls and answers of any length and every length of the history: `EngineTypeCorrect`,
`OutcomeComesLast`, `OutcomeOnTheLatest` and `EngineKeepsToStream` (`Spec => ImplementsStream`), from `EngineInv`:

* `EventsInv`: until the worker has classified the call all events are audio; an outcome rests on the history as it is
  and only the shutdown follows;
* `ShutdownInv`: the shutdown has an outcome before it, so that each event the generator yields is a step of `EngineStream`;
* `DeliveryInv`, of a worker that has not died: the queue holds the last utterances cut, in order, with the STOP behind them once the
  pump is gone (`QueueInv`), and every earlier one is answered, given up or in work (`SettledInv`). So the STOP is
  taken only when all are settled, and it takes the queue's order to show it;
* `HistoryInv`: the history is the end of what was answered.

`VADDetectorProofs`, from `VADAssumption`: `DetectorTypeCorrect`, `NeverPastTheCeiling`, `WithoutHoles`,
`NothingGivenTwice`, `NoiseOpensNothing` and `LullsCloseNothing`, from `DetectorInv`: which buffers may hold frames in which state, and how many (`BufferInv`); each of
them grows past the lookback by the frame just heard only; what was given was like that (`GivenInv`);
each counter counts a run of equal scores (`CountInv`).

`SentenceSplitterProofs`, for replies of every length and every shortest piece: `TokensAreInvisible`
(`Spec => []TokensDoNotMatter`), from `SplitterInv`: what was spoken, with what the buffer would still yield, is what the text heard so far
yields when it is cut at once. The reference is a recursive function on texts, and its equation and type are shown by
induction in the form of a least counterexample, from the library's facts that `<` is well-founded on the naturals
and that a non-empty set has a minimal element: none of them takes an operator.

Only model-checked is liveness under fairness: `EveryFailureSettled`, `OpensEventually`, `NobodyWaitsForEver`, `TornDown` and
`StreamEnds`, which, like ENABLED, is out of the prover's reach. Every other property of a passing run is stated by a
theorem. The three violated runs have none. The project declares no RECURSIVE operator.

## 6. Not modelled

Signature verification, payload parsing, prompt rendering, configuration and HTTP encoding are pure or stateless;
speech recognition, synthesis, the neural score and resampling are
numerical, and enter as free choices (something, nothing, an error). Amounts and names in the views are left out.
`Session.StreamUtterance`, `Session.Terminate` and `VADDetector.reset` have no caller;
StreamAudio and StreamSilence of the session are called by the test program `cmd/main.go` only, and it
and `cmd/gateway-test-client` are run by hand. `migrate`'s ALTER TABLE and backfill cannot be reached (section 4).
Generated code is left out.

## 7. Plan

Done: everything planned in sections 2, 3 and 5. What is left is depth rather than breadth: a contract, like
`EngineStream`, between `GatewayCall` and `CallLifecycle`, whose gateway makes one report at most, and between
`Intake` and `Recovery`, which starts from the sessions the former queued.
