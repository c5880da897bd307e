# Formal model of ebay_claw

ebay_claw is the local assistant of an eBay clothing seller: a Streamlit
application reads the seller's listings, agents propose changes to them,
proposals wait in a review queue, an operator approves or rejects them, and an
approved change goes through one guarded service to an executor, which may be a
mock or one that writes to eBay. Everything it keeps is a file: there is no
database and no lock, and every browser tab and every caller of the apply service
builds stores of its own over the same paths.

That is where the difficulty lies, and what this project is about: several
processes over files that are rewritten whole, processes that end between any two
writes, a network that loses, delays and repeats requests, and reports that cut
time into windows.

- [Inventory](#inventory): the parts of the system, their state and what makes them correct
- [Modules](#modules): what models which code, and how
- [Runs](#runs): what TLC shows, within which bounds, under which fairness
- [Proofs](#proofs): what TLAPS shows, and along which argument
- [Disagreements](#disagreements-with-the-documentation): where code and documentation differ
- [Not modelled](#not-modelled) and [Plan](#plan)

## Inventory

Paths are below `src/ebay_claw/`.

| Component | State it keeps | Operations that change it | Talks to |
|---|---|---|---|
| Review queue store (`review_queue/store.py`, `fingerprint.py`) | rows in `_items`, and the JSON file they are rewritten to as a whole | create with replacement of pending rows, transition, update, mark stale | orchestrator, dashboard, apply service |
| Queue state machine (`review_queue/state_machine.py`, `apply_guard.py`, `models/domain.py`) | none: rules over one row | edges, the patch of a transition, the gates of an apply | store, apply service |
| Orchestrator (`services/orchestrator.py`) | last listings, adapter | ingest, flag drifted rows, pipeline, recovery proposals | adapters, agents, policy, queue, recorder |
| Guarded apply (`services/guarded_apply.py`, `live_identity.py`, `apply_api.py`) | locals of one call | gates, fresh ingest, identity, duplicate check, policy, executor, transition, record | queue, orchestrator, executor, idempotency store, audit log |
| Idempotency store (`execution/idempotency.py`) | JSONL file of keys | look up, append | apply service |
| Executors (`execution/mock_executor.py`, `ebay_write_executor.py`, `adapters/ebay_inventory_mutation.py`) | call budget, "token renewed once" | GET, compare, PUT with retries | eBay |
| Inventory read (`adapters/ebay_rest.py`, `ebay_readonly_http.py`) | budget, response cache of one adapter | pages of items, offers of each item | eBay, sync state |
| Sync state and history (`services/sync_state.py`, `sync_history.py`) | a state file and a JSONL history | mark running, ok or error | inventory read, dashboard |
| Movement recorder (`services/inventory_movement_recorder.py`) | snapshot file | compare, append events, replace snapshot | operational history |
| Operational history (`services/operational_history_store.py`) | JSONL of events | append; windows and weekly slices | recorder, orchestrator, analytics, attribution |
| Outcome attribution (`services/outcome_attribution.py`) | none | links of outcomes to actions, rates | operational history |
| Audit log (`audit/store.py`) | JSONL, rotated files, hash chain | append, rotate | all services |
| Live write visibility (`services/live_write_visibility.py`) | none | windows, counters, advice | audit log |
| OAuth (`adapters/ebay_oauth.py`) | token holder | renew after a 401 | adapters, executor |
| Policy and compliance (`policies/`, `compliance/`) | log of violations | verdicts | orchestrator, apply service |
| Settings, write guard (`config/`, `security/`) | environment | switches | all |
| Price advice (`services/comp_market.py`, `analytics/strategy_scoring.py`, `agents/pricing_agent.py`) | none; the pending row, in the queue | summary of sold items, strategy, action, row, verdict of policy | orchestrator, queue, daily priorities |
| Other analytics, agents (`analytics/`, `agents/`) | none | scores and proposals | orchestrator |
| Dashboard (`app/streamlit_app.py`, `services/dashboard_api.py`) | session state | acknowledge, approve, reject, apply | all |

What is hard in each, and what makes it correct:

- **Review queue.** A store reads the file once, when it is built, and from then on
  writes all of its memory over it, so sessions undo one another's work; a write
  is a truncation and a write, so a session that starts in between reads an
  empty or torn file; one enqueue is several saves. It is correct when, in *every*
  copy of the queue, at most one row per change is pending, an approved row carries
  the evidence an apply asks for and got around the verdict of policy in no way but the
  two the code leaves open (below), a replaced row points to a later version of the same
  proposal where that version is in the copy too, and an id means one proposal.
- **Guarded apply.** The row is read before an ingest that may rewrite the queue
  and used after it; the duplicate check and the record of the success are far
  apart; a process may end between the executor, the status and the record; an
  answer from eBay may never come. It is correct when nothing is claimed that was
  not done, and a revision whose success is on record is not applied again.
- **Executor.** GET and PUT of a whole item with others editing it, retries of
  three kinds in one loop, a budget that may run out between two attempts. It is
  correct when a PUT undoes nothing older than the call, changes one field, a
  success means that it landed, and the call comes to an end.
- **Inventory read.** Pages of a list that changes meanwhile; failures that end
  the read or pass one item over; a budget. It is correct when "ok" means that
  nothing was missed and the state file comes to rest on a recorded outcome.
- **Movement recorder.** Every session has a recorder of its own over one snapshot;
  events are appended before the snapshot they are relative to is replaced, the
  replacement empties the file first, and an ingest may lack a listing that is there.
  It is correct when no movement is forgotten before it is reported, none is repeated
  without a crash or another recorder at work, and what is reported as sold has gone.
- **Price advice.** Five layers, each with thresholds of its own, may cut, spare or
  overrule one another, and nothing remembers an earlier cut; a pending cut is
  followed whenever the operator likes. It is correct when cuts followed one after the
  other come to an end in the market, patience with a listing that is watched is not
  overruled, gaps are filled before a fair price is cut, and no advice is given that
  policy then rejects.
- **Audit log.** Rotation is a row of unlinks and renames, and the chain is a read
  followed by a write. It is correct when the chain holds in every file and only
  the oldest file is dropped.
- **Reports.** Boundaries of windows, lines that are not in the order of their
  times, one log counted by several loops. They are correct when every event falls into
  one window and figures that are shown next to one another agree.

## Modules

Each module's header says what it models; `map` in `PROJECT.json` gives the lines
each definition stands for. A definition whose comment begins with "Variant for
mutation" is a wrong form of the one after it, and is used only to see that the
properties notice.

**The queue.** `ReviewStateMachine` has rows and the rules over one row. A row keeps
what the rules read: a timestamp is the fact that it is set, a fingerprint a model
value. `ReviewQueue` composes it with the store of several sessions and the
pipeline that enqueues: `mem[s]` is `_items` of the store of `s`, `file` the rows of
the last complete save, `fileState` whether the file can be read, `pc[s]` and
`job[s]` the place and the locals of a running call. A save is `Save` (the change
in memory and the truncation) followed by `Write`, and other sessions come between.
The pipeline saves a row as pending before policy is asked (`orchestrator.py:137`), and
its verdict in a save of its own (line 187): a session that starts in between holds the
row unjudged and may approve it, and with a blank default actor the second save never
comes. `verdict[i]`, a history variable, tells these two ways from all others: it is
"open" for a row that policy passed and for one that could be read before its verdict
was stored.
`QueueLifecycle` is what an operator is promised: a book in which proposals are
entered, decided once and settled once. `ImplementsLifecycle` in `ReviewQueue` states that the
saved file of one session implements it (`Book` is the mapping).

**The apply.** `GuardedApply` is `simulate_apply` step by step (`Request`, `Resolve`,
`CheckDuplicate`, `CheckPolicy`, the executor, `MarkApplied`/`MarkFailed`,
`RecordSuccess`), by several sessions over one queue file and one file of successes.
It takes the saves of the queue as single steps, since `ReviewQueue` has them torn,
and the executor as its promise. `WritePromise` is that promise, and `EbayWrite` the
executor which keeps it: GET, comparison with the listing the caller saw, and a PUT
whose request and answer may be lost, delayed or repeated. `took` in `GuardedApply`
and `past`, `landed` in `EbayWrite` are history variables: no step of the code reads
them. A token that cannot be had or renewed ends the call of `EbayWrite` as a failure or as
an exception nobody catches, by what went wrong (`GetErrors`, `Send`). Whether a write is
unneeded is judged by what the code looks at, the snapshot of the caller or the item of
its own GET (`WriteUnneeded`), not by the listing at the return.

**Ingest.** `InventorySync` is one read of the inventory per session, a step per
GET, with the budget, the response cache, the state file, the history, and the lines it
adds to the audit log: the one at the start is outside the `try`, and if it fails the
read breaks off and the state file says "running" (`AuditStarted`); one that fails inside
the `try`, after "ok" was reported, makes the read one that has failed (`AuditEnded`).
That the state file or the history itself cannot be written is left out.
`MovementRecorder` has the ingests and recordings of several sessions over one shop
and one pair of files: `Trade` changes the shop, `Ingest` is `load_listings` and may
pass listings over, `Begin` reads the snapshot into `base`, then comes a step per
append and two for the snapshot. `history[s]` and `due[s]` count, per session, what
its appends and what its replacements of the snapshot amount to. A *slip* is a
replacement of a snapshot that its session has not seen, or one that spoils the file
because another wrote since it was emptied (`WriteSnapshot`).

**Reports.** `HistoryWindows` has the weekly windows of the operational history as a
recursive function over days. `OutcomeLinks` has the links of outcomes to actions as
operators over a history that grows by events stamped earlier than they are
appended. `LiveWrites` has the counters, failure buckets, latest attempts and the
expansion advice as operators over the audit log of applies; its list of failures
is every failure `EbayWriteExecutor` returns, told apart where the text of the error
decides the bucket: a 401 is an authentication failure only when the text names 401, a
second one after the renewal of a token is a transport failure of a GET and a failure of
the provider for a PUT (`BucketOf`). `PriceAdvice` has what one run of the
pipeline makes of one listing: `Market` is `summarize_sold_comps`, `BaselinePath` and
`MarketPath` the two layers of the scorer, `ActionFor`, `OfferFirst` and `MarketAction`
the three of the pricing agent, `RunPipeline` the row and the verdict of policy. The
scores of the code are sums and products of a few decimal weights; the module has them
as whole numbers of the smallest fraction in which all of them are whole, so that every
comparison with a threshold is exact (`StaleRisk` in parts of 2400, `SaleLikelihood` in
parts of 90 * 4800 * 2000). A median of floating-point numbers that falls on a threshold
may decide otherwise in the last bit. The state is the listing: it ages (`Pass`), the
operator follows the pending cut (`FollowCut`) or fills the gaps (`Improve`), runs come
at any time. `Reports` puts the two
reports next to one another: a behaviour follows one or the other (`subject`).

**The audit log.** `AuditLog` has appends of several writers; each round of a rotation
unlinks one file and then renames another to its place, in two steps. A rename replaces
what is there, as on POSIX systems, and the write of a line is one step. A record is its number, and its hash is as good as its number.

How they are composed:

```
ReviewStateMachine <- ReviewQueue -- refines (one session) --> QueueLifecycle
        ^
        +---------- GuardedApply -- relies on --> WritePromise <-- refines -- EbayWrite
InventorySync    MovementRecorder    HistoryWindows    OutcomeLinks    AuditLog
LiveWrites, PriceAdvice <- Reports
```

## Runs

Deadlock is not looked for in any run: ids, edits, reads and records are used up at
the bounds, and a quiet system is not a stuck one. Symmetry is used in runs without
liveness, over sessions only, which the code does not tell apart.

| Run | Shows | Bounds | Distinct states |
|---|---|---|---|
| `rq_single` | one session whose process may end between calls and between the saves of a call, with a blank default actor: the file implements `QueueLifecycle`; every operation saves what it changes; drifted pending rows are flagged; rows in memory move along the edges of the state machine; every call returns | 1 listing, 2 actions, 2 ids, 2 fingerprints | 181,454 |
| `rq_sessions` | two sessions, torn saves, stale memories, ends of processes inside calls and saves: one pending row per change, evidence, no approval around policy but the two open ways, succession and identity in every copy of the queue | 1 listing, 1 action, 2 ids, 1 fingerprint | 2,132,683 |
| `rq_terminal` | **violated**: a superseded row of the file becomes pending again | as above, 2 fingerprints | 44,285 |
| `ga_sessions` | two sessions apply with both executors, late writes and ends of processes: success is real, a recorded revision stays out, the row is still ready | 2 ids, 1 listing, 2 fingerprints | 2,052,242 |
| `ew_promise` | the live executor implements `WritePromise` and its call ends | 2 titles, 2 aspects, 2 edits by others, 2 attempts, budget 4 | 626,688 |
| `is_reads` | two sessions read while the seller edits: "ok" has missed nothing, the state file rests on a recorded outcome unless the read that wrote it last broke off | 3 SKUs, pages of 2, budgets 2 and 5, 1 edit, 2 reads, 1 crash | 4,567,278 |
| `mr_crash` | two sessions record what has changed in a shop: movements are lost only by slips and repeated only by slips and ends of processes, slips have a cause, and what is reported as sold has gone, was passed over, or was recorded in overlap | 2 listings, 3 ingests, 1 change of the shop, 1 ingest with gaps, 1 crash for each session | 876,819 |
| `al_one` | one writer whose process may end inside an append: the chain holds, the latest records are kept, and enough of them | 3 rotated files of 2 lines, 12 records, 2 crashes | 575 |
| `al_lost` | **violated**: two writers that rotate at once lose the newest record | 8 records | 1,236 |
| `hw_weeks` | **violated**: an event on the first day of a week is in no week | 4 weeks, days of 4 ticks | 26 |
| `lw_weeks` | every log of five applies in four days: weeks meet, no failure is missing, latest attempts are shown, more evidence moves the advice in its own direction only; and the price advice, run after run: cuts stop at the market, watched premium listings keep their price, a fair price is not cut before gaps are filled, no cut is advised that policy rejects | weeks of 2 days, months of 5, thresholds 2 and 3; 10 ages up to 180 days, 2 prices, 6 samples, caps 15 and 30, asks from $20 | 697,205 |
| `oa_links` | every history of three events, some written late: a link changes only by a late line of an action in its window; links, unattributed outcomes and rows agree but for actions older than the lookback | window 2, ambiguity 2, lookback 3, delays up to 3, time 4 | 374,297 |

Why the bounds are enough to be interesting:

- *Queue.* Two ids are the least with which a row replaces another, three sessions
  add no new relation between two copies, and the file and two memories can be three
  different queues. One listing and action suffice where the properties are about
  rivals for one change; `rq_single` has two actions, so that a replacement of the
  wrong row would be seen. With two fingerprints a listing can drift and drift back. `rq_sessions`
  needs no ends of processes at rest: an ingest that has changed nothing yet is a call
  too, and a process that ends in it leaves what one that ends before it leaves.
- *Apply.* Two sessions and two rows reach every order of check, execution and
  record, including an apply of a row that another session has applied and then
  written back as approved.
- *Executor.* Two attempts make a PUT that is repeated and one that is given up and
  lands late; budget 4 with any number of calls already used reaches exhaustion
  before the GET, between attempts, and never; two edits by others can hide a
  change and restore it (`A`, `B`, `A`).
- *Reads.* Pages of two of three SKUs give a full page, a short page and, after a
  removal, an empty one; budget 2 runs out inside a page and budget 5 between pages.
- *Recorder.* Three ingests are a cold start, a recording, and one that overlaps it or
  follows a crash in it; two sessions spoil a snapshot together, replace one that the
  other has not seen, and start cold after either. One listing comes and goes, gets
  old, is seen to and sells, the other only comes and goes. With two changes of the
  shop the run has 6,333,714 states and no violation, in more time than it is given.
- *Audit log.* Twelve records fill the active and the three rotated files, two each, and
  drop the oldest at least once.
- *Reports.* The windows are a few days long, and the events so many that every
  boundary has one on either side.
- *Price advice.* The ages have one in every interval between two thresholds of the
  code; qualities go up to every count a rule asks for. The samples are none, one item,
  too poor a match, an ask above the median, an old sample that leaves the window, and
  one that a cut takes the ask below. `LowestAsk` ends the cuts that nothing else ends:
  without sold items each run advises another.

**Fairness.** `rq_single` assumes weak fairness of `Proceed(s)`, the steps inside a
call that has begun: the code of a call waits for nobody and has no lock, so a
running process goes on. It assumes nothing of operators, of pipelines being started,
or of processes being restarted. `ew_promise` assumes weak fairness of `CallStep`:
every request of the client has a timeout, after which `Answer` can take the branch
without an answer; nothing is assumed of eBay (`Arrive`, `ArriveLate`) or of others
(`Edit`). All other runs are of safety.

## Proofs

TLAPS proves every invariant but `CountsAgree`, every action property that a passing run checks, and
both refinements, for every number of sessions, rows, listings, ingests and so on. The
assumptions are the `ASSUME`s of the modules, which hold in every run: the constants are
of their kinds (`NoRow` is no row, a bound is a number, the operator is an actor), and
the sessions of the recorder, the items of the inventory and the samples of sold items
are finite. Where a theorem needs more it says so: one writer, one session.

Three ways of arguing return:

- *The least counterexample.* What needs an induction over data (a sample has a median,
  a loop over a log ends, a sum is a number) is shown without an induction rule: of the
  sets that would go wrong, one has no other inside (`SmallestMember`, from the well-founded
  order of the subsets of a finite set), and it does not go wrong.
- *A potential.* A bound on what has happened is not inductive; a bound on it and on what
  the calls under way may still cost is.
- *Descent.* Most steps of the queue leave copies whose rows come from a copy before.

**`ReviewQueueProofs`**: `TypeCorrect`, `OnePendingCorrect`, `EvidenceCorrect`,
`JudgedCorrect`. The invariants are not inductive on their own: a call works on its
memory over several saves. `IInv` says that every copy of the queue, file and
memories, satisfies `CopyInv` (one pending row per change, evidence, flagged rows are
rejected), and that a running call knows its memory (`JobInv`): the rows it still has to flag or
replace are pending, and every pending rival of the row it is to insert is among
the ones it will replace. Copies go from a memory to the file by a save and from the
file to a memory by a start; since the property is one of each copy, stale memories
and torn files cannot break it. There is one lemma per action.
`JudgedCorrect` needs more, since the row is in the file before its verdict (`VInv`): a row
whose verdict is still to be stored is live in no memory but that of the session that
enqueues it, unless another session has read the file in between, which makes its verdict
"open"; so no copy shows a row as live that is blocked, and one that is approved is open.

`SuccessionCorrect`, `IdentityCorrect`, `EdgesCorrect` are about the copies together; the
first says nothing of a row whose successor the copy lacks, which a death inside an
enqueue leaves behind (`review_queue/store.py:118`).
Every id in a copy, of a row or of its replacement, was drawn, and what is drawn is not
drawn again (`Drawn`). A row about to be inserted is in no copy yet and no other session
inserts it, and it is of a later version than the rows it replaces (`Promised`). Most
steps then need one lemma only: they leave copies whose rows descend from those of a
copy before, the same proposal with the same successor, and `Drawn`, `SuccessionIn` and
the identity of ids go over to descendants.

`DriftCorrect`: a pending row that has drifted from what the session ingested is stale,
or the loop of the ingest still has it to do (`Attended`). `RestCorrect`: with one
session, only a save that goes on keeps the file behind the memory, and a process that
ended in one has left an empty file (`Saved`).

`LifecycleCorrect` is the refinement of `QueueLifecycle`, for one session whose process
does not end inside a save, which is what `rq_single` has; an end inside a save empties
the queue, and no book allows that. The file is the book: a save is a stutter when it
truncates and the step of the book when it writes. What has to be known in between is
that memory and file differ in one row, and that the row has become what an entry may
become (`Booked`, `Becomes`).

**`GuardedApplyProofs`**: `ApplyTyped`, `SuccessCorrect`, `RecordedStaysOut`,
`RowReadyCorrect`. `IInv` adds to the types that in every copy one row per change is
pending and an applied row is one an executor took; that a running call (`CallInv`)
still has its row in its own memory as it read it, passing the gates, until it marks
it; that what was on record when the call was requested is still on record and got no
further than the duplicate check; and that past the executor the change was made.
That the row in memory stays as it is needs that the ingest in between flags pending
rows only, and an approved row is not pending; that is the point at which a reload of
the queue in the ingest would break `RowStillReady`.

**`InventorySyncProofs`**: `SyncTypes`, `RestRecorded`, `NothingIsMissed`. The session
that wrote the status last is still reading and will write it over, or is about to append
what it wrote, or the status is in the history (`Accounted`); only a read that breaks off
itself breaks that, and what other sessions do meanwhile does not. That nothing is missed
is what a read knows at each of its points (`ReachesAt`): what it has is, without
repetition, the listings of the first *n* items; a full page moves *n* on by a page, an
offer that is fetched leaves less of the page (`PageLeft`), and it ends with *n* past what
it started from. The inventory is always without repetition (`Distinct`), and an edit
that only adds behind leaves what was read in its place.

**`MovementRecorderProofs`**: `RecorderTyped`, `MovementsReported`,
`MovementsNotRepeated`, `SlipsCorrect`, `SalesCorrect`, for any number of sessions. `Said`
is what the recording under way has appended and its snapshot has not made due. `Balanced`
says that, but for that, a session's history and snapshots agree up to one movement for
each slip below, and one for each slip and each end of its process above. An append adds
as much to the history as to what is said; a replacement moves what is said to what is due
if it replaces what the session read, and is a slip otherwise (`SnapshotDue`); the end of a
process forgets what was said, which is one movement at most (`UnitsBounded`). Since
the balance is one of each session, the others cannot disturb it (`OthersKept`).

The other two are about sums over the sessions, which a step changes at one place
(`TotalOfMore`; a sum is the number of its units, `TotalCounts`), and about when sessions
overlap. `SlipsPaid` has three cases. A crowd may still cost a slip for each session at
work and one more, the cold start after them. When nobody is at work, only a snapshot that
was emptied is still to cost its cold start (`Damage`). And a session that records alone on
a file that is the latest snapshot (`Solo`, `Coherent`) sees what it replaces: it costs
nothing but a damage it found. An ingest that overlaps pays for the way from the second or
third case to the first, which takes the three slips of an overlap; the way back costs
nothing. `SalesPaid` is the same for the removals of one listing: a session alone reports
one only if the snapshot shows the listing and the ingest does not, which the shop
(`left`, `Owed`) or the gap has paid for (`IngestSees`).

**`ReportsProofs`**. On the price advice: `PremiumCorrect`, `FairPriceCorrect`,
`CapCorrect`, `CutsCorrect`, for any listings, samples, ages and caps. For the first three,
that `age`, `quality` and `cap` are what they may be (`Known`) is all that is needed of the
state; the rest is the way of one listing through the layers, one lemma per layer.
`FAST_MOVE` does not ask for the cap, and its cut is the lightest; `CapCorrect` needs that
the other path that does not, `AGING_RISK`, is never taken: whatever is dead stock at 180 days is to be ended at 120 already. That rests on
`DeadAge >= 120`, which the default settings have. `CutsCorrect` is about whole behaviours:
the pending row leads to an ask that the basis of its own advice bears
(`RowFollowsBasis`), whatever became of the sample since. A cut below the bound would be
one of an ask that is below the market already (`CutNotBelow`), which the layers spare, and
rounding to a cent takes half a cent at most (`CutRounded`).

On live writes: `WeeksCorrect`; `HidesNothing`, whose first part sets what three loops
count against one another (`AllCounted`, `TopIsAll`), and whose second is what the loop over
the log has listed after each round (`Listed`): a row has fewer attempts after it than its
place says, and since the log is in the order of the days (`Dated`), as few that are
younger; and `AdviceCorrect`, where one event moves the figures of one week by one
(`FiguresAfter`) and thus every test of the advice in one direction. `ReportsTyped` is
about both.

**`OutcomeLinksProofs`**: `LinksCorrect`. A link is the latest of some
lines, chosen by `CHOOSE`; that there is a latest one in every finite set of lines, and only
one, is all that is used of the choice (`LatestIsLatest`, `LinkChosen`). A new line changes
a link only if it is a candidate, so that it is of an action on the same listing, before
the outcome and within the window (`Eligible`, `LinkKept`).

**`EbayWriteProofs`**: `PromiseKept`, the refinement, and `WriteTyped`. The mapping is
the identity on the variables of `WritePromise` but for the outcome, which is read off
`pc`; what has to be shown is that no retry, late arrival or lost
answer is a step the promise does not have. `IInv` says that what a call has read was
the item at some time since the call began, and that a request which has arrived has
landed. For the counters, `Counted` says that a late request was an attempt of its own,
and that a call is refused by the budget once at most, after which it is over.

**`AuditLogProofs`**: `ChainCorrect`, `KeptCorrect`, `LogTyped`, `EnoughCorrect`, for one
writer (`OneWriter`; with two, `al_lost` shows the second false). `Sorted` says that files of higher index are
older and `Rotating` that an unlink removes nothing but the oldest file and a rename
overwrites nothing, because the file in its way was moved in the round before and its
place unlinked in this one; `UnlinkKeeps` and `MoveKeeps` are that argument, for the
rounds of the loop and for the active file alike. The chain needs that the tip a writer
has read is the tip still when it writes, which is where one writer is used.

`EnoughCorrect` counts: until a process ends inside an append, the newest record of the
*i*-th file is as far behind the newest of all as *i* - 1 full files and the active one
are long, one file further where a rotation has come by (`Spaced`), so that every record
that is near enough is kept (`LateKept`).

What is only model-checked: `CountsAgree`, whose parts follow from the definitions once
TLC has seen that they agree; liveness (`EveryCallReturns`, `CallEnds`), which is out of the
prover's reach, as is everything that needs `ENABLED`. The properties that are
violated are, of course, not theorems; what does hold of the weekly windows (that no event is
in two of them) is not stated, since the recursive function of their days is a chapter of
its own.

## Disagreements with the documentation

- `rq_terminal`. The dashboard says "Superseded items are terminal"
  (`app/streamlit_app.py:571`). A session that read the queue before another replaced
  a row saves its own memory later, and the row is pending again in the file.
- `al_lost`. `audit/store.py:1` says "Append-only JSONL audit log". Two writers that
  both find the file full both rotate; the second shifts what the first has just
  rotated, and unlinks the file with the newest records.
- `hw_weeks`. `weekly_slices` promises "Non-overlapping week buckets ending at as_of
  (inclusive)" (`services/operational_history_store.py:182`). A week starts in the
  last second of its first day, and the week before it ends the day before, so that
  all but a second of every seventh day is counted nowhere.

Read in the code while modelling, and not the matter of a run:

- `config/settings.py:135` says "Tamper-evident chained hash over audit lines". Two
  writers that read the same last line both name it (`audit/store.py:102`), and the chain
  has a break that nobody made by tampering; `ChainHolds` is stated for one writer.
- `GuardedApplyService` says "reload queue row" (`services/guarded_apply.py:51`). The row
  comes from the memory of the store, filled when the session began, so that a row which
  another session has replaced in the file is applied all the same.
- The outcomes that a row of the attribution counts reach back two years, the actions it
  divides them by half a year (`services/outcome_attribution.py:286`): an outcome may be
  counted for an action that is not in the cohort, and a rate may pass one. `CountsAgree`
  says that this is the only way.
- A read whose first audit line cannot be written leaves the state file saying "running"
  (`adapters/ebay_rest.py:128`); `RestIsRecorded` excepts it.

## Not modelled

- **Wording, rendering, redaction, logging**: no state, or text only.
- **Policy, compliance and whitelists**: a verdict is any verdict, in the queue and in
  the apply; only the rules on markdowns and ends of listings are in `PriceAdvice`. The
  text rules are sequential and have tests of their own.
- **Settings and write guard**: the models are of an application in which every
  switch is on; with one off, an apply refuses, which is an outcome the models have.
- **Rankings, store metrics, shrinkage and weights of the attribution**: floating-point
  sums that are shown, and decide nothing. **The title and specifics agents**: text. In
  the queue the pipeline proposes any change.
- **The OAuth token's expiry and its cache**: only the renewal after a 401, once in
  the life of an executor.
- **A reader of the audit log during a rotation, a machine that does not keep UTC**:
  not covered; the second is listed as a hazard.
- **Failures without a bucket in numbers**: `collect_other_bucket_samples` ends its count
  with its samples; the executor has two messages in that bucket and the samples hold
  eight, so `EveryFailureShown` is stated for lists that are not full.
- **Adapters of fixtures, repository scripts**: no state.

`PROJECT.json` lists each part with its status, and under `hazards` what can go
wrong at which line, with the property that would notice.

## Plan

In the order of importance, and what each would state:

1. Rivals at work: what `NewestIsKept` and `SupersededIsTerminal` leave of their promise
   with several writers, as a bound by the overlaps, in the way of `SlipsHaveCause`.
2. The weekly windows: no event is counted in two of them, for any number of weeks.
3. Price advice and the queue composed: a cut that is pending while a later run advises
   none stays (`orchestrator.py:268`); the daily priorities name `SEND_OFFER` a title
   change (`daily_priority_actions.py`), the pipeline does not.
4. Decision tables: write guard over its switches, safe specifics; the token cache;
   readers of the audit log during a rotation.
