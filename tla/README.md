# Verification of PeopleSoft Studio

PeopleSoft Studio is a VS Code extension through which developers and AI agents read
and change PeopleSoft definitions that live in a database shared with other developers
and with Application Designer. This directory models the parts of it where order,
failure and concurrency decide whether the result is right. `PROJECT.json` lists
components, runs, hazards, findings, theorems, and for each definition the source lines
it stands for.

    tlc -workers 2 -config ChangeReview.cfg MCChangeReview    # one run
    tlapm ChangeReview_proofs.tla                             # one proof

Every module comes with *faulty* variants of some definitions (marked "Faulty:"). Each
stands for a plausible bug; with it in place of the original, the property named for it
in `PROJECT.json` must fail. They are not reachable from any specification.

## 1. Inventory

The implementation is `src/src/` (about 85 000 lines of TypeScript).

| Part | State | Operations | Hard behaviour | Correct when |
|---|---|---|---|---|
| Review storage lock (`changeReview/store.ts`) | `writer.lock`, `lock-recovery`, the pid inside | `exclusive`, `reclaimDeadOwner` | several windows are several processes; each file-system call may be followed by a crash | one owner; a live owner keeps its lock; nobody is stuck |
| Change Review (`changeReview/service.ts`, `model.ts`) | one JSON record per Change Set, content-addressed blobs | stage, plan, validate, review, apply, cancel, recover | native writers commit independently; answers get lost; others save the same objects; pages get old | only what a developer saw is written, once, in dependency order, and the record never forgets an effect |
| Change Set lineage (same file) | links between sets: continuation, reversal, prerequisites | prepareRemaining, reverse, redo, recover, markReversed | chains over partial outcomes, undo of them, undo of the undo | order and content are restored; one continuation; nothing relabelled |
| Change Review page (`changeReview/workspace.ts`) | the page rendered last, its token | render, clicks | clicks on an old page | part of ChangeReview |
| Manual save history (`captureManual`) | a record around a native save | captureManual, recover, timeline, import | history may fail before, during and after the save | for its caller the save is what it would be without history; a record claims only what was read back |
| Process Scheduler runtime (`processRuntime/`) | one intent per run request, a lock of its own | prepare, submit, cancel, status, candidates, reconcile | lost and late answers, expiry, a changing baseline, several windows | a request is posted once and its run is not lost |
| Build requests (`buildRequest/`) | one record per request | edits, questions, answers, specs, approval, reports | developer and agent act on what they read before; several windows | no input lost; approvals are for what was shown and do not return |
| Workspace connections (`workspace.ts`) | map of live providers, target | connect, disconnect, select | awaited open and close, on-demand callers | the target is live; one connection active; no provider leaked |
| Agent write approvals (`providers/writeGuard.ts`, `model/writeApprovals.ts`, `mcp/writeTools.ts`) | pending cards | request, decide, expire, cancel | timeout and cancellation against a late answer | one outcome per card, and the call went on with it; no wait without an end |
| Customization guard (`customizationGuard.ts`) | session approvals, audit log | classify, ask, audit | approvals of one origin against writes of the other; read-then-write of the log | no write without the answers its origin needs; no lost line |
| Designer sessions (`model/aeSession.ts`, `editors/aeDesignerPanel.ts`, `mcp/appEngineTools.ts`) | document, baseline with token, undo and redo | edit, undo, redo, save, reload, agent's edit, refresh | messages handled concurrently, lost answers, an agent and Application Designer | no edit lost, nobody's save overwritten |
| Validation as you type (`peoplecode/liveValidation.ts`, `validateWorkerClient.ts`, `editorValidation.ts`) | timers, queue, one worker, diagnostics | schedule, cancel, run, show | a chain of waits during which text, settings and connection change; a worker that never ends | what is shown is of the present text; it appears |
| MCP server, controller and tools (`mcp/`) | HTTP server, client configuration | start, stop, tools | life cycle | tools reach services only through their public operations |
| Intelligence store (`intelligence/store.ts`) | a file per finding | record, merge, remove | a queue per finding and process | merges are not lost |
| Database adapters (`db/`), native writers (`providers/`) | pools, transactions | read, write with an optimistic check | driver concurrency | a stale write is refused inside its transaction |
| PeopleCode compiler, other models, editors, views, settings, SQL | documents | pure transformations, rendering | – | conversions |
| Project migration and compare | package directories | export, verify, compare | partial directories | a package that verifies is complete |

How they interact. MCP tools and editors stage objects in a Change Set; a developer
reviews and applies it on the Change Review page. Everything that touches a Change Set
runs inside `ReviewStore.exclusive`, hence ReviewLock is checked to implement the
abstract `Mutex`, and the modules above it treat an operation as the only one running.
That holds for them as long as the mutex is not `broken`, which one race in the code can
do (ReviewLock, below); what two operations at once do to a record is not modelled.
The service calls native writers through review adapters; each writer opens a
transaction, compares with the version it was given, writes and commits. Writers take
their provider from `Workspace`, which connects on demand. A developer's save from an
editor runs inside `captureManual`, which takes the same storage lock but never waits
for it. A write that does not come from a reviewed Change Set passes the approvals: an
agent's tool call first asks in its tool, and every write asks the customization guard. A build request hands work
to an agent that stages Change Sets. The Process Scheduler runtime is separate from
Change Review and repeats its pattern: a durable record before an effect that cannot be
taken back. There is no common bus or transaction: state is JSON files that are
replaced as a whole, plus the database.

## 2. Modules

| Module | Models | Runs | Proofs |
|---|---|---|---|
| `ReviewLock` (abstract: `Mutex`) | `store.ts` 10-77 | `lock_safety` | `ReviewLock_proofs` |
| `ChangeReview` | `service.ts` 167-530, 660-699, `model.ts`, the page | `review_apply`, `review_plan` | `ChangeReview_proofs` |
| `ReviewLineage` | `service.ts` 64-158, 434-529, 632-831 | `lineage_chain`, `lineage_publish` | `ReviewLineage_proofs` |
| `ProcessRuntime` (abstract: `OneShot`) | `processRuntime/service.ts`, `store.ts` | `runtime_submit` | `ProcessRuntime_proofs` |
| `BuildRequest` | `buildRequest/store.ts`, `model.ts`, panel, MCP tools | `build_request` | `Window_proofs` |
| `Connections` | `workspace.ts` connect, disconnect, target | `conn_overlap` | `Window_proofs` |
| `ManualCapture` (abstract: `DirectSave`) | `service.ts` captureManual and recover of its records | `manual_capture` | `ManualCapture_proofs` |
| `DesignerSession` | `aeSession.ts`, the panel, `psft_ae_edit`, the writer's token check | `designer_session` | `DesignerSession_proofs` |
| `WriteApprovals` | `writeGuard.ts`, `writeApprovals.ts`, `approve` of the tools, `customizationGuard.ts`, `decideWrite` | `write_approvals` | `WriteApprovals_proofs` |
| `LiveValidation` | `liveValidation.ts`, `validateWorkerClient.ts`, `editorValidation.ts` | `live_validation` | `Window_proofs` |

`MC*.tla` give the constants their values and define the symmetries. BuildRequest,
Connections and LiveValidation share no state; one module proves about all three, hence
their specifications are called `RequestSpec`, `Spec` and `LiveSpec`.

### ReviewLock

A caller is one call of `exclusive`; `Host` maps it to its process. One action is one
file-system call, so that other callers and a crash of the process may come between any
two: creating `writer.lock` with `wx`, writing the pid, creating `lock-recovery`,
reading the pid, probing it with signal 0, unlinking, removing the recovery directory,
unlinking at the end. `writer.pid = NoPid` is the empty file between create and write;
it counts as an unknown owner. `Die(h)` ends the calls of a process and keeps the files;
`Start(h)` lets its name, the pid, be used again: a dead owner's lock is then taken for
live, which is the safe direction.

A process may exit at any step, also between another one's read of its pid and the
probe, when it has released the lock meanwhile. The code has nothing against that
(`store.ts:32-49`): the reclaimer then takes its pid for that of a dead owner and unlinks
whatever file is there. `late` are the reclaimers to which this has happened, and
`robbed` says that one of them has removed the file of a caller that was inside
`exclusive`; it is reset when every call has come back. `lock_safety` runs with that race
and shows that it is the only way to a robbery (`OnlyExitRaceRobs`), that outside a
robbery the lock implements `Mutex`, whose promise can be broken and mended, and that
every call returns under weak fairness of its file-system calls (a call that started is
completed by the operating system; crashes are not forced). To return can mean with an
error: after a crash between the creation and the removal of `lock-recovery` every later
call that meets a lock file fails. Four callers in three processes: two of them share a
process, two may reclaim at the same time while a third takes the lock in between.

### ChangeReview

`disk` is the stored record, `work` the copy the running operation changes: a crash
drops `work`. Operations that read once and save once (`stage`, `revisePlan`,
`reviewPlan`, `review`, `cancel`) are one action: the lock keeps the record still, and
their outside reads happen at one place. `validate`, `apply` and `recover` are split at
each save and each call to the database. The order inside `applyLocked` is kept:
preflight over all chosen objects, APPLYING saved with its checkpoint, then per object
check of baseline, prerequisites and authorization, WRITE_STARTED saved, stamp compared,
write, readback, VERIFIED saved.

- The database (`db`) keeps value, version and token; a token is 0 for an absent
  definition (`'absent'` in the adapters). `flight` are writes it received and has not
  decided: `Commit` succeeds only against the token the writer was given, `Rollback` is
  always possible, and either may happen after the caller gave up.
- Checks of the environment, of policy, of unsaved editors and of the store can refuse
  at any time: they are the failure actions (`Throw`, `PreflightFail`, `ValidateFail`),
  which are always enabled where the code may throw.
- `CheckNext` may take any object whose dependencies in the set are verified. The code
  takes one topological order; the model allows each.
- `Render` and the page: a click carries the review token of the page, a hash over the
  whole record, so a page is current exactly until the next save.
- Blobs are immutable and named by their hash, so a hash is the value.
- History variables: `granted` (what was on the page when a click approved it), `sent`
  (writes that reached a writer, numbered per object), `mine` and `late` in `db` and
  `flight` (this set wrote the live version; it committed after a reconciliation began).

Fairness (`FairSpec`): a running operation takes its next step (awaited promises
settle), the database decides a transaction it received, a developer answers a set that
stays APPLYING with "Reconcile live state", which the page offers for it, and crashes
stop eventually. Nothing is assumed of agents, of developers' other decisions or of other
people's saves. For a set that a crash left VALIDATING the page offers neither "Validate"
nor "Cancel" (`workspace.ts:241`, `:255`), so nothing is assumed there either, and such a
set may stay as it is until an agent calls `psft_validate_change_set`: see
`ValidationsAreResolved` among the counterexamples.

What counts as displayed: a rendered page is taken to show every object of the set. The
page shows the plan and the list of all objects, and the values of the object that is
selected (`workspace.ts:200-202`); which one a developer has selected is not modelled.
The authorization context is compared just before the write and handed to the writer
(`service.ts:485-495`); what the writer does when it changes after that is not modelled.

Bounds. `review_apply`: two objects, the second may depend on the first, two outside
saves, three revisions, one authorization context, no plan: stage, restage and approve
fit, and an outside save both before and after the first write. `review_plan`: one
object, five revisions, plan revisions 1 and 2, two authorization contexts, one outside
save: an approval can become old in each of its components. Together they fire every
action.

### ReviewLineage

Several sets over the same objects. Review of one set is a single step (`Approve`),
because ChangeReview covers it; an application is split at its saves, and the
transaction of a crashed writer is decided before anybody takes the lock again. `pins`
are the verified prerequisites of a continuation with the tokens they had, `sources`
the forward bindings of an inverse. `Intact` is what `checkPrerequisites` and
`checkReversalSources` accept. An agent may stage another content, other dependencies or
another object in any set that is not applied, an inverse and a continuation too
(`Restage`, `service.ts:237-285`), and revise its plan (`Replan`); either takes all
approvals back. `checkReversalSources` compares an inverse with its sources only if the
inverse binds them (`bound`): the inverse of one set without continuations does not, so
after a change of it `markReversed` marks a source that was not restored. Tokens are
versions, or fingerprints of the content for the objects in `Fingerprints`: with those, and
with the constant token of an absent definition, an undo restores the very token another
set was reviewed against. Left out:
plan approval, revisions, changes of environment, `inverseTarget` projections, and sets
that an agent begins from nothing beside the first one.

`lineage_chain`: up to four sets over a definition and one that depends on it, both new,
one versioned and one fingerprinted, and one disturbance, an outside save or a set that
is staged again (`MaxDisturbances`): one is what it takes to lead a chain astray. Four sets
are a partial application, its continuation, a partial combined undo and the continued
undo; or an application, its partial undo, the continued undo and the redo.

### ProcessRuntime

Windows share the intents directory under one lock that fails at once when it is taken;
a crash frees it, as the store does for a dead pid. (The store's own file steps are those
ReviewLock looks into.) `submit` is split at every await: confirmation, baseline, save of
SUBMITTING, the scheduling call, save of the outcome. `calls` are scheduling calls the
native service has not decided; a call may be accepted after its caller gave up or died.
`changes` stands for the versions of process definition and run control and `Last` for
the last native instance: the baseline is both. `NativeRun` is somebody starting the same
process in PeopleSoft. All requests are of one operator, process and run control, since
`matches` tells others apart. Left out: SOAP, sign-in, reports, the panel's layout.
`late` marks a run that was accepted when nobody waited for it any more. `find` asks
for 100 instances at most (`protocol.ts:115`); the model has fewer, so a run that drops out
of that list is not in it.

`runtime_submit`: two windows, two requests, three native instances, one change, one end
of a run (a stored end that belongs to another run would show with one). Two
requests are enough for one to invalidate the other, three instances for a foreign run
between two own ones. The record of each request is shown to implement `OneShot`: refused
or used once, unknown until at most one run becomes known.

### BuildRequest

A change reads the record when its turn in the queue has come (`Change` fills `copy`)
and replaces the file in a later step (`Write`). `Turn` is the queue, one per window,
shared by panel and MCP tools. The page (`Show`) and the agent (`Get`) act on what they
read before. `entered` is the material itself, so that a lost change shows; `seen` is
what the agent had read when it designed a spec. Left out: attachment files, text
extraction, feedback, title and the choice of connection (a precondition of approval),
what a report says of an object.

The queue belongs to a window, and the request's file to all of them
(`extension.ts:345`). When a window replaces the file, the changes under way in other
windows were made from a file that is gone: these windows are `overtaken`, until their
copy is written or given up. Such a write is what the code has no defence against, and
all that the three properties except (`StaleWrite`). `rewound` says that one has changed
the spec: two specs may have had one revision since, and `store.ts:204` compares a page
with the file by revision alone.

`build_request`: two windows over one file, one input, one question, two spec bodies of
two revisions, and six changes begun in all (`MaxBegun`): enough for a question and its
answer, a spec, its approval, a report and a change that ends the approval, or for two
windows to replace each other's input, spec and approval.

### Connections

One action per section of `connect` and `disconnect` between two awaits; up to three
calls run at once, each may fail to open or to close. A provider counts as connected
until its pool has closed. Project-file providers behave alike; `Workspace.dispose`,
secrets, and the migration of settings are left out. `overlapped` records whether two
connects, or a disconnect and any call, were under way together. A connect removes the
others from the map before it closes them (`workspace.ts:177-181`); when closing one
fails, it only logs, and the provider stays open with its pool (`CloseFails`, and
`unclosed` records it). A disconnect that fails keeps the provider registered.

### ManualCapture

A call of `captureManual` goes through the places of `pc`: `enter` (the storage lock, which
refuses at once), `baseline`, `start` (the record APPLYING is stored), `write`, then
`readback` and `verify`, or `failed` or `unread`, then `leave` (the `finally` of
`exclusive` and the outer `catch`). `plain` is the save without a record, inside the lock
or outside it. Everything but the write may throw at each place, a `put` before or after it
replaced the file, and the window may die. `started` and `done` of the code are `outcome`.
`runs` counts calls of `write()`. `late` are writes that may still commit although their
answer was lost. `RecoverRead` and `RecoverSave` are a developer's reconciliation of such
a record.

What a caller can see of a save is `Saved(s)`; the module is shown to implement
`DirectSave`, a save without any history, its liveness included (`NeverAGate`). Fairness:
what a call awaits returns or throws. `manual_capture`: two saves of one definition with
different contents, three versions (two own ones and a foreign one), recover at any time.

### DesignerSession

`session` is `AeSession`; a document is the set of edits in it, so that a lost edit is one
that disappears. `apply`, `undo`, `redo` and `reset` are `Edit`, `Undo`, `Redo`, `Reset`.
The panel handles each message in a call of its own, hence a save, a reload and a refresh
wait for the database at the same time (`call`), and the developer types on meanwhile.
`stored` is every version of the program; a token is that of one version. `Put` is the
writer: the token the document was read with is compared inside the transaction. `Commit`
may lose its answer, which the panel shows as not saved. The agent reads, previews,
is asked about and saves as `psft_ae_edit` does; `Refresh` is `reloadIfOpen`.

History variables: `made`, `given` (undone, or discarded in the reload question) and
`hasty` (made while a call that resets the session was under way: the code discards these
silently). `EditsSurvive` is about all others. Left out: edits that remove, programs
that are created, copied, renamed or deleted, text editors of single actions, closing the
panel. The designers of component interfaces, menus, channels and file layouts have
sessions and panels of the same shape.

`designer_session`: two edits of the developer, one by the agent, one in Application
Designer, two calls at a time, an undo limit of one: both ends of the history are met, and
two saves of different authors can cross. Deadlock is checked.

### WriteApprovals

`Calls` are writes: those in `Agents` run inside `runAsAgent`. A call goes from `idle`
through the tool's own approval (`level1`, only if writes have to be confirmed) to the
`guard`, where `decideWrite` allows, audits, refuses or asks (`level2`), through `append`
(the audit log is read, then written back as a whole: `job.prior` is what was read) to
the `write`. Reading may fail, and counts as an empty file (`customizationGuard.ts:92`);
writing may fail and is only logged, so the guarded write goes on without its line
(`AppendFails`, `:94-96`), with a file that is as before or cut short. `Unlucky` are the
calls this may happen to, `struck` those whose line it may have cost, `overlapped` those
whose append met another. Steps without an await, such as an answer and the call it resumes, are one
action. `cards` are the requests a person sees; `Decide` can be tried on each at any time.
The timer (`Expire`) and the agent's cancellation (`Cancel`) race with it. A
person's own prompt has neither. Once the request is answered nothing looks at the
cancellation any more, so the model has none later. A definition that cannot be classified is UNKNOWN.

Fairness: what the code runs or awaits without a person ends, timers fire; nobody has to
answer. Left out: the evidence an ownership rests on, baselines, partner prefixes, the
paths of a reviewed write, the text of a card.

`write_approvals`: two calls of agents and a save of a person, one delivered definition,
every combination of policies and both modes. Three calls are enough for an approval for
the session given to one origin, used by the second call of it and wanted by the other;
and for two appends to overlap while a third reads. One call's reads and writes of the
log may fail: that is enough for a failure before, after and during another append.

### LiveValidation

A text travels a chain of waits, one variable each: `fetching` (the connection's release
and fields), `timer` (the pause in typing), `queue` and `running` (the one worker),
`showing` (references looked up before diagnostics are set). `manual` is the explicit
validation, on a worker of its own. A request names document, version, which of the
documents opened under this URI it is (`life`), and the `epoch` of connections and
settings. The validator knows URI and version only: the worker's result is published for
the document that is open under the URI if that one has the version, so an entry of
`showing` has both the document it is for (`of`) and the text it was compiled from
(`from`). `EditText`, `OpenText`, `CloseText` and `Invalidate` are the editor's events;
`Schedule`, `Enqueued`, `Cancel` (with `Without`) and `Advance` are `schedule`, its queue,
`cancel` and `next` of `LiveValidator`. `Invalidate` cancels every open document and leaves
the queue empty, since only open documents are in it (`Waiting` of the proof).
`Stale` is the timer that abandons a run for older text; an abandoned run is dealt with
before any other event, because its rejection is a microtask.

Fairness: the connection answers, timers fire, and a compilation of the present text ends.
A compilation of text that has changed may go on for ever: that is what the stale timer
is for. Caches of releases and fields are left out; an answer from a cache is one that
comes at once.

`live_validation`: two documents, four changes: one can be edited while the worker has
its older text, closed and opened again, or the other document can hold the worker.

## 3. What the runs show

| Run | Result |
|---|---|
| `lock_safety` | `OnlyExitRaceRobs`: a live owner keeps its lock but for the exit race; `Mutex` is implemented; every call returns |
| `review_apply` | `WrittenAsDisplayed`, `EffectsAreRemembered`, `AppliedIsComplete`, `NoForgottenWrite`, `PrerequisitesFirst` |
| `review_plan` | `WriteIsBacked`, `WrittenOnce`, `ApprovalsAreCurrent`, `ApplicationsAreResolved` |
| `lineage_chain` | `OneFollowUp`, `PrerequisitesInPlace`, `UndoRestores`, `PartialOutcomeRetained` |
| `lineage_publish` | **violation**: a crash after an inverse was saved as APPLIED leaves its sources unmarked for good |
| `runtime_submit` | `PostedOnce`, `NoOrphanRun`, `OneRunPerPreview`, `OneShot` is implemented |
| `build_request` | `InputsSurvive`, `ApprovedAsShown`, `LapsedStaysLapsed` in two windows, but for the write of an overtaken copy |
| `conn_overlap` | `TargetIsLive` always; `OneActiveInTurn` while connects do not overlap; `LiveProvidersAreOwned` while nothing overlaps, but for a provider that a connect failed to close |
| `manual_capture` | `ClaimsAreBacked`, `ResultsAreOwn`; `DirectSave` is implemented (`NeverAGate`) |
| `designer_session` | `BaselineIsAVersion`, `EditsSurvive`, `NothingOverwritten` |
| `write_approvals` | `WritesAreAuthorised`, `CardsTellTheTruth`, `AuditIsComplete`, `AgentCallsEnd` |
| `live_validation` | `ShownIsCurrent`, `EventuallyShown` |

Exceptions are part of the properties where the code has a limit. `NoForgottenWrite`
excludes a transaction that is decided after a reconciliation began (`late`): such a write
can leave an object that is recorded as PENDING while the set's version is live.
`OneRunPerPreview` excludes a run that was accepted after its caller had given up: the
other request's baseline was read before that run existed. `EditsSurvive` excludes edits
made while a save, reload or refresh is under way. `OneActiveInTurn` is about connects
that do not overlap, `LiveProvidersAreOwned` about calls that do not and providers that
could be closed. `AuditIsComplete` leaves out lines whose append met another (`overlapped`),
or that a failed read or write of the file cost (`struck`). `OnlyExitRaceRobs` and the
refinement of `Mutex` leave out what a `late` reclaimer does, the properties of
BuildRequest what the write of an overtaken copy does. `PrerequisitesInPlace` is about
chains in which nobody saved or staged anything else, and `UndoRestores` leaves out outside
saves and an inverse of one set that was staged again. Each of these exceptions is a
variable of the model or names its step, and most have a configuration below in which the
property fails without it. The exceptions for outside saves are no faults: a check may
refuse, but cannot keep others from saving.

Deadlock is checked in `lock_safety` and `designer_session`. The other systems may stop,
because their bounds on revisions, saves, sets or instances run out, or because every
call has ended.

### Counterexamples

These configurations are not among the runs. Each finds a violation of something a comment
or a document says, or one would expect, and shows the limit an exception above is about.

| Configuration, module | Property | What is said | What happens |
|---|---|---|---|
| `ReviewLockRace.cfg`, `MCReviewLock` | `NeverRemoveLiveOwner` | `changeReview/store.ts:7`: "Never remove a live/unknown owner's lock"; `docs/change-review/CONTRACTS.md:20`: "Only an established dead PID's lock is reclaimed" | a reclaimer reads the pid; its owner releases and exits, another window takes the lock and has not written its pid or has; the probe of the pid read before fails, and the unlink removes the new owner's file (`OnlyExitRaceRobs` says there is no other way) |
| `ChangeReviewValidating.cfg`, `MCChangeReview` | `ValidationsAreResolved` | nothing; compare `changeReview/workspace.ts:241` and `:255` | the process dies while it validates: the set stays VALIDATING, for which the page offers neither a validation nor "Cancel" |
| `ReviewLineageRestaged.cfg`, `MCReviewLineage` | `OnlyUndoReverts` | `docs/change-review/CONTRACTS.md:163`: "Only verified complete reversal marks the original REVERTED" | an agent stages another content in the inverse of one set; it is reviewed and applied, and its source is marked REVERTED although it was not restored |
| `BuildRequestStale.cfg`, `MCBuildRequest` | `ApprovedSpecSawTheRequest` | `buildRequest/model.ts:145`: "The request's inputsRevision the agent saw"; `docs/BUILD_REQUESTS.md:22`: approval is only possible "for a spec proposed against the request as it stands now" | an input arrives after the agent read the request and before it proposes: the proposal records the present revision, not the one it was designed from |
| `BuildRequestWindows.cfg`, `MCBuildRequest` | `InputsNeverLost` | `buildRequest/store.ts:20`: "The extension host is the only writer ... so one queue serializes every change" | `extension.ts:345` makes a store, hence a queue, per window over storage that windows share: two windows read the same record, and the second writes the first one's input away |
| `BuildRequestLapsed.cfg`, `MCBuildRequest` | `NeverRestored` | the same | a spec is approved; one window replaces it by another while the other window has read the approved one; the late write brings the approved spec and its approval back |
| `BuildRequestShown.cfg`, `MCBuildRequest` | `AlwaysAsShown` | the same | the agents of two windows propose different specs at once, both as the same revision; the page shows the one, the file holds the other, and `store.ts:204` lets the click approve it |
| `ConnectionsActive.cfg`, `MCConnections` | `OneActive` | `workspace.ts:174`: "One connection is active at a time" | two connects overlap; each disconnects what it found, and both stay |
| `ConnectionsLeak.cfg`, `MCConnections` | `OwnsWhatIsOpen` | nothing; `workspace.ts:179-181` only logs | one connect, nothing else under way: closing the connection it replaces fails, and that one stays open without being registered |
| `DesignerSessionAgent.cfg`, `MCDesignerSession` | `AgentSparesUnsaved` | `docs/MCP_WRITES.md:180`: an App Engine write is refused when the program is open in the designer with unsaved changes | `mcp/writeTools.ts:87` looks before the question, which stays open for up to 60 seconds; an edit in between makes the designer's own later save the one that is refused |
| `WriteApprovalsAudit.cfg`, `MCWriteApprovals` | `AuditHasEveryLine` | `docs/CUSTOMIZATION.md:138`: "Every refusal, approval, decline and recorded write is in the audit log" | `customizationGuard.ts:87-97` reads the file and writes it back: a write that fails is logged to the console and its line is missing; a read that fails starts the file over; of two lines appended at once one is lost |

Further observations that no property covers: progress on a build request survives a new
revision of its spec (`buildRequest/model.ts:207`); attachment files are removed before the
record that names them is written (`buildRequest/store.ts:127`); a provider counts as
connected while it closes (`providers/database.ts:356`), and of two connects to one
environment the second replaces the first one's provider without closing it; the runtime
store's lock has file steps of its own (`processRuntime/store.ts:29`); two requests of one
run control can be linked to the same instance by hand (`processRuntime/service.ts:67`); a
continuation that is approved in part can neither be reversed nor continued
(`changeReview/service.ts:162`); the guard reads its policy before it asks
(`customizationGuard.ts:101`). Hazards still without a property are listed in
`PROJECT.json` with the reason.

## 4. What is proved

The theorems hold for any number of objects, callers, hosts, contents, revisions, outside
saves and crashes.

`ReviewLock_proofs` assumes `Host \in [Callers -> Hosts]`, and that `NoCaller` and
`NoPid` are outside their sets; processes exit whenever they like. Mutual exclusion is not
inductive: what carries it is that a reclaimer about to unlink still has, in the lock
file, the dead pid it read, unless it is `late`. `IInv` adds that the owner's file carries
its name and pid, that there is one reclaimer, that a probe is about the present file, and
that an unlink is safe, all of it until a robbery and again when every call has come back.
From it: `OnlyExitRaceRobsHolds`, `MutualExclusionHolds` (no two owners unless `robbed`),
and `ImplementsMutexHolds` (every step is an acquisition of a free lock, a release, a
break of it, its mending or a stutter).

`ChangeReview_proofs` assumes only the named assumptions of the module. `IInv` says
what the stored record and the working copy owe each other:

- `Sound`: statuses that forget effects occur only in records without outcomes, and only
  approved objects have outcomes;
- `Granted`: each approval that stands was displayed as it is now recorded, which
  `PageShowsDisk` provides (a page that is fresh shows exactly the record);
- `SameProposal`: while an operation runs, copy and record have the same plan, members and
  reviews;
- `Phase`: where the operation is determines which statuses copy and record may have;
- `Marked` and `Current`: in a running application every object that was sent is marked,
  and the object about to be sent is approved, marked and not sent before.

The first safety theorems (`WrittenAsDisplayedHolds`, `WrittenOnceHolds`, `WriteIsBackedHolds`,
`EffectsAreRememberedHolds`, `AppliedIsCompleteHolds`) follow from it. Lemmas first
establish what each helper returns (`InvalidatedType`, `DecidedType`, `StoppedType`,
`ReconciledType`, ...), then one lemma per group of actions shows that types and the
invariant are preserved.

`Kept` strengthens it for the rest: `Steady` (where copy and record differ, and that no
outcome is taken back outside a reconciliation), `Rooted` (no member depends on itself or
on an object outside the set: `Orderable` admits no loop, `NoLoop`), `Ready` (what the
next object rests on is verified from the check until the write is sent), `Confirmed` and
`Remembered` (of what is live, what the database has not decided yet, and what a
reconciliation has seen, nothing is recorded as PENDING). It gives
`ApprovalsAreCurrentHolds`, `NoForgottenWriteHolds` and `PrerequisitesFirstHolds`: every
safety property of the module is proved.

`ReviewLineage_proofs` uses the module's named assumptions. `OneFollowUp` needs that the
partial status *and* the untouched objects of a set that is continued outlive every other
operation (`Retained`): `prepareRemaining` looks for follow-ups, but only a record that
still is PARTIALLY_APPLIED refuses to be applied again, and a reconciliation calls it
complete unless something is left PENDING. `Single` says that its continuations are one,
`Untouched` that nothing outside an application has outcomes. `UndoRestores` needs
`StillLive` (while an operation runs and nobody else saved, what its set verified is
live), `Inverses` (an inverse of one set leads each of that set's verified objects back,
and the set does not change any more; combined inverses carry this in the lineage that
`Intact` checks) and `Restored`, which the check at the start of the publication
establishes and the remaining marks keep. For an inverse that binds its sources
`Restored` holds whatever an agent staged, since `checkReversalSources` compares; for one
that does not, it and `Inverses` hold until that inverse is staged again (`restaged`). `RevisedKeeps` and `AddedKeeps` carry the parts
about records through every action that stores one; `OnlyMarkReverts` reduces the action
property to one action.

`Placed` strengthens it for `PrerequisitesInPlace`, which is about all sets that ever wrote
and not only the one at work:

- `Directed`: a set leads all its objects and pins from the initial to the proposed values
  with the proposal's dependencies, or back with the dependencies turned round; what
  reverses nothing leads forward;
- `PinChain`, `Choices`: a continuation reverses what its source does and pins all the
  source pins; outcomes belong to approved objects, approved with their dependencies, and
  inverses are approved as a whole;
- `Chain`: the sets that reverse nothing form one chain, and whatever an earlier one wrote
  a later one pins;
- `Scoped`: every reversal, redo or continued reversal owns or pins exactly what the chain
  achieved, and that set of objects is closed under dependencies;
- `Explained`: while nobody else saves, a proposed value is live because the chain put it
  there or a reversal is responsible for it;
- `OneWriter`: one object is at its writer, and its write respects the order (`Allowed`).

When a writer is called to bring an object, its prerequisites are live because the lineage
and the dependencies were just checked; when it is called to take one away, a dependent
that is still there would have to be in the scope of the reversal (`Covered`), hence be a
member whose removal was to come first or a pin that is gone. `RevisedPlaced`, `UnputPlaced`
and `AddedPlaced` carry the parts about records; `InverseBackward` and `InverseForward` show
that a reversal turns the direction round, for an undo and for a redo. TLC checked `Placed` on the instance of `lineage_chain` first.

`ProcessRuntime_proofs` assumes `BoundAssumption` and `NoneAssumption` (the markers for no
window and no run are outside their sets). `IInv` says per request (`RequestOk`) that a
record that looks unsent has no post, no undecided call and no run, and that its runs have
higher numbers than its baseline; per window (`WindowOk`) what its place in `submit`
says about its request, and that from the check of the baseline on no other request with
the same baseline has run (`Alone`). `OneRunPerPreview` is part of it: a second request
of one preview fails its check since the first one's run raised the last instance.
`ImplementsOneShotHolds` is proved with one lemma per kind of step.

`ManualCapture_proofs` assumes `BoundAssumption`. `CallOk` relates the place of a call to
what it has told and what its record says. `ResultsAreOwn` is not inductive: a record may
name a foreign version as its result only because that version's own save can never claim
one (`Hopeless`, a condition on place, copy and record that no step ends). `FixOk` is about
the verdict a reconciliation is about to store. `RecordingIsInvisible` is the safety half
of the refinement of `DirectSave`.

`DesignerSession_proofs` assumes `LimitAssumption` (the history holds at least one
document). `EditsSurvive` is not inductive, since undo could reach a document that lacks
an edit, and a reset could install one. `IInv` therefore adds `History` (documents to undo
form a rising chain from the baseline to the present document, documents to redo a
falling one above it), `InHand` (a document on its way contains the version it was read
from, one just read is that version), `Grown` (the present program contains every earlier
version, as edits only add) and `ResetsAreSafe` (a call that will reset the session
carries, or the database has, the edits that must survive). `NothingOverwrittenHolds` is the
action property that follows from `InHand` and `Grown`.

`WriteApprovals_proofs` assumes `CallsAssumption` and `OwnershipAssumption`. The invariant
is a conjunction of one predicate per call (`CallOk`: how its place, its cards, its answers
and the policy's judgement agree), so that a step of one call needs only a frame lemma for
the others (`OthersOk`), plus `Appends`: two calls that append at once are both marked, and
what a call read agrees with the log on every call that neither an overlap nor a failure
excuses (`Excused`).

`Window_proofs` has three parts, one per module.

*Connections*, from `NoneAssumption`. None of the three invariants is inductive. A connect
that closes the others works on a list it made before it waited, hence `Left`: nothing is
registered but its own connection and what is still on that list. `InTurn` says so while
connects take turns, `Alone` that a single call under way holds what it is to close
(`Held`), while calls do, and that an open provider nobody owns is one a connect failed to
close. Both are conditional on the history variable `overlapped`, which
only grows. `TargetIsLive` needs no such condition and is inductive with the types and the
shape of each call (`TaskOk`).

*BuildRequest*, for any number of windows. `RequestTyped` has one deep part, that one change
per window is under way, which is the queue. The bounds on revisions are not used by the
rest: `Typing` has naturals. `Queued` carries the proofs: the one change under way in a
window was made from the record as it still is, unless the window is `overtaken`, and the
change (`Follows`) keeps what was entered, numbers another spec one higher and brings
approval back only with another approval. `FreshStep` turns that into the two action
properties. `Sound` says that a record approves nothing of a higher revision than its own,
so that a new spec or input makes every approval lapse for good. `AsShown` says, until the
file is `rewound`, that a page with the record's revision shows its body and that the
record and every copy approve what was shown.

*LiveValidation*, from `NothingAssumption` and `ChangesAssumption`. `ShownIsCurrent` needs
that a result found by URI and version is of the very document that is open now. What
waits or runs is therefore shown to be of that document and of the present environment
(`Mine`, `Waiting`), because closing and invalidating cancel it; then an equal version is
an equal text (`Checked`). `NothingForgotten`, the safety core of `EventuallyShown`, says
that until diagnostics are shown the request for the present text is in some place of the
chain, or the worker failed on it. It rests on `InOrder` (what waits for the pause
and would replace the present text in the queue is that text too; after the worker failed
on the present text, no run of older text of that document goes on) and `FailedOk`. No run
lists it; TLC checked it as a conjunct of `LiveIInv` before it was proved, with the types.

Every safety invariant and every action property of the passing runs is proved. Only
model-checked are `EveryCallReturns`, `ApplicationsAreResolved`, `AgentCallsEnd`,
`EventuallyShown` and the liveness half of `NeverAGate`: liveness under fairness is outside
the prover's reach. `PublicationCanFinish`, which the code violates, is about `ENABLED`.

## 5. Not modelled

Most of the source by far transforms data without shared state: the PeopleCode compiler and
decoder, the text of SQL for about forty definition types, definition models, and the web
views that render them. What such code computes is not a question of order or failure, and
none of it is small enough to state as an operator that says less than the code.
Transport (HTTP, SOAP, drivers) appears as calls that may be answered late or not at
all. The intelligence store, `Serial`, the MCP controller and migration packages have
state worth modelling and are in the plan. Power loss between a rename and the sync
of its directory is not modelled: a replaced file is the new one or the old one.

## 6. Plan

Done, in this order: ReviewLock with Mutex; ChangeReview; their proofs; ReviewLineage;
ProcessRuntime with OneShot; BuildRequest; Connections; ManualCapture with DirectSave;
DesignerSession; WriteApprovals; LiveValidation; proofs about the last three; the rest of
ChangeReview's safety; proofs about ProcessRuntime, ManualCapture, ReviewLineage,
Connections, BuildRequest and the whole chain of LiveValidation.

Next modules, most important first:

1. The MCP controller's life cycle: start, stop and the settings while it is starting.
2. `Serial` of the database adapters (`db/connection.ts`) and the per-finding queues of
   the intelligence store.
3. MigrationPackage: the order in which a package is written and verified.
4. An abstract "reviewed write" that ChangeReview implements (open, approved, written at
   most once as approved, known or unknown), and fingerprints as tokens in ChangeReview.
