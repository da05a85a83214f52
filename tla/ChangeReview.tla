----------------------------- MODULE ChangeReview -----------------------------
(***************************************************************************)
(* The life of one Change Set: src/changeReview/service.ts (ReviewService) *)
(* over model.ts and store.ts.                                             *)
(*                                                                         *)
(* An agent stages objects; a developer, looking at a page rendered        *)
(* earlier, approves and applies them; the service writes them one by one  *)
(* through native writers that commit independently.  Meanwhile other      *)
(* developers save the same objects, the authorization context changes,    *)
(* the process crashes, and writers lose their answers.                    *)
(*                                                                         *)
(* Every operation runs inside ReviewStore.exclusive, a mutex (ReviewLock),*)
(* so that one operation is active at a time; "disk" is the stored record, *)
(* "work" the copy the active operation changes.  An operation that reads  *)
(* once and saves once is one action.  validate, apply and recover are     *)
(* split wherever a save or a call to the database lets the outside world  *)
(* be seen changing.  Checks of the target environment, of policy and of   *)
(* unsaved editors refuse like any other failing call: they are the        *)
(* failure actions, which are always possible.                             *)
(***************************************************************************)
EXTENDS Integers, FiniteSets

CONSTANTS
  Objects,      \* native definitions, none sharing a review scope with another
  Contents,     \* values a definition can have
  Absent,       \* the value of a definition that does not exist
  InitialValue, \* InitialValue[o]: the value before the Change Set
  Deletable,    \* objects whose adapter has canDelete
  InitialPlan,  \* 1: the set was created with an implementation plan, 0: without
  MaxRev,       \* bound on Change Set revisions
  MaxPlan,      \* bound on plan revisions
  MaxEdits,     \* bound on the saves of other developers and tools
  MaxAuth       \* bound on changes of the authorization context

ASSUME ContentsAssumption == Absent \in Contents /\ InitialValue \in [Objects -> Contents]
ASSUME DeletableAssumption == Deletable \subseteq Objects
ASSUME PlanAssumption == InitialPlan \in {0, 1}
ASSUME BoundsAssumption == {MaxPlan, MaxEdits} \subseteq Nat /\ {MaxRev, MaxAuth} \subseteq Nat \ {0}

VARIABLES
  disk,      \* the stored Change Set
  work,      \* the active operation's copy of it; equal to disk when idle
  pc,        \* where the active operation is
  cur,       \* the object being written, or the objects left to reconcile
  pause,     \* apply was asked to stop after the first object
  created,   \* createdThisRun: objects this application created
  stamp,     \* the authorization stamp handed to the writer
  aborted,   \* cancel() has aborted the running application
  db,        \* db[o]: live value and token; its version counter; history: did
             \* this Change Set write this version, before anybody reconciled it
  edits,     \* how many versions others wrote
  auth,      \* the current authorization context
  flight,    \* writes the database has received and not decided; history:
             \* has a reconciliation begun before it decided
  shown,     \* the page in front of the developer
  granted,   \* history: what the developer approved, as it was displayed
  sent       \* history: the writes sent to native writers

vars == <<disk, work, pc, cur, pause, created, stamp, aborted, db, edits, auth, flight, shown, granted, sent>>
applyVars == <<cur, pause, created, stamp, aborted>>
worldVars == <<db, edits, auth, flight>>
historyVars == <<granted, sent>>

-------------------------------------------------------------------------------
(***************************************************************************)
(* The stored record                                                       *)
(***************************************************************************)
Editables == {"DRAFT", "READY_FOR_REVIEW", "APPROVED", "CONFLICTED", "FAILED"}
Statuses == Editables \cup {"VALIDATING", "APPLYING", "APPLIED", "PARTIALLY_APPLIED", "CANCELLED"}

NoApproval == [rev |-> 0, before |-> Absent, after |-> Absent, base |-> 0, deps |-> {}, auth |-> 0]
NoChange == [staged |-> FALSE, before |-> Absent, after |-> Absent, base |-> 0, deps |-> {},
             review |-> "PENDING", approval |-> NoApproval, auth |-> 0,
             application |-> "PENDING", verified |-> 0]
NoPlan == [rev |-> 0, review |-> "PENDING", approved |-> 0]

Staged(set) == {o \in Objects : set.objs[o].staged}
Approved(set) == {o \in Staged(set) : set.objs[o].review = "APPROVED"}
InState(set, states) == {o \in Staged(set) : set.objs[o].application \in states}

\* planHash and approvalHash bind exactly these fields; an object's own
\* revision changes only together with the set's.
PlanApproved(set) == set.plan.rev > 0 => set.plan.review = "APPROVED" /\ set.plan.approved = set.plan.rev
ApprovalOf(set, o) ==
  [rev |-> set.rev, before |-> set.objs[o].before, after |-> set.objs[o].after,
   base |-> set.objs[o].base, deps |-> set.objs[o].deps, auth |-> set.objs[o].auth]

Editable(set) == set.status \in Editables /\ InState(set, {"PENDING"}) = Staged(set)

\* invalidate: back to DRAFT in a new revision, without any review.
Unreviewed(c) == [c EXCEPT !.review = "PENDING", !.approval = NoApproval, !.auth = 0]
Invalidated(set) ==
  [set EXCEPT !.status = "DRAFT", !.rev = set.rev + 1, !.objs = [o \in Objects |-> Unreviewed(set.objs[o])]]

\* ordered(): a dependency order of the chosen objects exists and none of
\* them depends on an object outside.
Orderable(set, chosen) ==
  /\ \A o \in chosen : set.objs[o].deps \subseteq chosen
  /\ \E rank \in [chosen -> 1 .. Cardinality(chosen)] :
       \A o \in chosen : \A d \in set.objs[o].deps : rank[d] < rank[o]

\* The least set that contains "from" and every object of "among" with a
\* dependency in it: the two fixpoint loops of the review.
DependentsOf(set, from, among) ==
  {o \in Objects : \A R \in SUBSET Objects :
     from \subseteq R /\ (\A x \in among : set.objs[x].deps \cap R # {} => x \in R) => o \in R}

\* reviewEligibleIds: neither rejected nor behind a rejected prerequisite.
Eligible(set) ==
  LET rejected == {o \in Staged(set) : set.objs[o].review = "REJECTED" \/ set.objs[o].application # "PENDING"}
  IN  Staged(set) \ DependentsOf(set, rejected, Staged(set))

\* The transitive dependencies of an object, as dependencyContext collects them.
Prerequisites(set, o) == {d \in Staged(set) : o \in DependentsOf(set, {d}, Staged(set)) \ {d}}

Live(o) == [value |-> db[o].value, token |-> db[o].token]
AtBaseline(set, o) == Live(o) = [value |-> set.objs[o].before, token |-> set.objs[o].base]
AtVerified(set, o) ==
  /\ set.objs[o].application = "VERIFIED"
  /\ Live(o) = [value |-> set.objs[o].after, token |-> set.objs[o].verified]

-------------------------------------------------------------------------------
\* The part of the page that an approval is about.
Displayed(set) == [o \in Objects |-> [value |-> set.objs[o].after, base |-> set.objs[o].base]]

Init ==
  /\ disk = [status |-> "DRAFT", rev |-> 1, plan |-> [NoPlan EXCEPT !.rev = InitialPlan],
             objs |-> [o \in Objects |-> NoChange], checkpoint |-> {}]
  /\ work = disk
  /\ pc = "idle" /\ cur = {} /\ pause = FALSE /\ created = {} /\ stamp = 0 /\ aborted = FALSE
  /\ db = [o \in Objects |-> [value |-> InitialValue[o], version |-> 1, mine |-> FALSE,
                             token |-> IF InitialValue[o] = Absent THEN 0 ELSE 1]]
  /\ auth = 1 /\ edits = 0
  /\ flight = {}
  /\ shown = [fresh |-> FALSE, rev |-> 0, objs |-> Displayed(disk)]
  /\ granted = {} /\ sent = {}

\* put() replaces the stored record; the page the developer sees is then an
\* old one, because its token hashes the whole record.
Save(set) ==
  /\ disk' = set
  /\ work' = set
  /\ shown' = [shown EXCEPT !.fresh = FALSE]
SaveAnd(set, next) == Save(set) /\ pc' = next
Return == pc' = "idle" /\ cur' = {} /\ pause' = FALSE /\ created' = {} /\ stamp' = 0 /\ aborted' = FALSE
Update(set) == pc = "idle" /\ SaveAnd(set, "idle") /\ UNCHANGED <<applyVars, worldVars>>

-------------------------------------------------------------------------------
(***************************************************************************)
(* Proposals: operations of the agent                                      *)
(***************************************************************************)
\* stage: an object enters the set, or is revised against its old baseline.
Stage(o, after, deps) ==
  LET old == disk.objs[o]
      live == Live(o)
      new == [NoChange EXCEPT !.staged = TRUE, !.before = live.value, !.base = live.token,
                              !.after = after, !.deps = deps]
      set == [Invalidated(disk) EXCEPT !.objs[o] = new]
  IN  /\ Editable(disk) /\ PlanApproved(disk) /\ disk.rev < MaxRev
      /\ deps \subseteq Staged(disk)
      /\ old.staged => AtBaseline(disk, o)
      /\ after = Absent => o \in Deletable
      /\ after # live.value
      /\ ~(old.staged /\ old.after = after /\ old.deps = deps)
      /\ Orderable(set, Staged(set))
      /\ Update(set)
      /\ UNCHANGED historyVars

\* revisePlan: a new text needs a new plan approval and new reviews.
RevisePlan ==
  /\ Editable(disk) /\ disk.rev < MaxRev /\ disk.plan.rev < MaxPlan
  /\ Update([Invalidated(disk) EXCEPT !.plan = [NoPlan EXCEPT !.rev = disk.plan.rev + 1]])
  /\ UNCHANGED historyVars

-------------------------------------------------------------------------------
(***************************************************************************)
(* Review: clicks of the developer on the page rendered last.  The service *)
(* compares the page's revision and state token with the stored record.    *)
(***************************************************************************)
Render ==
  /\ ~shown.fresh
  /\ shown' = [fresh |-> TRUE, rev |-> disk.rev, objs |-> Displayed(disk)]
  /\ UNCHANGED <<disk, work, pc, applyVars, worldVars, historyVars>>

\* Faulty: a click counts whatever page it was made on.
AnyPage == TRUE

\* checkReviewState
PageIsCurrent == shown.fresh /\ shown.rev = disk.rev

\* The page's plan click checks the token before the lock and the revision
\* under it.
ReviewPlan(decision) ==
  /\ Editable(disk) /\ disk.plan.rev > 0 /\ PageIsCurrent
  /\ decision = "REJECTED" => disk.rev < MaxRev
  /\ Update([(IF decision = "APPROVED" THEN disk ELSE Invalidated(disk)) EXCEPT
        !.plan.review = decision, !.plan.approved = IF decision = "APPROVED" THEN disk.plan.rev ELSE 0])
  /\ UNCHANGED historyVars

\* What a click on the displayed page gives leave to write.
Grant(ids) ==
  granted' = granted \cup {[obj |-> o, value |-> shown.objs[o].value, base |-> shown.objs[o].base] : o \in ids}

\* reviewLocked: the decision, then the revocation of approvals that rest on
\* a rejected object, then the order check that refuses the whole review.
Decided(set, ids, decision) ==
  LET Decide(o) ==
        IF o \notin ids THEN set.objs[o]
        ELSE [set.objs[o] EXCEPT !.review = decision,
                                 !.approval = IF decision = "APPROVED" THEN ApprovalOf(set, o) ELSE NoApproval]
      mid == [set EXCEPT !.objs = [o \in Objects |-> Decide(o)]]
      rejected == {o \in Staged(mid) : mid.objs[o].review = "REJECTED"}
      revoked == DependentsOf(mid, rejected, Approved(mid)) \ rejected
      final == [mid EXCEPT !.objs = [o \in Objects |->
                  IF o \in revoked THEN [mid.objs[o] EXCEPT !.review = "REJECTED", !.approval = NoApproval]
                  ELSE mid.objs[o]]]
  IN  [final EXCEPT !.status = IF Approved(final) = {} THEN "READY_FOR_REVIEW" ELSE "APPROVED"]

Reviewable(set, ids, decision, destructive) ==
  /\ set.status \in {"READY_FOR_REVIEW", "APPROVED"}
  /\ ids # {} /\ ids \subseteq Staged(set)
  /\ decision = "APPROVED" =>
       \A o \in ids : set.objs[o].before # Absent /\ set.objs[o].after = Absent => destructive
  /\ LET set2 == Decided(set, ids, decision) IN Orderable(set2, Approved(set2))

Review(ids, decision, destructive) ==
  /\ PageIsCurrent
  /\ Reviewable(disk, ids, decision, destructive)
  /\ Update(Decided(disk, ids, decision))
  /\ IF decision = "APPROVED" THEN Grant(ids) ELSE UNCHANGED granted
  /\ UNCHANGED sent

\* Faulty: a status the transitions do not know.
CancelMisspelt ==
  /\ disk.status \in {"DRAFT", "READY_FOR_REVIEW"}
  /\ Update([disk EXCEPT !.status = "CANCELED"])
  /\ UNCHANGED historyVars

\* cancel of a set no application of this process is running on.  The table
\* of transitions lets these states go to CANCELLED.
Cancel ==
  /\ disk.status \in {"DRAFT", "READY_FOR_REVIEW", "APPROVED", "CONFLICTED"}
  /\ disk.status = "CONFLICTED" => InState(disk, {"PENDING"}) = Staged(disk)
  /\ Update([disk EXCEPT !.status = "CANCELLED"])
  /\ UNCHANGED historyVars

-------------------------------------------------------------------------------
(***************************************************************************)
(* validate                                                                *)
(***************************************************************************)
\* An interrupted validation may be begun again.  The page offers the command
\* for the editable statuses only: for VALIDATING it takes an agent's
\* psft_validate_change_set.
ValidateBegin ==
  /\ pc = "idle"
  /\ Editable(IF disk.status = "VALIDATING" THEN [disk EXCEPT !.status = "DRAFT"] ELSE disk)
  /\ PlanApproved(disk) /\ Staged(disk) # {}
  /\ SaveAnd([disk EXCEPT !.status = "VALIDATING"], "validating")
  /\ UNCHANGED <<applyVars, worldVars, historyVars>>

\* Faulty: earlier reviews survive a validation.
RevalidatedKeepsReviews(set, reached, stamped) ==
  [set EXCEPT !.objs = [o \in Objects |->
     IF o \in stamped THEN [set.objs[o] EXCEPT !.auth = auth] ELSE set.objs[o]]]

\* The reviews of the objects the loop reached are gone; those it read at
\* their baseline may carry the current authorization stamp.
Revalidated(set, reached, stamped) ==
  [set EXCEPT !.objs = [o \in Objects |->
     IF o \notin reached THEN set.objs[o]
     ELSE [set.objs[o] EXCEPT !.review = "PENDING", !.approval = NoApproval,
                              !.auth = IF o \in stamped THEN auth ELSE set.objs[o].auth]]]

ValidatePass ==
  LET all == Staged(work) IN
  /\ pc = "validating"
  /\ \A o \in all : AtBaseline(work, o)
  /\ SaveAnd([Revalidated(work, all, all) EXCEPT !.status = "READY_FOR_REVIEW"], "idle")
  /\ UNCHANGED <<applyVars, worldVars, historyVars>>

\* Drift, findings or a failing call at any object of the loop.
ValidateFail ==
  /\ pc = "validating"
  /\ \E reached \in SUBSET Staged(work) :
       \E stamped \in SUBSET {o \in reached : AtBaseline(work, o)} :
         SaveAnd([Revalidated(work, reached, stamped) EXCEPT !.status = "CONFLICTED"], "idle")
  /\ UNCHANGED <<applyVars, worldVars, historyVars>>

-------------------------------------------------------------------------------
(***************************************************************************)
(* apply and approveAndApply                                               *)
(***************************************************************************)
Applying == {"preflight", "begin", "next", "intent", "stamp", "send", "sent", "readback", "record", "pausing", "stopping"}

StartApply(stop) ==
  /\ pc' = "preflight" /\ pause' = stop
  /\ UNCHANGED <<cur, created, stamp, aborted, worldVars, sent>>

ApplyBegin(stop) ==
  /\ pc = "idle" /\ PageIsCurrent
  /\ disk.status = "APPROVED" /\ Approved(disk) # {} /\ Orderable(disk, Approved(disk))
  /\ StartApply(stop)
  /\ UNCHANGED <<disk, work, shown, granted>>

\* One click approves every eligible object and applies them, under one lock.
ApproveAndApply(destructive) ==
  /\ pc = "idle" /\ PageIsCurrent /\ PlanApproved(disk)
  /\ Reviewable(disk, Eligible(disk), "APPROVED", destructive)
  /\ Save(Decided(disk, Eligible(disk), "APPROVED"))
  /\ Grant(Eligible(disk))
  /\ StartApply(FALSE)

\* Faulty: the before-images are checked but not kept.
PreflightWithoutCheckpoint ==
  /\ pc = "preflight"
  /\ PlanApproved(work)
  /\ \A o \in Approved(work) : AtBaseline(work, o) /\ work.objs[o].approval = ApprovalOf(work, o)
  /\ work' = [work EXCEPT !.status = "APPLYING"]
  /\ pc' = "begin"
  /\ UNCHANGED <<disk, applyVars, shown, worldVars, historyVars>>

\* Every object is checked before the first one is written, and its
\* before-image is stored with the status APPLYING.
PreflightPass ==
  /\ pc = "preflight"
  /\ PlanApproved(work)
  /\ \A o \in Approved(work) :
       /\ work.objs[o].approval = ApprovalOf(work, o)
       /\ AtBaseline(work, o)
       /\ auth = work.objs[o].auth
  /\ work' = [work EXCEPT !.status = "APPLYING", !.checkpoint = Approved(work)]
  /\ pc' = "begin"
  /\ UNCHANGED <<disk, applyVars, shown, worldVars, historyVars>>

PreflightFail ==
  /\ pc = "preflight"
  /\ Save([work EXCEPT !.status = "CONFLICTED"])
  /\ Return
  /\ UNCHANGED <<worldVars, historyVars>>

\* Faulty: the objects are written in the order they were staged.
CheckNextUnordered(o) ==
  /\ pc = "next" /\ ~aborted
  /\ o \in Approved(work) /\ work.objs[o].application = "PENDING"
  /\ AtBaseline(work, o)
  /\ work' = [work EXCEPT !.objs[o].application = "APPLYING"]
  /\ cur' = {o}
  /\ pc' = "intent"
  /\ UNCHANGED <<disk, pause, created, stamp, aborted, shown, worldVars, historyVars>>

\* The checks right before one writer.  They pass for the next object in
\* dependency order whose baseline and dependencies are still in place.
CheckNext(o) ==
  /\ pc = "next" /\ ~aborted
  /\ o \in Approved(work) /\ work.objs[o].application = "PENDING"
  /\ AtBaseline(work, o)
  /\ \A d \in Prerequisites(work, o) : AtVerified(work, d)
  /\ work' = [work EXCEPT !.objs[o].application = "APPLYING"]
  /\ cur' = {o}
  /\ pc' = "intent"
  /\ UNCHANGED <<disk, pause, created, stamp, aborted, shown, worldVars, historyVars>>

\* Faulty: the intent to write is recorded together with its result.
SaveProgressLate ==
  /\ pc \in {"begin", "intent", "record"}
  /\ IF pc = "intent" THEN pc' = "stamp" /\ UNCHANGED <<disk, work, shown>>
     ELSE SaveAnd(work, IF pc = "record" /\ pause /\ Cardinality(Approved(work)) > 1 THEN "pausing" ELSE "next")
  /\ UNCHANGED <<applyVars, worldVars, historyVars>>

\* What the loop has decided is stored before it goes on: the status APPLYING
\* with the before-images, WRITE_STARTED before the writer is called, and
\* WRITE_VERIFIED.
SaveProgress ==
  \/ pc = "begin" /\ SaveAnd(work, "next") /\ UNCHANGED <<applyVars, worldVars, historyVars>>
  \/ pc = "intent" /\ SaveAnd(work, "stamp") /\ UNCHANGED <<applyVars, worldVars, historyVars>>
  \/ /\ pc = "record"
     /\ SaveAnd(work, IF pause /\ Cardinality(Approved(work)) > 1 THEN "pausing" ELSE "next")
     /\ UNCHANGED <<applyVars, worldVars, historyVars>>

\* The authorization stamp must still be the reviewed one; an object judged
\* by its owner may carry a new one after this run created that owner.
CheckStamp(o) ==
  /\ pc = "stamp" /\ cur = {o}
  /\ \/ auth = work.objs[o].auth
     \/ work.objs[o].before = Absent /\ work.objs[o].deps \cap created # {}
  /\ stamp' = auth
  /\ pc' = "send"
  /\ UNCHANGED <<disk, work, cur, pause, created, aborted, shown, worldVars, historyVars>>

\* The adapter's writer compares the stamp once more, then the database
\* receives the statement together with the token it must still find.
SendWrite(o) ==
  /\ pc = "send" /\ cur = {o} /\ auth = stamp
  /\ LET write == [obj |-> o, value |-> work.objs[o].after, base |-> work.objs[o].base, late |-> FALSE]
     IN  /\ flight' = flight \cup {write}
         /\ sent' = sent \cup {[obj |-> o, value |-> write.value, base |-> write.base,
                                nth |-> Cardinality({w \in sent : w.obj = o}) + 1]}
  /\ pc' = "sent"
  /\ UNCHANGED <<disk, work, applyVars, db, edits, auth, shown, granted>>

\* The writer's own transaction: it locks the definition, compares the token
\* and commits.  Its answer reaches the service only while that still waits.
Awaited(write) == pc = "sent" /\ cur = {write.obj}
NewVersion(o, value, mine) ==
  [value |-> value, version |-> db[o].version + 1, mine |-> mine,
   token |-> IF value = Absent THEN 0 ELSE db[o].version + 1]
Commit(write) ==
  /\ db[write.obj].token = write.base
  /\ db' = [db EXCEPT ![write.obj] = NewVersion(write.obj, write.value, ~write.late)]
  /\ flight' = flight \ {write}
  /\ pc' = IF Awaited(write) THEN "readback" ELSE pc
  /\ UNCHANGED <<disk, work, applyVars, edits, auth, shown, historyVars>>

\* The writer refuses, or its transaction is rolled back.
Rollback(write) ==
  /\ flight' = flight \ {write}
  /\ pc' = IF Awaited(write) THEN "stopping" ELSE pc
  /\ UNCHANGED <<disk, work, applyVars, db, edits, auth, shown, historyVars>>

\* The value read after the write is the reviewed one.
Readback(o) ==
  /\ pc = "readback" /\ cur = {o} /\ db[o].value = work.objs[o].after
  /\ work' = [work EXCEPT !.objs[o].application = "VERIFIED", !.objs[o].verified = db[o].token]
  /\ created' = IF work.objs[o].before = Absent THEN created \cup {o} ELSE created
  /\ pc' = "record"
  /\ UNCHANGED <<disk, cur, pause, stamp, aborted, shown, worldVars, historyVars>>

PauseBetweenWriters ==
  /\ pc = "pausing"
  /\ Save([work EXCEPT !.status = "PARTIALLY_APPLIED"])
  /\ Return
  /\ UNCHANGED <<worldVars, historyVars>>

\* All writers are done, and what other objects rest on is still in place.
Finish ==
  /\ pc = "next"
  /\ \A o \in Approved(work) :
       /\ work.objs[o].application = "VERIFIED"
       /\ \A d \in Prerequisites(work, o) : AtVerified(work, d)
  /\ Save([work EXCEPT !.status = "APPLIED"])
  /\ Return
  /\ UNCHANGED <<worldVars, historyVars>>

\* Any check, call or save of the loop throws; a lost answer of the writer
\* and an abort are among them.
Throw ==
  /\ pc \in Applying \ {"preflight", "stopping"}
  /\ pc' = "stopping"
  /\ UNCHANGED <<disk, work, applyVars, shown, worldVars, historyVars>>

\* Faulty: only a verified write counts as an effect.
StoppedCountsVerified(set) ==
  [set EXCEPT !.status = IF InState(set, {"VERIFIED"}) # {} THEN "PARTIALLY_APPLIED" ELSE "FAILED",
              !.objs = [o \in Objects |->
                 IF set.objs[o].application = "APPLYING" THEN [set.objs[o] EXCEPT !.application = "UNCERTAIN"]
                 ELSE set.objs[o]]]

\* The catch of applyLocked after the status APPLYING was stored.
Stopped(set) ==
  LET after == [set EXCEPT !.objs = [o \in Objects |->
                 IF set.objs[o].application = "APPLYING" THEN [set.objs[o] EXCEPT !.application = "UNCERTAIN"]
                 ELSE set.objs[o]]]
  IN  [after EXCEPT !.status = IF InState(after, {"VERIFIED", "UNCERTAIN"}) # {} THEN "PARTIALLY_APPLIED" ELSE "FAILED"]

Stop ==
  /\ pc = "stopping"
  /\ Save(Stopped(work))
  /\ Return
  /\ UNCHANGED <<worldVars, historyVars>>

\* cancel of a running application: only a flag, looked at before the next
\* object.
Abort ==
  /\ pc \in Applying /\ ~aborted
  /\ aborted' = TRUE
  /\ UNCHANGED <<disk, work, pc, cur, pause, created, stamp, shown, worldVars, historyVars>>

-------------------------------------------------------------------------------
(***************************************************************************)
(* recover                                                                 *)
(***************************************************************************)
\* Faulty: only a stop that was recorded is reconciled.
RecoverBeginStopped ==
  /\ pc = "idle"
  /\ disk.status = "PARTIALLY_APPLIED"
  /\ pc' = "recovering"
  /\ cur' = InState(disk, {"APPLYING", "UNCERTAIN", "VERIFIED"})
  /\ flight' = {[write EXCEPT !.late = TRUE] : write \in flight}
  /\ UNCHANGED <<disk, work, pause, created, stamp, aborted, shown, db, edits, auth, historyVars>>

RecoverBegin ==
  /\ pc = "idle"
  /\ disk.status \in {"APPLYING", "PARTIALLY_APPLIED"}
  /\ pc' = "recovering"
  /\ cur' = InState(disk, {"APPLYING", "UNCERTAIN", "VERIFIED"})
  /\ flight' = {[write EXCEPT !.late = TRUE] : write \in flight}
  /\ UNCHANGED <<disk, work, pause, created, stamp, aborted, shown, db, edits, auth, historyVars>>

Reconciled(c, live) ==
  IF live.value = c.after THEN [c EXCEPT !.application = "VERIFIED", !.verified = live.token]
  ELSE IF c.application # "VERIFIED" /\ live = [value |-> c.before, token |-> c.base]
       THEN [c EXCEPT !.application = "PENDING", !.verified = 0]
       ELSE [c EXCEPT !.application = "UNCERTAIN"]

RecoverObject(o) ==
  /\ pc = "recovering" /\ o \in cur
  /\ work' = [work EXCEPT !.objs[o] = Reconciled(work.objs[o], Live(o))]
  /\ cur' = cur \ {o}
  /\ UNCHANGED <<disk, pc, pause, created, stamp, aborted, shown, worldVars, historyVars>>

\* Faulty: a set with one verified object counts as applied.
RecoverEndSome ==
  /\ pc = "recovering" /\ cur = {}
  /\ Save([work EXCEPT !.status =
        IF Approved(work) \cap InState(work, {"VERIFIED"}) # {} THEN "APPLIED" ELSE "PARTIALLY_APPLIED"])
  /\ Return
  /\ UNCHANGED <<worldVars, historyVars>>

\* Faulty: a set without a persisted write becomes an ordinary failure.
RecoverEndFailed ==
  /\ pc = "recovering" /\ cur = {}
  /\ Save([work EXCEPT !.status =
        IF InState(work, {"PENDING"}) = Staged(work) THEN "FAILED"
        ELSE IF Approved(work) \subseteq InState(work, {"VERIFIED"}) THEN "APPLIED" ELSE "PARTIALLY_APPLIED"])
  /\ Return
  /\ UNCHANGED <<worldVars, historyVars>>

RecoverEnd ==
  /\ pc = "recovering" /\ cur = {}
  /\ Save([work EXCEPT !.status =
        IF Approved(work) # {} /\ Approved(work) \subseteq InState(work, {"VERIFIED"})
        THEN "APPLIED" ELSE "PARTIALLY_APPLIED"])
  /\ Return
  /\ UNCHANGED <<worldVars, historyVars>>

-------------------------------------------------------------------------------
(***************************************************************************)
(* The world around the operation                                          *)
(***************************************************************************)
\* The process dies, or an exception that no catch of the operation saves
\* leaves it (a failing last save, a failing read of recover): the stored
\* record stands, the copy is gone.
Crash ==
  /\ pc # "idle"
  /\ work' = disk
  /\ Return
  /\ UNCHANGED <<disk, shown, worldVars, historyVars>>

\* Another developer or tool saves, creates or deletes the definition.
Edit(o, value) ==
  /\ edits < MaxEdits /\ edits' = edits + 1
  /\ value # Absent \/ db[o].value # Absent
  /\ db' = [db EXCEPT ![o] = NewVersion(o, value, FALSE)]
  /\ UNCHANGED <<disk, work, pc, applyVars, auth, flight, shown, historyVars>>

\* Policy, ownership, operator or writability change.
ChangeAuthorization ==
  /\ auth < MaxAuth
  /\ auth' = auth + 1
  /\ UNCHANGED <<disk, work, pc, applyVars, db, edits, flight, shown, historyVars>>

Agent == RevisePlan \/ \E o \in Objects, after \in Contents, deps \in SUBSET Objects : Stage(o, after, deps)
Decisions == {"APPROVED", "REJECTED"}
Developer ==
  \/ Render \/ Cancel \/ ValidateBegin \/ RecoverBegin \/ Abort
  \/ \E decision \in Decisions : ReviewPlan(decision)
  \/ \E ids \in SUBSET Objects, decision \in Decisions, destructive \in BOOLEAN : Review(ids, decision, destructive)
  \/ \E destructive \in BOOLEAN : ApproveAndApply(destructive)
  \/ \E stop \in BOOLEAN : ApplyBegin(stop)
Service ==
  \/ ValidatePass \/ ValidateFail \/ PreflightPass \/ PreflightFail \/ SaveProgress
  \/ PauseBetweenWriters \/ Finish \/ Throw \/ Stop \/ RecoverEnd
  \/ \E o \in Objects : CheckNext(o) \/ CheckStamp(o) \/ SendWrite(o) \/ Readback(o) \/ RecoverObject(o)
World ==
  \/ Crash \/ ChangeAuthorization
  \/ \E write \in flight : Commit(write) \/ Rollback(write)
  \/ \E o \in Objects, value \in Contents : Edit(o, value)

Next == Agent \/ Developer \/ Service \/ World
Spec == Init /\ [][Next]_vars

(***************************************************************************)
(* Fairness: an awaited call returns and the operation takes its next      *)
(* step, the database decides the transactions it received, and a          *)
(* developer answers a set that stays APPLYING with "Reconcile live        *)
(* state", which the page offers for it.  The page offers nothing for      *)
(* VALIDATING, so nothing is assumed there.  Processes do not crash, nor   *)
(* reads fail, for ever.                                                   *)
(***************************************************************************)
FairSpec ==
  /\ Spec
  /\ WF_vars(Service)
  /\ WF_vars(\E write \in flight : Commit(write) \/ Rollback(write))
  /\ WF_vars(RecoverBegin /\ disk.status = "APPLYING")
  /\ <>[][~Crash]_vars

-------------------------------------------------------------------------------
(***************************************************************************)
(* Properties                                                              *)
(***************************************************************************)
Approvals == [rev : 0 .. MaxRev, before : Contents, after : Contents, base : Nat, deps : SUBSET Objects, auth : Nat]
Changes == [staged : BOOLEAN, before : Contents, after : Contents, base : Nat, deps : SUBSET Objects,
            review : {"PENDING", "APPROVED", "REJECTED"}, approval : Approvals, auth : Nat,
            application : {"PENDING", "APPLYING", "VERIFIED", "UNCERTAIN"}, verified : Nat]
Plans == [rev : Nat, review : {"PENDING", "APPROVED", "REJECTED"}, approved : Nat]
Sets == [status : Statuses, rev : 1 .. MaxRev, plan : Plans, objs : [Objects -> Changes], checkpoint : SUBSET Objects]

TypeOK ==
  /\ disk \in Sets /\ work \in Sets
  /\ pc \in Applying \cup {"idle", "validating", "recovering"}
  /\ cur \in SUBSET Objects /\ created \in SUBSET Objects
  /\ pause \in BOOLEAN /\ aborted \in BOOLEAN /\ stamp \in Nat
  /\ db \in [Objects -> [value : Contents, version : Nat, token : Nat, mine : BOOLEAN]]
  /\ auth \in 1 .. MaxAuth /\ edits \in 0 .. MaxEdits
  /\ flight \subseteq [obj : Objects, value : Contents, base : Nat, late : BOOLEAN]
  /\ shown \in [fresh : BOOLEAN, rev : 0 .. MaxRev, objs : [Objects -> [value : Contents, base : Nat]]]
  /\ granted \subseteq [obj : Objects, value : Contents, base : Nat]
  /\ sent \subseteq [obj : Objects, value : Contents, base : Nat, nth : Nat]

\* Whatever reaches a native writer is a value, against a baseline, that the
\* page showed to the developer when the click that approved it was made,
\* however often the agent restaged in between.
WrittenAsDisplayed ==
  \A w \in sent : [obj |-> w.obj, value |-> w.value, base |-> w.base] \in granted

\* No object is sent to its writer twice: not after a crash, a lost answer, a
\* reconciliation, an abort or a renewed application.
WrittenOnce == \A w \in sent : w.nth = 1

\* A write rests, for good, on an approval nobody revoked, on an approved
\* plan, and on a before-image that was stored before it.
WriteIsBacked ==
  \A w \in sent : w.obj \in Approved(disk) \cap disk.checkpoint /\ PlanApproved(disk)

\* A set that may have changed the database is never cancelled, discarded,
\* revised or shown as failed without effect.
EffectsAreRemembered ==
  sent # {} => disk.status \in {"APPLYING", "PARTIALLY_APPLIED", "APPLIED"}

\* While the version the set wrote is the live one, the stored record does
\* not call the object untouched, whatever crashed in between; unless the
\* database committed it after a reconciliation had already looked.
NoForgottenWrite == \A o \in Objects : db[o].mine => disk.objs[o].application # "PENDING"

\* An applied set has verified everything that was approved, and touched
\* nothing else.
AppliedIsComplete ==
  disk.status = "APPLIED" =>
    /\ Approved(disk) # {}
    /\ \A o \in Staged(disk) : disk.objs[o].application =
                               IF o \in Approved(disk) THEN "VERIFIED" ELSE "PENDING"

\* What can be applied was approved in its present form, on the present plan,
\* together with everything it depends on, and after the last validation.
ApprovalsAreCurrent ==
  disk.status \in {"READY_FOR_REVIEW", "APPROVED"} =>
    /\ PlanApproved(disk)
    /\ \A o \in Approved(disk) :
         disk.objs[o].approval = ApprovalOf(disk, o) /\ disk.objs[o].deps \subseteq Approved(disk)

\* A dependent is sent only when its prerequisites are verified on disk.
PrerequisitesFirst ==
  [][\A w \in sent' \ sent : \A d \in disk.objs[w.obj].deps : disk.objs[d].application = "VERIFIED"]_vars

\* No interruption leaves a set APPLYING for ever: not a crash at any place of
\* the application, nor one in the reconciliation that answers it.
ApplicationsAreResolved == disk.status = "APPLYING" ~> disk.status # "APPLYING"

\* The same of a validation, which the code leaves to an agent.
ValidationsAreResolved == disk.status = "VALIDATING" ~> disk.status # "VALIDATING"
===============================================================================
