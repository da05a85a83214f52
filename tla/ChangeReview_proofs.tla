------------------------- MODULE ChangeReview_proofs -------------------------
(***************************************************************************)
(* Proofs about the life of a Change Set, for any objects, contents and    *)
(* bounds, whenever the database decides the writes it received.           *)
(***************************************************************************)
EXTENDS ChangeReview, FiniteSetTheorems, TLAPS

\* The phases between the two saves that bracket the calls of the writers.
Writing == {"next", "intent", "stamp", "send", "sent", "readback", "record", "pausing"}
Touched == {"APPLYING", "PARTIALLY_APPLIED", "APPLIED"}

TypeInv == TypeOK /\ IsFiniteSet(sent)

\* A stored set, and the active copy of it: nothing is written before its
\* status says so, nothing but approved objects is written at all, and what
\* is approved was displayed.
Pristine(set) == \A o \in Objects : set.objs[o].application = "PENDING"
GrantFor(set, o) == [obj |-> o, value |-> set.objs[o].after, base |-> set.objs[o].base]
Sound(set) ==
  /\ set.status \notin Touched => Pristine(set)
  /\ \A o \in Objects : set.objs[o].application # "PENDING" => o \in Approved(set)
Granted(set) == \A o \in Approved(set) : GrantFor(set, o) \in granted

\* What an operation's copy may differ in from the stored record.
SameProposal(a, b) ==
  /\ a.plan = b.plan
  /\ \A o \in Objects : /\ a.objs[o].staged = b.objs[o].staged
                        /\ a.objs[o].review = b.objs[o].review

Phase ==
  /\ pc \in {"idle", "validating", "preflight"} => work = disk
  /\ pc = "validating" => disk.status = "VALIDATING"
  /\ pc \in {"preflight", "begin"} => disk.status = "APPROVED"
  /\ pc \in Writing => disk.status = "APPLYING" /\ disk.checkpoint = work.checkpoint
  /\ pc = "stopping" => disk.status \in {"APPROVED", "APPLYING"}
  /\ pc = "recovering" => disk.status \in {"APPLYING", "PARTIALLY_APPLIED"} /\ work.status = disk.status
                          /\ disk.checkpoint = work.checkpoint
  /\ pc \in Applying => Approved(work) # {}
  /\ pc \in Writing \cup {"begin", "stopping"} =>
       work.status = "APPLYING" /\ PlanApproved(work) /\ work.checkpoint = Approved(work)

\* The writes of the running application, and the object it is at.
Marked == pc \in Writing \cup {"stopping"} => \A w \in sent : work.objs[w.obj].application # "PENDING"
Current ==
  /\ pc \in {"intent", "stamp", "send", "sent", "readback", "recovering"} => cur \subseteq Approved(work)
  /\ pc \in {"intent", "stamp", "send"} =>
       /\ \A o \in cur : work.objs[o].application # "PENDING"
       /\ \A w \in sent : w.obj \notin cur

\* Two records propose the same change of every object.
SameChange(c, d) ==
  /\ c.staged = d.staged /\ c.deps = d.deps
  /\ c.before = d.before /\ c.base = d.base /\ c.after = d.after
SameChanges(a, b) == \A o \in Objects : SameChange(a.objs[o], b.objs[o])

PageShowsDisk == shown.fresh => shown.objs = Displayed(disk)

IInv ==
  /\ TypeInv
  /\ Sound(disk) /\ Sound(work)
  /\ Granted(disk) /\ Granted(work)
  /\ SameProposal(work, disk)
  /\ Phase
  /\ Marked
  /\ Current
  /\ PageShowsDisk
  /\ WrittenAsDisplayed
  /\ WrittenOnce
  /\ WriteIsBacked
  /\ EffectsAreRemembered
  /\ AppliedIsComplete

-------------------------------------------------------------------------------
(***************************************************************************)
(* What the operators on a stored set return                               *)
(***************************************************************************)
\* The bounds are natural numbers, and those of revisions are positive.
LEMMA Bounds == MaxRev \in Nat \ {0} /\ MaxAuth \in Nat \ {0} /\ MaxPlan \in Nat /\ MaxEdits \in Nat
  BY BoundsAssumption

\* The values of an object without change or approval have their types.
LEMMA NoValues == Absent \in Contents /\ NoApproval \in Approvals /\ NoChange \in Changes
<1>1. Absent \in Contents
  BY ContentsAssumption
<1>2. NoApproval \in Approvals
  BY <1>1, Bounds DEF NoApproval, Approvals
<1>3. NoChange \in Changes
  BY <1>1, <1>2 DEF NoChange, Changes
<1> QED
  BY <1>1, <1>2, <1>3

\* A new status leaves a set a set.
LEMMA StatusType ==
  ASSUME NEW set \in Sets, NEW s \in Statuses
  PROVE  LET new == [set EXCEPT !.status = s]
         IN  /\ new \in Sets /\ new.status = s /\ new.objs = set.objs
             /\ new.plan = set.plan /\ new.rev = set.rev /\ new.checkpoint = set.checkpoint
  BY DEF Sets

\* invalidate() keeps every object in the set and removes every review.
LEMMA InvalidatedType ==
  ASSUME NEW set \in Sets, set.rev < MaxRev
  PROVE  LET new == Invalidated(set)
         IN  /\ new \in Sets /\ new.status = "DRAFT" /\ new.plan = set.plan
             /\ SameChanges(new, set)
             /\ \A o \in Objects : /\ new.objs[o].staged = set.objs[o].staged
                                   /\ new.objs[o].application = set.objs[o].application
                                   /\ new.objs[o].review = "PENDING"
<1> DEFINE objs == [o \in Objects |-> Unreviewed(set.objs[o])]
<1>1. ASSUME NEW o \in Objects
      PROVE  /\ Unreviewed(set.objs[o]) \in Changes
             /\ SameChange(Unreviewed(set.objs[o]), set.objs[o])
             /\ Unreviewed(set.objs[o]).staged = set.objs[o].staged
             /\ Unreviewed(set.objs[o]).application = set.objs[o].application
             /\ Unreviewed(set.objs[o]).review = "PENDING"
  BY NoValues DEF Sets, Changes, Unreviewed, SameChange
<1>2. objs \in [Objects -> Changes]
  BY <1>1
<1>3. "DRAFT" \in Statuses /\ set.rev + 1 \in 1 .. MaxRev
  BY Bounds DEF Statuses, Editables, Sets
<1> QED
  BY <1>1, <1>2, <1>3 DEF Invalidated, Sets, SameChanges

\* A validation removes reviews and changes no proposal.
LEMMA RevalidatedType ==
  ASSUME NEW set \in Sets, NEW reached, NEW stamped, auth \in Nat
  PROVE  LET new == Revalidated(set, reached, stamped)
         IN  /\ new \in Sets /\ new.plan = set.plan /\ new.rev = set.rev
             /\ new.checkpoint = set.checkpoint
             /\ SameChanges(new, set)
             /\ \A o \in Objects : /\ new.objs[o].staged = set.objs[o].staged
                                   /\ new.objs[o].application = set.objs[o].application
                                   /\ o \in reached => new.objs[o].review = "PENDING"
                                   /\ new.objs[o].after = set.objs[o].after
                                   /\ new.objs[o].base = set.objs[o].base
                                   /\ new.objs[o].review \in {"PENDING", set.objs[o].review}
<1> DEFINE objs == [o \in Objects |->
     IF o \notin reached THEN set.objs[o]
     ELSE [set.objs[o] EXCEPT !.review = "PENDING", !.approval = NoApproval,
                              !.auth = IF o \in stamped THEN auth ELSE set.objs[o].auth]]
<1>1. ASSUME NEW o \in Objects
      PROVE  /\ objs[o] \in Changes
             /\ objs[o].staged = set.objs[o].staged
             /\ objs[o].application = set.objs[o].application
             /\ objs[o].after = set.objs[o].after
             /\ objs[o].base = set.objs[o].base
             /\ objs[o].review \in {"PENDING", set.objs[o].review}
             /\ o \in reached => objs[o].review = "PENDING"
             /\ SameChange(objs[o], set.objs[o])
  BY NoValues DEF Sets, Changes, SameChange
<1>2. objs \in [Objects -> Changes]
  BY <1>1
<1> HIDE DEF objs
<1>3. Revalidated(set, reached, stamped) = [set EXCEPT !.objs = objs]
  BY DEF Revalidated, objs
<1> QED
  BY <1>1, <1>2, <1>3 DEF Sets, SameChanges

\* A review decides about the named objects, may revoke others, and changes
\* nothing else of any of them.
LEMMA DecidedType ==
  ASSUME NEW set \in Sets, NEW ids, NEW decision \in Decisions
  PROVE  LET new == Decided(set, ids, decision)
         IN  /\ new \in Sets /\ new.status \in {"READY_FOR_REVIEW", "APPROVED"}
             /\ new.status = "APPROVED" <=> Approved(new) # {}
             /\ new.plan = set.plan /\ new.rev = set.rev /\ new.checkpoint = set.checkpoint
             /\ SameChanges(new, set)
             /\ \A o \in Objects :
                  /\ new.objs[o].staged = set.objs[o].staged
                  /\ new.objs[o].application = set.objs[o].application
                  /\ new.objs[o].after = set.objs[o].after
                  /\ new.objs[o].base = set.objs[o].base
                  /\ new.objs[o].auth = set.objs[o].auth
                  /\ new.objs[o].review = "APPROVED" =>
                       set.objs[o].review = "APPROVED" \/ (o \in ids /\ decision = "APPROVED")
                  /\ new.objs[o].review = "APPROVED" =>
                       \/ new.objs[o].approval = ApprovalOf(set, o)
                       \/ /\ set.objs[o].review = "APPROVED"
                          /\ new.objs[o].approval = set.objs[o].approval
<1> DEFINE Decide(o) ==
        IF o \notin ids THEN set.objs[o]
        ELSE [set.objs[o] EXCEPT !.review = decision,
                                 !.approval = IF decision = "APPROVED" THEN ApprovalOf(set, o) ELSE NoApproval]
      mid == [set EXCEPT !.objs = [o \in Objects |-> Decide(o)]]
      rejected == {o \in Staged(mid) : mid.objs[o].review = "REJECTED"}
      revoked == DependentsOf(mid, rejected, Approved(mid)) \ rejected
      final == [mid EXCEPT !.objs = [o \in Objects |->
                  IF o \in revoked THEN [mid.objs[o] EXCEPT !.review = "REJECTED", !.approval = NoApproval]
                  ELSE mid.objs[o]]]
      new == Decided(set, ids, decision)
      Kept(a, b) == SameChange(a, b) /\ a.application = b.application /\ a.auth = b.auth
<1>1. ASSUME NEW o \in Objects
      PROVE  /\ Decide(o) \in Changes /\ Kept(Decide(o), set.objs[o])
             /\ Decide(o).review = "APPROVED" =>
                  set.objs[o].review = "APPROVED" \/ (o \in ids /\ decision = "APPROVED")
             /\ Decide(o).review = "APPROVED" =>
                  \/ Decide(o).approval = ApprovalOf(set, o)
                  \/ set.objs[o].review = "APPROVED" /\ Decide(o).approval = set.objs[o].approval
  <2>1. ApprovalOf(set, o) \in Approvals
    BY Bounds DEF ApprovalOf, Approvals, Sets, Changes
  <2> QED
    BY <2>1, NoValues DEF Sets, Changes, Decisions, SameChange
<1> HIDE DEF Decide
<1>2. mid \in Sets /\ \A o \in Objects : mid.objs[o] = Decide(o)
  BY <1>1 DEF Sets
<1>3. mid.plan = set.plan /\ mid.rev = set.rev /\ mid.checkpoint = set.checkpoint
  BY DEF Sets
<1> HIDE DEF mid
<1> HIDE DEF revoked
<1>4. ASSUME NEW o \in Objects
      PROVE  LET c == IF o \in revoked THEN [mid.objs[o] EXCEPT !.review = "REJECTED", !.approval = NoApproval]
                      ELSE mid.objs[o]
             IN  /\ c \in Changes /\ Kept(c, mid.objs[o])
                 /\ c.review = "APPROVED" => mid.objs[o].review = "APPROVED" /\ c.approval = mid.objs[o].approval
  BY <1>2, NoValues DEF Sets, Changes, SameChange
<1>5. /\ final \in Sets
      /\ \A o \in Objects :
           /\ Kept(final.objs[o], mid.objs[o])
           /\ final.objs[o].review = "APPROVED" =>
                mid.objs[o].review = "APPROVED" /\ final.objs[o].approval = mid.objs[o].approval
      /\ final.plan = mid.plan /\ final.rev = mid.rev /\ final.checkpoint = mid.checkpoint
  BY <1>2, <1>4 DEF Sets
<1>6. new = [final EXCEPT !.status = IF Approved(final) = {} THEN "READY_FOR_REVIEW" ELSE "APPROVED"]
  BY DEF Decided, final, revoked, mid, Decide
<1> HIDE DEF final, new
<1>7. /\ new \in Sets /\ new.objs = final.objs /\ new.plan = final.plan /\ new.rev = final.rev
      /\ new.checkpoint = final.checkpoint
      /\ new.status = IF Approved(final) = {} THEN "READY_FOR_REVIEW" ELSE "APPROVED"
  BY <1>5, <1>6 DEF Sets, Statuses, Editables
<1>8. Approved(new) = Approved(final)
  BY <1>7 DEF Approved, Staged
<1> QED
  BY <1>1, <1>2, <1>3, <1>5, <1>7, <1>8 DEF new, SameChange, SameChanges

\* One object's application changes, with the token it was verified at.
LEMMA ApplicationType ==
  ASSUME NEW set \in Sets, NEW o \in Objects, NEW c \in Changes
  PROVE  LET new == [set EXCEPT !.objs[o] = c]
         IN  /\ new \in Sets /\ new.plan = set.plan /\ new.status = set.status
             /\ new.checkpoint = set.checkpoint /\ new.rev = set.rev
             /\ \A p \in Objects : new.objs[p] = IF p = o THEN c ELSE set.objs[p]
  BY DEF Sets

\* An application that stops leaves no object in the middle of a write and
\* counts the effects that may exist.
LEMMA StoppedType ==
  ASSUME NEW set \in Sets
  PROVE  LET new == Stopped(set)
         IN  /\ new \in Sets /\ new.plan = set.plan /\ new.checkpoint = set.checkpoint
             /\ SameChanges(new, set)
             /\ \A o \in Objects :
                  /\ new.objs[o].staged = set.objs[o].staged
                  /\ new.objs[o].review = set.objs[o].review
                  /\ new.objs[o].after = set.objs[o].after
                  /\ new.objs[o].base = set.objs[o].base
                  /\ new.objs[o].application =
                       IF set.objs[o].application = "APPLYING" THEN "UNCERTAIN" ELSE set.objs[o].application
             /\ new.status = IF \E o \in Objects : new.objs[o].staged /\ new.objs[o].application # "PENDING"
                             THEN "PARTIALLY_APPLIED" ELSE "FAILED"
<1> DEFINE objs == [o \in Objects |->
                 IF set.objs[o].application = "APPLYING" THEN [set.objs[o] EXCEPT !.application = "UNCERTAIN"]
                 ELSE set.objs[o]]
           after == [set EXCEPT !.objs = objs]
           new == Stopped(set)
<1>1. ASSUME NEW o \in Objects
      PROVE  /\ objs[o] \in Changes /\ SameChange(objs[o], set.objs[o])
             /\ objs[o].staged = set.objs[o].staged /\ objs[o].review = set.objs[o].review
             /\ objs[o].after = set.objs[o].after /\ objs[o].base = set.objs[o].base
             /\ objs[o].application =
                  IF set.objs[o].application = "APPLYING" THEN "UNCERTAIN" ELSE set.objs[o].application
  BY DEF Sets, Changes, SameChange
<1>2. objs \in [Objects -> Changes]
  BY <1>1
<1>3. new = [after EXCEPT !.status =
               IF InState(after, {"VERIFIED", "UNCERTAIN"}) # {} THEN "PARTIALLY_APPLIED" ELSE "FAILED"]
  BY DEF Stopped
<1> HIDE DEF objs
<1>4. after \in Sets /\ after.objs = objs /\ after.plan = set.plan /\ after.checkpoint = set.checkpoint
  BY <1>2 DEF Sets
<1> HIDE DEF after, new
<1>5. /\ new \in Sets /\ new.objs = objs /\ new.plan = set.plan /\ new.checkpoint = set.checkpoint
      /\ new.status = IF InState(after, {"VERIFIED", "UNCERTAIN"}) # {} THEN "PARTIALLY_APPLIED" ELSE "FAILED"
  BY <1>3, <1>4 DEF Sets, Statuses, Editables
<1>6. InState(after, {"VERIFIED", "UNCERTAIN"}) = {o \in Objects : objs[o].staged /\ objs[o].application # "PENDING"}
  <2>1. \A o \in Objects : objs[o].application \in {"PENDING", "VERIFIED", "UNCERTAIN"}
    BY <1>1 DEF Sets, Changes
  <2> QED
    BY <1>4, <2>1 DEF InState, Staged
<1> QED
  BY <1>1, <1>5, <1>6 DEF new, SameChanges

\* A verified object is still the reviewed one.
LEMMA VerifiedType ==
  ASSUME NEW c \in Changes, NEW t \in Nat
  PROVE  LET new == [c EXCEPT !.application = "VERIFIED", !.verified = t]
         IN  /\ new \in Changes /\ new.application = "VERIFIED" /\ SameChange(new, c)
             /\ new.staged = c.staged /\ new.review = c.review
             /\ new.after = c.after /\ new.base = c.base
  BY DEF Changes, SameChange

\* Reconciliation decides about the outcome and not about the review.
LEMMA ReconciledType ==
  ASSUME NEW c \in Changes, NEW v \in Contents, NEW t \in Nat
  PROVE  LET new == Reconciled(c, [value |-> v, token |-> t])
         IN  /\ new \in Changes /\ SameChange(new, c)
             /\ new.staged = c.staged /\ new.review = c.review
             /\ new.after = c.after /\ new.base = c.base
             /\ new.application = "PENDING" => v # c.after
  BY DEF Reconciled, Changes, SameChange

\* The page has a value and a baseline for every object.
LEMMA DisplayedType == ASSUME NEW set \in Sets PROVE Displayed(set) \in [Objects -> [value : Contents, base : Nat]]
  BY DEF Displayed, Sets, Changes

-------------------------------------------------------------------------------
(***************************************************************************)
(* Type correctness                                                        *)
(***************************************************************************)
\* An operation that saves a well-formed record keeps the types of the
\* record, its copy and the page.
LEMMA SaveType ==
  ASSUME TypeOK, NEW set \in Sets, Save(set)
  PROVE  /\ disk' \in Sets /\ work' \in Sets /\ disk' = set /\ work' = set
         /\ shown' \in [fresh : BOOLEAN, rev : 0 .. MaxRev, objs : [Objects -> [value : Contents, base : Nat]]]
         /\ ~shown'.fresh
  BY DEF Save, TypeOK

\* The types hold initially.
LEMMA InitType == Init => TypeInv
<1> SUFFICES ASSUME Init PROVE TypeInv
  OBVIOUS
<1> DEFINE objs == [o \in Objects |-> NoChange]
<1>1. objs \in [Objects -> Changes]
  BY NoValues
<1>2. [NoPlan EXCEPT !.rev = InitialPlan] \in Plans
  BY PlanAssumption DEF NoPlan, Plans
<1>3. disk \in Sets /\ work \in Sets
  BY <1>1, <1>2, Bounds DEF Init, Sets, Statuses, Editables
<1>4. shown \in [fresh : BOOLEAN, rev : 0 .. MaxRev, objs : [Objects -> [value : Contents, base : Nat]]]
  <2>1. Displayed(disk) \in [Objects -> [value : Contents, base : Nat]]
    BY <1>3, DisplayedType
  <2>2. shown = [fresh |-> FALSE, rev |-> 0, objs |-> Displayed(disk)]
    BY DEF Init
  <2> QED
    BY <2>1, <2>2, Bounds
<1>5. db \in [Objects -> [value : Contents, version : Nat, token : Nat, mine : BOOLEAN]]
  BY ContentsAssumption DEF Init
<1>6. pause \in BOOLEAN /\ aborted \in BOOLEAN
  BY Zenon DEF Init
<1>7. sent = {} /\ IsFiniteSet(sent) /\ granted = {} /\ flight = {}
  BY FS_EmptySet DEF Init
<1>8. pc = "idle" /\ cur = {} /\ created = {} /\ stamp = 0 /\ auth = 1 /\ edits = 0
  BY DEF Init
<1> QED
  BY <1>3, <1>4, <1>5, <1>6, <1>7, <1>8, Bounds DEF TypeInv, TypeOK
\* Idle operations that read once and save once.
LEMMA UpdateType ==
  ASSUME TypeInv, NEW set \in Sets, Update(set), sent' = sent,
         granted' \subseteq [obj : Objects, value : Contents, base : Nat]
  PROVE  TypeInv'
<1>1. Save(set) /\ pc' = "idle" /\ UNCHANGED <<applyVars, worldVars>>
  BY DEF Update, SaveAnd
<1> QED
  BY <1>1, SaveType DEF TypeInv, TypeOK, applyVars, worldVars

\* A click grants well-formed writes.
LEMMA GrantType ==
  ASSUME TypeInv, NEW ids \in SUBSET Objects, Grant(ids)
  PROVE  granted' \subseteq [obj : Objects, value : Contents, base : Nat]
  BY DEF Grant, TypeInv, TypeOK

\* Proposals keep the types.
LEMMA AgentType == ASSUME TypeInv, Agent PROVE TypeInv'
<1> USE DEF historyVars
<1>1. CASE RevisePlan
  <2> DEFINE inv == Invalidated(disk)
             new == [inv EXCEPT !.plan = [NoPlan EXCEPT !.rev = disk.plan.rev + 1]]
  <2>1. inv \in Sets
    BY <1>1, InvalidatedType DEF RevisePlan, TypeInv, TypeOK
  <2>2. [NoPlan EXCEPT !.rev = disk.plan.rev + 1] \in Plans
    BY DEF NoPlan, Plans, TypeInv, TypeOK, Sets
  <2> HIDE DEF inv
  <2>3. new \in Sets
    BY <2>1, <2>2 DEF Sets
  <2>4. Update(new) /\ UNCHANGED historyVars
    BY <1>1 DEF RevisePlan, inv
  <2> HIDE DEF new
  <2> QED
    BY <2>3, <2>4, UpdateType DEF TypeInv, TypeOK
<1>2. ASSUME NEW o \in Objects, NEW after \in Contents, NEW deps \in SUBSET Objects, Stage(o, after, deps)
      PROVE  TypeInv'
  <2> DEFINE inv == Invalidated(disk)
             change == [NoChange EXCEPT !.staged = TRUE, !.before = Live(o).value, !.base = Live(o).token,
                                        !.after = after, !.deps = deps]
             new == [inv EXCEPT !.objs[o] = change]
  <2>1. inv \in Sets
    BY <1>2, InvalidatedType DEF Stage, TypeInv, TypeOK
  <2>2. change \in Changes
    BY NoValues DEF NoChange, Changes, Live, TypeInv, TypeOK
  <2> HIDE DEF change, inv
  <2>3. new \in Sets
    BY <2>1, <2>2, ApplicationType
  <2>4. Update(new) /\ UNCHANGED historyVars
    BY <1>2 DEF Stage, inv, change
  <2> HIDE DEF new
  <2> QED
    BY <2>3, <2>4, UpdateType DEF TypeInv, TypeOK
<1> QED
  BY <1>1, <1>2 DEF Agent

\* Clicks keep the types.
LEMMA DeveloperType == ASSUME TypeInv, Developer PROVE TypeInv'
<1> USE DEF applyVars, worldVars, historyVars
<1>1. CASE Render
  <2>1. Displayed(disk) \in [Objects -> [value : Contents, base : Nat]] /\ disk.rev \in 0 .. MaxRev
    BY DisplayedType, Bounds DEF TypeInv, TypeOK, Sets
  <2> QED
    BY <1>1, <2>1 DEF Render, TypeInv, TypeOK
<1>2. CASE Cancel
  BY <1>2, StatusType, UpdateType DEF Cancel, TypeInv, TypeOK, Statuses, Editables
<1>3. CASE ValidateBegin
  <2>1. [disk EXCEPT !.status = "VALIDATING"] \in Sets
    BY StatusType DEF TypeInv, TypeOK, Statuses
  <2> QED
    BY <1>3, <2>1, SaveType DEF ValidateBegin, SaveAnd, TypeInv, TypeOK
<1>4. CASE RecoverBegin
  <2>1. flight' \subseteq [obj : Objects, value : Contents, base : Nat, late : BOOLEAN]
    <3>1. ASSUME NEW write \in flight
          PROVE  [write EXCEPT !.late = TRUE] \in [obj : Objects, value : Contents, base : Nat, late : BOOLEAN]
      <4>1. write \in [obj : Objects, value : Contents, base : Nat, late : BOOLEAN]
        BY DEF TypeInv, TypeOK
      <4> QED
        BY <4>1
    <3>2. flight' = {[write EXCEPT !.late = TRUE] : write \in flight}
      BY <1>4 DEF RecoverBegin
    <3> QED
      BY <3>1, <3>2, Zenon
  <2>2. /\ pc' = "recovering" /\ cur' \in SUBSET Objects
        /\ UNCHANGED <<disk, work, pause, created, stamp, aborted, shown, db, edits, auth, historyVars>>
    BY <1>4 DEF RecoverBegin, InState, Staged
  <2> QED
    BY <2>1, <2>2 DEF TypeInv, TypeOK
<1>5. CASE Abort
  BY <1>5 DEF Abort, TypeInv, TypeOK
<1>6. ASSUME NEW decision \in Decisions, ReviewPlan(decision) PROVE TypeInv'
  <2> DEFINE base == IF decision = "APPROVED" THEN disk ELSE Invalidated(disk)
             plan == [base.plan EXCEPT !.review = decision,
                                       !.approved = IF decision = "APPROVED" THEN disk.plan.rev ELSE 0]
             new == [base EXCEPT !.plan.review = decision,
                                 !.plan.approved = IF decision = "APPROVED" THEN disk.plan.rev ELSE 0]
  <2>1. base \in Sets
    <3>1. CASE decision = "APPROVED"
      BY <3>1 DEF TypeInv, TypeOK
    <3>2. CASE decision = "REJECTED"
      BY <1>6, <3>2, InvalidatedType DEF ReviewPlan, TypeInv, TypeOK
    <3> QED
      BY <3>1, <3>2 DEF Decisions
  <2> HIDE DEF base
  <2>2. plan \in Plans
    BY <2>1 DEF Plans, Sets, Decisions, TypeInv, TypeOK
  <2>3. new = [base EXCEPT !.plan = plan]
    BY <2>1 DEF Sets, Plans
  <2> HIDE DEF plan
  <2>4. new \in Sets
    BY <2>1, <2>2, <2>3 DEF Sets
  <2>5. Update(new) /\ UNCHANGED historyVars
    BY <1>6 DEF ReviewPlan, base
  <2> HIDE DEF new
  <2> QED
    BY <2>4, <2>5, UpdateType DEF TypeInv, TypeOK
<1>7. ASSUME NEW ids \in SUBSET Objects, NEW decision \in Decisions, NEW destructive \in BOOLEAN,
             Review(ids, decision, destructive)
      PROVE  TypeInv'
  <2>1. Decided(disk, ids, decision) \in Sets
    BY DecidedType DEF TypeInv, TypeOK
  <2>2. granted' \subseteq [obj : Objects, value : Contents, base : Nat]
    BY <1>7, GrantType DEF Review, TypeInv, TypeOK
  <2> QED
    BY <1>7, <2>1, <2>2, UpdateType DEF Review
<1>8. ASSUME NEW destructive \in BOOLEAN, ApproveAndApply(destructive) PROVE TypeInv'
  <2>1. Decided(disk, Eligible(disk), "APPROVED") \in Sets
    BY DecidedType DEF TypeInv, TypeOK, Decisions
  <2>2. granted' \subseteq [obj : Objects, value : Contents, base : Nat]
    <3>1. Eligible(disk) \in SUBSET Objects
      BY DEF Eligible, Staged
    <3> QED
      BY <1>8, <3>1, GrantType DEF ApproveAndApply
  <2>3. Save(Decided(disk, Eligible(disk), "APPROVED")) /\ StartApply(FALSE)
    BY <1>8 DEF ApproveAndApply
  <2>4. TypeOK
    BY DEF TypeInv
  <2>5. /\ disk' \in Sets /\ work' \in Sets
        /\ shown' \in [fresh : BOOLEAN, rev : 0 .. MaxRev, objs : [Objects -> [value : Contents, base : Nat]]]
    BY <2>1, <2>3, <2>4, SaveType
  <2> QED
    BY <2>2, <2>3, <2>5 DEF StartApply, TypeInv, TypeOK, Applying
<1>9. ASSUME NEW stop \in BOOLEAN, ApplyBegin(stop) PROVE TypeInv'
  BY <1>9 DEF ApplyBegin, StartApply, TypeInv, TypeOK, Applying
<1> QED
  BY <1>1, <1>2, <1>3, <1>4, <1>5, <1>6, <1>7, <1>8, <1>9 DEF Developer
\* A save that ends the operation, or lets it go on.
LEMMA SaveStepType ==
  ASSUME TypeInv, NEW set \in Sets, Save(set), UNCHANGED <<worldVars, historyVars>>,
         pc' \in Applying \cup {"idle", "validating", "recovering"},
         Return \/ UNCHANGED applyVars
  PROVE  TypeInv'
<1>1. TypeOK
  BY DEF TypeInv
<1>2. /\ disk' \in Sets /\ work' \in Sets
      /\ shown' \in [fresh : BOOLEAN, rev : 0 .. MaxRev, objs : [Objects -> [value : Contents, base : Nat]]]
  BY <1>1, SaveType
<1>3. /\ cur' \in SUBSET Objects /\ created' \in SUBSET Objects
      /\ pause' \in BOOLEAN /\ aborted' \in BOOLEAN /\ stamp' \in Nat
  <2>1. CASE Return
    BY <2>1 DEF Return
  <2>2. CASE UNCHANGED applyVars
    BY <2>2 DEF applyVars, TypeInv, TypeOK
  <2> QED
    BY <2>1, <2>2
<1> QED
  BY <1>2, <1>3 DEF TypeInv, TypeOK, worldVars, historyVars

\* The steps of validate, apply and recover keep the types.
LEMMA ServiceType == ASSUME TypeInv, Service PROVE TypeInv'
<1> USE DEF applyVars, worldVars, historyVars
<1>0. work \in Sets /\ auth \in Nat
  BY Bounds DEF TypeInv, TypeOK
<1>1. CASE ValidatePass
  <2> DEFINE all == Staged(work)
             new == [Revalidated(work, all, all) EXCEPT !.status = "READY_FOR_REVIEW"]
  <2>1. new \in Sets
    BY <1>0, RevalidatedType, StatusType DEF Statuses, Editables
  <2>2. SaveAnd(new, "idle") /\ UNCHANGED <<applyVars, worldVars, historyVars>>
    BY <1>1 DEF ValidatePass
  <2> HIDE DEF new
  <2> QED
    BY <2>1, <2>2, SaveStepType DEF SaveAnd
<1>2. CASE ValidateFail
  <2> PICK reached, stamped :
         /\ SaveAnd([Revalidated(work, reached, stamped) EXCEPT !.status = "CONFLICTED"], "idle")
         /\ UNCHANGED <<applyVars, worldVars, historyVars>>
    BY <1>2 DEF ValidateFail
  <2> DEFINE new == [Revalidated(work, reached, stamped) EXCEPT !.status = "CONFLICTED"]
  <2>1. new \in Sets
    BY <1>0, RevalidatedType, StatusType DEF Statuses, Editables
  <2> HIDE DEF new
  <2>2. SaveAnd(new, "idle")
    BY DEF new
  <2> QED
    BY <2>1, <2>2, SaveStepType DEF SaveAnd
<1>3. CASE PreflightPass
  <2>1. [work EXCEPT !.status = "APPLYING", !.checkpoint = Approved(work)] \in Sets
    BY <1>0 DEF Sets, Statuses, Approved, Staged
  <2> QED
    BY <1>3, <2>1 DEF PreflightPass, TypeInv, TypeOK, Applying
<1>4. CASE PreflightFail
  <2>1. [work EXCEPT !.status = "CONFLICTED"] \in Sets
    BY <1>0, StatusType DEF Statuses, Editables
  <2>2. pc' \in Applying \cup {"idle", "validating", "recovering"}
    BY <1>4 DEF PreflightFail, Return
  <2> QED
    BY <1>4, <2>1, <2>2, SaveStepType DEF PreflightFail
<1>5. CASE SaveProgress
  <2>1. Save(work) /\ UNCHANGED <<applyVars, worldVars, historyVars>>
    BY <1>5 DEF SaveProgress, SaveAnd
  <2>2. pc' \in Applying \cup {"idle", "validating", "recovering"}
    BY <1>5 DEF SaveProgress, SaveAnd, Applying
  <2> QED
    BY <1>0, <2>1, <2>2, SaveStepType
<1>6. CASE PauseBetweenWriters
  <2>1. [work EXCEPT !.status = "PARTIALLY_APPLIED"] \in Sets
    BY <1>0, StatusType DEF Statuses
  <2>2. pc' \in Applying \cup {"idle", "validating", "recovering"}
    BY <1>6 DEF PauseBetweenWriters, Return
  <2> QED
    BY <1>6, <2>1, <2>2, SaveStepType DEF PauseBetweenWriters
<1>7. CASE Finish
  <2>1. [work EXCEPT !.status = "APPLIED"] \in Sets
    BY <1>0, StatusType DEF Statuses
  <2>2. pc' \in Applying \cup {"idle", "validating", "recovering"}
    BY <1>7 DEF Finish, Return
  <2> QED
    BY <1>7, <2>1, <2>2, SaveStepType DEF Finish
<1>8. CASE Throw
  BY <1>8 DEF Throw, TypeInv, TypeOK, Applying
<1>9. CASE Stop
  <2>1. Stopped(work) \in Sets
    BY <1>0, StoppedType
  <2>2. pc' \in Applying \cup {"idle", "validating", "recovering"}
    BY <1>9 DEF Stop, Return
  <2> QED
    BY <1>9, <2>1, <2>2, SaveStepType DEF Stop
<1>10. CASE RecoverEnd
  <2> DEFINE s == IF Approved(work) # {} /\ Approved(work) \subseteq InState(work, {"VERIFIED"})
                  THEN "APPLIED" ELSE "PARTIALLY_APPLIED"
  <2>1. [work EXCEPT !.status = s] \in Sets
    BY <1>0, StatusType DEF Statuses
  <2>2. pc' \in Applying \cup {"idle", "validating", "recovering"}
    BY <1>10 DEF RecoverEnd, Return
  <2> QED
    BY <1>10, <2>1, <2>2, SaveStepType DEF RecoverEnd
<1>11. ASSUME NEW o \in Objects, CheckNext(o) PROVE TypeInv'
  <2>1. [work EXCEPT !.objs[o].application = "APPLYING"] \in Sets
    BY <1>0 DEF Sets, Changes
  <2> QED
    BY <1>11, <2>1 DEF CheckNext, TypeInv, TypeOK, Applying
<1>12. ASSUME NEW o \in Objects, CheckStamp(o) PROVE TypeInv'
  BY <1>0, <1>12 DEF CheckStamp, TypeInv, TypeOK, Applying
<1>13. ASSUME NEW o \in Objects, SendWrite(o) PROVE TypeInv'
  <2>1. work.objs[o].after \in Contents /\ work.objs[o].base \in Nat
    BY <1>0 DEF Sets, Changes
  <2>2. Cardinality({w \in sent : w.obj = o}) \in Nat
    <3> DEFINE mine == {w \in sent : w.obj = o}
    <3>1. IsFiniteSet(sent) /\ mine \subseteq sent
      BY DEF TypeInv
    <3> HIDE DEF mine
    <3>2. Cardinality(mine) \in Nat
      BY <3>1, FS_Subset, FS_CardinalityType
    <3> QED
      BY <3>2 DEF mine
  <2> DEFINE new == [obj |-> o, value |-> work.objs[o].after, base |-> work.objs[o].base,
                     nth |-> Cardinality({w \in sent : w.obj = o}) + 1]
  <2>3. sent' = sent \cup {new}
    BY <1>13 DEF SendWrite
  <2>4. new \in [obj : Objects, value : Contents, base : Nat, nth : Nat]
    BY <2>1, <2>2
  <2>5. IsFiniteSet(sent')
    BY <2>3, FS_AddElement DEF TypeInv
  <2>6. flight' \subseteq [obj : Objects, value : Contents, base : Nat, late : BOOLEAN]
    <3> DEFINE write == [obj |-> o, value |-> work.objs[o].after, base |-> work.objs[o].base, late |-> FALSE]
    <3>1. flight' = flight \cup {write}
      BY <1>13 DEF SendWrite
    <3>2. write \in [obj : Objects, value : Contents, base : Nat, late : BOOLEAN]
      BY <2>1
    <3> HIDE DEF write
    <3> QED
      BY <3>1, <3>2 DEF TypeInv, TypeOK
  <2>7. UNCHANGED <<disk, work, applyVars, db, edits, auth, shown, granted>> /\ pc' = "sent"
    BY <1>13 DEF SendWrite
  <2> HIDE DEF new
  <2> QED
    BY <2>3, <2>4, <2>5, <2>6, <2>7 DEF TypeInv, TypeOK, Applying
<1>14. ASSUME NEW o \in Objects, Readback(o) PROVE TypeInv'
  <2>0. db[o].token \in Nat
    BY DEF TypeInv, TypeOK
  <2> DEFINE c == [work.objs[o] EXCEPT !.application = "VERIFIED", !.verified = db[o].token]
  <2>a. c \in Changes
    <3>1. work.objs[o] \in Changes
      BY <1>0 DEF Sets
    <3> QED
      BY <2>0, <3>1, VerifiedType
  <2>b. [work EXCEPT !.objs[o].application = "VERIFIED", !.objs[o].verified = db[o].token]
          = [work EXCEPT !.objs[o] = c]
    BY <1>0 DEF Sets
  <2> HIDE DEF c
  <2>1. [work EXCEPT !.objs[o].application = "VERIFIED", !.objs[o].verified = db[o].token] \in Sets
    BY <1>0, <2>a, <2>b, ApplicationType
  <2> QED
    BY <1>14, <2>1 DEF Readback, TypeInv, TypeOK, Applying
<1>15. ASSUME NEW o \in Objects, RecoverObject(o) PROVE TypeInv'
  <2>1. work.objs[o] \in Changes /\ db[o].value \in Contents /\ db[o].token \in Nat
    BY <1>0 DEF Sets, TypeInv, TypeOK
  <2>2. Reconciled(work.objs[o], Live(o)) \in Changes
    BY <2>1, ReconciledType DEF Live
  <2>3. work' \in Sets
    BY <1>0, <1>15, <2>2, ApplicationType DEF RecoverObject
  <2> QED
    BY <1>15, <2>3 DEF RecoverObject, TypeInv, TypeOK
<1> QED
  BY <1>1, <1>2, <1>3, <1>4, <1>5, <1>6, <1>7, <1>8, <1>9, <1>10, <1>11, <1>12, <1>13, <1>14, <1>15 DEF Service

\* Crashes, other tools and the database keep the types.
LEMMA WorldType == ASSUME TypeInv, World PROVE TypeInv'
<1> USE DEF applyVars, worldVars, historyVars
<1>0. ASSUME NEW o \in Objects, NEW v \in Contents, NEW m \in BOOLEAN
      PROVE  NewVersion(o, v, m) \in [value : Contents, version : Nat, token : Nat, mine : BOOLEAN]
  BY DEF NewVersion, TypeInv, TypeOK
<1>1. CASE Crash
  BY <1>1 DEF Crash, Return, TypeInv, TypeOK
<1>2. CASE ChangeAuthorization
  BY <1>2, Bounds DEF ChangeAuthorization, TypeInv, TypeOK
<1>3. ASSUME NEW write \in flight, Commit(write) PROVE TypeInv'
  <2>1. write.obj \in Objects /\ write.value \in Contents
    BY DEF TypeInv, TypeOK
  <2>2. db' \in [Objects -> [value : Contents, version : Nat, token : Nat, mine : BOOLEAN]]
    <3>1. db' = [db EXCEPT ![write.obj] = NewVersion(write.obj, write.value, ~write.late)]
      BY <1>3 DEF Commit
    <3> QED
      BY <1>0, <2>1, <3>1 DEF TypeInv, TypeOK
  <2>3. pc' \in Applying \cup {"idle", "validating", "recovering"}
    BY <1>3 DEF Commit, TypeInv, TypeOK, Applying
  <2> QED
    BY <1>3, <2>2, <2>3 DEF Commit, TypeInv, TypeOK
<1>4. ASSUME NEW write \in flight, Rollback(write) PROVE TypeInv'
  BY <1>4 DEF Rollback, TypeInv, TypeOK, Applying
<1>5. ASSUME NEW o \in Objects, NEW value \in Contents, Edit(o, value) PROVE TypeInv'
  <2>1. db' \in [Objects -> [value : Contents, version : Nat, token : Nat, mine : BOOLEAN]]
    <3>1. db' = [db EXCEPT ![o] = NewVersion(o, value, FALSE)]
      BY <1>5 DEF Edit
    <3> QED
      BY <1>0, <3>1 DEF TypeInv, TypeOK
  <2>2. edits' \in 0 .. MaxEdits /\ UNCHANGED <<disk, work, pc, applyVars, auth, flight, shown, historyVars>>
    BY <1>5, Bounds DEF Edit, TypeInv, TypeOK
  <2> QED
    BY <2>1, <2>2 DEF TypeInv, TypeOK
<1> QED
  BY <1>1, <1>2, <1>3, <1>4, <1>5 DEF World

\* Every variable keeps its type, whatever the agent, the developer, other
\* developers, crashes and the database do; the record stays one the page
\* and the recovery can read.
THEOREM Typing == Spec => []TypeOK
<1>1. Init => TypeInv
  BY InitType
<1>2. TypeInv /\ [Next]_vars => TypeInv'
  <2> SUFFICES ASSUME TypeInv, [Next]_vars PROVE TypeInv'
    OBVIOUS
  <2>1. CASE UNCHANGED vars
    BY <2>1 DEF vars, applyVars, worldVars, historyVars, TypeInv, TypeOK
  <2> QED
    BY <2>1, AgentType, DeveloperType, ServiceType, WorldType DEF Next
<1>3. TypeInv => TypeOK
  BY DEF TypeInv
<1> QED
  BY <1>1, <1>2, <1>3, PTL DEF Spec
-------------------------------------------------------------------------------
(***************************************************************************)
(* The inductive invariant                                                 *)
(***************************************************************************)
\* The strengthened invariant holds initially.
LEMMA InitIInv == Init => IInv
<1> SUFFICES ASSUME Init PROVE IInv
  OBVIOUS
<1>1. TypeInv
  BY InitType
<1>2. /\ work = disk /\ pc = "idle" /\ sent = {} /\ disk.status = "DRAFT" /\ shown.fresh = FALSE
      /\ \A o \in Objects : /\ disk.objs[o].staged = FALSE
                            /\ disk.objs[o].application = "PENDING"
  BY DEF Init, NoChange
<1>3. Approved(disk) = {}
  BY <1>2 DEF Approved, Staged
<1> QED
  BY <1>1, <1>2, <1>3
  DEF IInv, Sound, Granted, Pristine, Touched, SameProposal, Phase, Writing, Applying, Marked, Current,
      PageShowsDisk, WrittenAsDisplayed, WrittenOnce, WriteIsBacked, EffectsAreRemembered, AppliedIsComplete

\* Nothing was sent for a set whose status is not one of a written set.
LEMMA Untouched ==
  ASSUME IInv, disk.status \notin Touched
  PROVE  sent = {} /\ Pristine(disk)
  BY DEF IInv, Sound, EffectsAreRemembered, Touched

\* Saving a set that nothing was written for.
LEMMA UntouchedSave ==
  ASSUME IInv, TypeInv', disk.status \notin Touched,
         NEW set \in Sets, Save(set), set.status \notin Touched, Pristine(set), sent' = sent,
         granted \subseteq granted', \A o \in Approved(set) : GrantFor(set, o) \in granted',
         pc' \in {"idle", "validating"} \/ (pc' = "preflight" /\ Approved(set) # {} /\ set.status = "APPROVED"),
         pc' = "validating" => set.status = "VALIDATING"
  PROVE  IInv'
<1>1. sent = {}
  BY Untouched
<1>2. disk' = set /\ work' = set /\ ~shown'.fresh
  BY DEF Save, IInv, TypeInv, TypeOK
<1>3. Sound(disk)' /\ Sound(work)' /\ Granted(disk)' /\ Granted(work)' /\ SameProposal(work, disk)'
  BY <1>2 DEF Sound, Granted, Pristine, GrantFor, Approved, Staged, SameProposal
<1>4. Phase' /\ Marked' /\ Current'
  BY <1>1, <1>2 DEF Phase, Marked, Current, Writing, Applying, Approved, Staged
<1>5. PageShowsDisk' /\ WrittenAsDisplayed' /\ WrittenOnce' /\ WriteIsBacked' /\ EffectsAreRemembered'
  BY <1>1, <1>2 DEF PageShowsDisk, WrittenAsDisplayed, WrittenOnce, WriteIsBacked, EffectsAreRemembered
<1>6. AppliedIsComplete'
  BY <1>2 DEF AppliedIsComplete, Touched
<1> QED
  BY <1>3, <1>4, <1>5, <1>6 DEF IInv

\* Proposals only revise a set that nothing was written for.
LEMMA AgentSafe == ASSUME IInv, Agent PROVE IInv'
<1>0. TypeInv /\ TypeInv'
  BY AgentType DEF IInv
<1>1. CASE RevisePlan
  <2> DEFINE inv == Invalidated(disk)
             new == [inv EXCEPT !.plan = [NoPlan EXCEPT !.rev = disk.plan.rev + 1]]
  <2>1. /\ inv \in Sets /\ inv.status = "DRAFT"
        /\ \A o \in Objects : /\ inv.objs[o].application = disk.objs[o].application
                              /\ inv.objs[o].review = "PENDING"
    BY <1>0, <1>1, InvalidatedType DEF RevisePlan, TypeInv, TypeOK
  <2>2. Update(new) /\ UNCHANGED historyVars
    BY <1>1 DEF RevisePlan, inv
  <2> HIDE DEF inv
  <2>3. new.status = "DRAFT" /\ new.objs = inv.objs
    BY <2>1 DEF Sets
  <2>4. Pristine(disk) /\ disk.status \notin Touched
    BY <1>1, Untouched DEF RevisePlan, Editable, Editables, Touched
  <2>5. Save(new) /\ pc' = "idle"
    BY <2>2 DEF Update, SaveAnd
  <2> HIDE DEF new
  <2>6. new \in Sets
    BY <1>0, <2>5 DEF Save, TypeInv, TypeOK
  <2>7. Pristine(new) /\ Approved(new) = {} /\ new.status \notin Touched
    BY <2>1, <2>3, <2>4 DEF Pristine, Approved, Staged, Touched
  <2> QED
    BY <1>0, <2>2, <2>4, <2>5, <2>6, <2>7, UntouchedSave DEF historyVars
<1>2. ASSUME NEW o \in Objects, NEW after \in Contents, NEW deps \in SUBSET Objects, Stage(o, after, deps)
      PROVE  IInv'
  <2> DEFINE inv == Invalidated(disk)
             change == [NoChange EXCEPT !.staged = TRUE, !.before = Live(o).value, !.base = Live(o).token,
                                        !.after = after, !.deps = deps]
             new == [inv EXCEPT !.objs[o] = change]
  <2>1. /\ inv \in Sets /\ inv.status = "DRAFT"
        /\ \A p \in Objects : /\ inv.objs[p].application = disk.objs[p].application
                              /\ inv.objs[p].review = "PENDING"
    BY <1>0, <1>2, InvalidatedType DEF Stage, TypeInv, TypeOK
  <2>2. change \in Changes /\ change.application = "PENDING" /\ change.review = "PENDING"
    BY <1>0, NoValues DEF NoChange, Changes, Live, TypeInv, TypeOK
  <2>3. Update(new) /\ UNCHANGED historyVars
    BY <1>2 DEF Stage, inv, change
  <2> HIDE DEF inv, change
  <2>4. /\ new \in Sets /\ new.status = "DRAFT"
        /\ \A p \in Objects : new.objs[p] = IF p = o THEN change ELSE inv.objs[p]
    BY <2>1, <2>2, ApplicationType
  <2>5. Pristine(disk) /\ disk.status \notin Touched
    BY <1>2, Untouched DEF Stage, Editable, Editables, Touched
  <2>6. Save(new) /\ pc' = "idle"
    BY <2>3 DEF Update, SaveAnd
  <2> HIDE DEF new
  <2>7. Pristine(new) /\ Approved(new) = {} /\ new.status \notin Touched
    BY <2>1, <2>2, <2>4, <2>5 DEF Pristine, Approved, Staged, Touched
  <2> QED
    BY <1>0, <2>3, <2>4, <2>5, <2>6, <2>7, UntouchedSave DEF historyVars
<1> QED
  BY <1>1, <1>2 DEF Agent
\* The dependents of a set contain it and are closed under dependency.
LEMMA DependentsClosed ==
  ASSUME NEW set, NEW from \in SUBSET Objects, NEW among \in SUBSET Objects
  PROVE  LET D == DependentsOf(set, from, among)
         IN  from \subseteq D /\ \A x \in among : set.objs[x].deps \cap D # {} => x \in D
  BY DEF DependentsOf

\* ... and are within every such set.
LEMMA DependentsLeast ==
  ASSUME NEW set, NEW from, NEW among, NEW R \in SUBSET Objects,
         from \subseteq R, \A x \in among : set.objs[x].deps \cap R # {} => x \in R
  PROVE  DependentsOf(set, from, among) \subseteq R
  BY DEF DependentsOf

\* Approving exactly the eligible objects approves each of them: no rejection
\* reaches an eligible object, so the application has something to write.
LEMMA EligibleIsApproved ==
  ASSUME NEW set \in Sets, Eligible(set) # {}
  PROVE  Approved(Decided(set, Eligible(set), "APPROVED")) # {}
<1> DEFINE ids == Eligible(set)
      Decide(o) ==
        IF o \notin ids THEN set.objs[o]
        ELSE [set.objs[o] EXCEPT !.review = "APPROVED", !.approval = ApprovalOf(set, o)]
      objs == [o \in Objects |-> Decide(o)]
      mid == [set EXCEPT !.objs = objs]
      rejected == {o \in Staged(mid) : mid.objs[o].review = "REJECTED"}
      revoked == DependentsOf(mid, rejected, Approved(mid)) \ rejected
      objs2 == [o \in Objects |->
                  IF o \in revoked THEN [mid.objs[o] EXCEPT !.review = "REJECTED", !.approval = NoApproval]
                  ELSE mid.objs[o]]
      final == [mid EXCEPT !.objs = objs2]
      new == Decided(set, ids, "APPROVED")
      blocked == {o \in Staged(set) : set.objs[o].review = "REJECTED" \/ set.objs[o].application # "PENDING"}
      D == DependentsOf(set, blocked, Staged(set))
<1>1. new = [final EXCEPT !.status = IF Approved(final) = {} THEN "READY_FOR_REVIEW" ELSE "APPROVED"]
  BY DEF Decided
<1>2. ASSUME NEW o \in Objects
      PROVE  /\ Decide(o).staged = set.objs[o].staged /\ Decide(o).deps = set.objs[o].deps
             /\ o \in ids => Decide(o).review = "APPROVED"
             /\ o \notin ids => Decide(o).review = set.objs[o].review
  BY DEF Sets, Changes
<1>3. ids = Staged(set) \ D
  BY DEF Eligible
<1>4. D \in SUBSET Objects /\ blocked \in SUBSET Objects /\ Staged(set) \in SUBSET Objects
  BY DEF DependentsOf, Staged
<1>5. blocked \subseteq D /\ \A x \in Staged(set) : set.objs[x].deps \cap D # {} => x \in D
  BY <1>4, DependentsClosed
<1> HIDE DEF ids, Decide, D
<1>6. mid.objs = objs /\ \A o \in Objects : mid.objs[o] = Decide(o)
  BY DEF Sets
<1> HIDE DEF mid, objs
<1>7. Staged(mid) = Staged(set)
  BY <1>2, <1>6 DEF Staged
<1>8. rejected \subseteq D
  BY <1>2, <1>3, <1>5, <1>6, <1>7 DEF Staged
<1>9. \A x \in Approved(mid) : mid.objs[x].deps \cap D # {} => x \in D
  BY <1>2, <1>5, <1>6, <1>7 DEF Approved, Staged
<1> HIDE DEF rejected
<1>10. revoked \subseteq D
  BY <1>4, <1>8, <1>9, DependentsLeast
<1> HIDE DEF revoked
<1>11. PICK o \in ids : o \in Objects
  BY <1>3, <1>4 DEF ids
<1>12. o \notin revoked /\ o \in Staged(mid) /\ mid.objs[o].review = "APPROVED"
  BY <1>2, <1>3, <1>6, <1>7, <1>10, <1>11
<1>13. final.objs = objs2 /\ objs2[o] = mid.objs[o]
  <2>1. DOMAIN mid = DOMAIN set /\ "objs" \in DOMAIN set
    BY DEF mid, Sets
  <2> QED
    BY <2>1, <1>11, <1>12
<1>14. "objs" \in DOMAIN final /\ "status" # "objs"
  BY DEF final, mid, Sets
<1> HIDE DEF final, objs2
<1>15. new.objs = final.objs
  BY <1>1, <1>14
<1> QED
  BY <1>11, <1>12, <1>13, <1>15 DEF Approved, Staged, new, ids
\* A click approves what its page shows, and starts nothing on a written set.
LEMMA DeveloperSafe == ASSUME IInv, Developer PROVE IInv'
<1> USE DEF applyVars, worldVars, historyVars
<1>0. TypeInv /\ TypeInv' /\ disk \in Sets
  BY DeveloperType DEF IInv, TypeInv, TypeOK
<1>1. CASE Render
  BY <1>0, <1>1
  DEF Render, IInv, Sound, Granted, Pristine, GrantFor, Approved, Staged, SameProposal, Phase, PlanApproved, Marked, Current,
      PageShowsDisk, Displayed, WrittenAsDisplayed, WrittenOnce, WriteIsBacked, EffectsAreRemembered,
      AppliedIsComplete
<1>2. CASE Cancel
  <2> DEFINE new == [disk EXCEPT !.status = "CANCELLED"]
  <2>1. new \in Sets /\ new.status = "CANCELLED" /\ new.objs = disk.objs
    BY <1>0, StatusType DEF Statuses
  <2>2. disk.status \notin Touched /\ Pristine(disk)
    BY <1>2, Untouched DEF Cancel, Touched
  <2>3. Save(new) /\ pc' = "idle" /\ UNCHANGED historyVars
    BY <1>2 DEF Cancel, Update, SaveAnd
  <2> HIDE DEF new
  <2>4. Pristine(new) /\ new.status \notin Touched /\ \A o \in Approved(new) : GrantFor(new, o) \in granted
    BY <2>1, <2>2 DEF IInv, Granted, Pristine, GrantFor, Approved, Staged, Touched
  <2> QED
    BY <1>0, <2>1, <2>2, <2>3, <2>4, UntouchedSave
<1>3. CASE ValidateBegin
  <2> DEFINE new == [disk EXCEPT !.status = "VALIDATING"]
  <2>1. new \in Sets /\ new.status = "VALIDATING" /\ new.objs = disk.objs
    BY <1>0, StatusType DEF Statuses
  <2>2. disk.status \notin Touched /\ Pristine(disk)
    BY <1>3, Untouched DEF ValidateBegin, Editable, Editables, Touched
  <2>3. Save(new) /\ pc' = "validating" /\ UNCHANGED historyVars
    BY <1>3 DEF ValidateBegin, SaveAnd
  <2> HIDE DEF new
  <2>4. Pristine(new) /\ new.status \notin Touched /\ \A o \in Approved(new) : GrantFor(new, o) \in granted
    BY <2>1, <2>2 DEF IInv, Granted, Pristine, GrantFor, Approved, Staged, Touched
  <2> QED
    BY <1>0, <2>1, <2>2, <2>3, <2>4, UntouchedSave
<1>4. CASE RecoverBegin
  <2>1. pc = "idle" /\ pc' = "recovering" /\ disk.status \in {"APPLYING", "PARTIALLY_APPLIED"} /\ work = disk
    BY <1>4 DEF RecoverBegin, IInv, Phase
  <2>2. cur' \subseteq Approved(disk)
    BY <1>4 DEF RecoverBegin, InState, IInv, Sound, Staged
  <2>3. UNCHANGED <<disk, work, shown, historyVars>>
    BY <1>4 DEF RecoverBegin
  <2>4. Phase' /\ Marked' /\ Current'
    BY <2>1, <2>2, <2>3 DEF Phase, Marked, Current, Writing, Applying, Approved, Staged
  <2> QED
    BY <1>0, <2>1, <2>3, <2>4
    DEF IInv, Sound, Granted, Pristine, GrantFor, Approved, Staged, SameProposal, PageShowsDisk, Displayed,
        WrittenAsDisplayed, WrittenOnce, WriteIsBacked, PlanApproved, EffectsAreRemembered, AppliedIsComplete
<1>5. CASE Abort
  BY <1>0, <1>5
  DEF Abort, IInv, Sound, Granted, Pristine, GrantFor, Approved, Staged, SameProposal, Phase, PlanApproved, Marked, Current,
      PageShowsDisk, Displayed, WrittenAsDisplayed, WrittenOnce, WriteIsBacked, EffectsAreRemembered,
      AppliedIsComplete
<1>6. ASSUME NEW decision \in Decisions, ReviewPlan(decision) PROVE IInv'
  <2> DEFINE base == IF decision = "APPROVED" THEN disk ELSE Invalidated(disk)
             approved == IF decision = "APPROVED" THEN disk.plan.rev ELSE 0
             new == [base EXCEPT !.plan.review = decision, !.plan.approved = approved]
  <2>1. disk.status \notin Touched /\ Pristine(disk)
    BY <1>6, Untouched DEF ReviewPlan, Editable, Editables, Touched
  <2>2. /\ base \in Sets /\ base.status \notin Touched /\ Pristine(base)
        /\ \A o \in Approved(base) : GrantFor(base, o) \in granted
    <3>1. CASE decision = "APPROVED"
      BY <1>0, <2>1, <3>1 DEF IInv, Granted
    <3>2. CASE decision = "REJECTED"
      <4>1. disk.rev < MaxRev
        BY <1>6, <3>2 DEF ReviewPlan
      <4> DEFINE inv == Invalidated(disk)
      <4>2. /\ inv \in Sets /\ inv.status = "DRAFT"
            /\ \A o \in Objects : /\ inv.objs[o].application = disk.objs[o].application
                                  /\ inv.objs[o].review = "PENDING"
        BY <1>0, <4>1, InvalidatedType
      <4>3. base = inv
        BY <3>2
      <4> HIDE DEF inv, base
      <4> QED
        BY <2>1, <4>2, <4>3 DEF Pristine, Approved, Staged, Touched
    <3> QED
      BY <3>1, <3>2 DEF Decisions
  <2>3. Update(new) /\ UNCHANGED historyVars
    BY <1>6 DEF ReviewPlan
  <2> HIDE DEF base, approved
  <2>4. new.status = base.status /\ new.objs = base.objs
    BY <2>2 DEF Sets, Plans
  <2>5. Save(new) /\ pc' = "idle"
    BY <2>3 DEF Update, SaveAnd
  <2> HIDE DEF new
  <2>6. new \in Sets
    BY <1>0, <2>5 DEF Save, TypeInv, TypeOK
  <2>7. Pristine(new) /\ new.status \notin Touched /\ \A o \in Approved(new) : GrantFor(new, o) \in granted
    BY <2>2, <2>4 DEF Pristine, GrantFor, Approved, Staged, Touched
  <2> QED
    BY <1>0, <2>1, <2>3, <2>5, <2>6, <2>7, UntouchedSave
<1>7. ASSUME NEW ids \in SUBSET Objects, NEW decision \in Decisions, PageIsCurrent,
             disk.status \in {"READY_FOR_REVIEW", "APPROVED"}
      PROVE  LET new == Decided(disk, ids, decision)
             IN  /\ new \in Sets /\ new.status \notin Touched /\ Pristine(new)
                 /\ \A o \in Approved(new) :
                      \/ GrantFor(new, o) \in granted
                      \/ /\ decision = "APPROVED" /\ o \in ids
                         /\ GrantFor(new, o) = [obj |-> o, value |-> shown.objs[o].value, base |-> shown.objs[o].base]
  <2> DEFINE new == Decided(disk, ids, decision)
  <2>1. Pristine(disk)
    BY <1>7, Untouched DEF Touched
  <2>2. /\ new \in Sets /\ new.status \in {"READY_FOR_REVIEW", "APPROVED"}
        /\ \A o \in Objects :
             /\ new.objs[o].staged = disk.objs[o].staged
             /\ new.objs[o].application = disk.objs[o].application
             /\ new.objs[o].after = disk.objs[o].after
             /\ new.objs[o].base = disk.objs[o].base
             /\ new.objs[o].review = "APPROVED" =>
                  disk.objs[o].review = "APPROVED" \/ (o \in ids /\ decision = "APPROVED")
    BY <1>0, DecidedType
  <2> HIDE DEF new
  <2>3. shown.objs = Displayed(disk)
    BY <1>7 DEF PageIsCurrent, IInv, PageShowsDisk
  <2>4. ASSUME NEW o \in Approved(new)
        PROVE  \/ GrantFor(new, o) \in granted
               \/ /\ decision = "APPROVED" /\ o \in ids
                  /\ GrantFor(new, o) = [obj |-> o, value |-> shown.objs[o].value, base |-> shown.objs[o].base]
    <3>1. o \in Objects /\ GrantFor(new, o) = GrantFor(disk, o)
      BY <2>2 DEF Approved, Staged, GrantFor
    <3>2. CASE disk.objs[o].review = "APPROVED"
      BY <2>2, <3>1, <3>2 DEF Approved, Staged, IInv, Granted
    <3>3. CASE disk.objs[o].review # "APPROVED"
      BY <2>2, <2>3, <3>1, <3>3 DEF Approved, Staged, GrantFor, Displayed
    <3> QED
      BY <3>2, <3>3
  <2> QED
    BY <2>1, <2>2, <2>4 DEF new, Pristine, Touched
<1>8. ASSUME NEW ids \in SUBSET Objects, NEW decision \in Decisions, NEW destructive \in BOOLEAN,
             Review(ids, decision, destructive)
      PROVE  IInv'
  <2> DEFINE new == Decided(disk, ids, decision)
  <2>1. PageIsCurrent /\ disk.status \in {"READY_FOR_REVIEW", "APPROVED"}
    BY <1>8 DEF Review, Reviewable
  <2>2. Save(new) /\ pc' = "idle" /\ sent' = sent
    BY <1>8 DEF Review, Update, SaveAnd
  <2>3. IF decision = "APPROVED" THEN Grant(ids) ELSE UNCHANGED granted
    BY <1>8 DEF Review
  <2>4. granted \subseteq granted' /\ \A o \in Approved(new) : GrantFor(new, o) \in granted'
    BY <1>7, <2>1, <2>3 DEF Grant
  <2>5. new \in Sets /\ new.status \notin Touched /\ Pristine(new) /\ disk.status \notin Touched
    BY <1>7, <2>1 DEF Touched
  <2> HIDE DEF new
  <2> QED
    BY <1>0, <2>2, <2>4, <2>5, UntouchedSave
<1>9. ASSUME NEW destructive \in BOOLEAN, ApproveAndApply(destructive) PROVE IInv'
  <2> DEFINE ids == Eligible(disk)
             new == Decided(disk, ids, "APPROVED")
  <2>0. ids \in SUBSET Objects /\ "APPROVED" \in Decisions
    BY DEF Eligible, Staged, Decisions
  <2>1. PageIsCurrent /\ disk.status \in {"READY_FOR_REVIEW", "APPROVED"} /\ ids # {}
    BY <1>9 DEF ApproveAndApply, Reviewable
  <2>2. Save(new) /\ Grant(ids) /\ pc' = "preflight" /\ sent' = sent
    BY <1>9 DEF ApproveAndApply, StartApply
  <2>3. Approved(new) # {} /\ new.status = "APPROVED"
    BY <1>0, <2>0, <2>1, EligibleIsApproved, DecidedType
  <2> HIDE DEF ids
  <2>4. granted \subseteq granted' /\ \A o \in Approved(new) : GrantFor(new, o) \in granted'
    BY <1>7, <2>0, <2>1, <2>2 DEF Grant
  <2>5. new \in Sets /\ new.status \notin Touched /\ Pristine(new) /\ disk.status \notin Touched
    BY <1>7, <2>0, <2>1 DEF Touched
  <2> HIDE DEF new
  <2> QED
    BY <1>0, <2>2, <2>3, <2>4, <2>5, UntouchedSave
<1>10. ASSUME NEW stop \in BOOLEAN, ApplyBegin(stop) PROVE IInv'
  <2>1. /\ pc = "idle" /\ pc' = "preflight" /\ disk.status = "APPROVED" /\ Approved(disk) # {}
        /\ UNCHANGED <<disk, work, shown, granted, sent>>
    BY <1>10 DEF ApplyBegin, StartApply
  <2>2. work = disk
    BY <2>1 DEF IInv, Phase
  <2>3. Phase' /\ Marked' /\ Current'
    BY <2>1, <2>2 DEF Phase, Marked, Current, Writing, Applying, Approved, Staged
  <2> QED
    BY <1>0, <2>1, <2>3
    DEF IInv, Sound, Granted, Pristine, GrantFor, Approved, Staged, SameProposal, PageShowsDisk, Displayed,
        WrittenAsDisplayed, WrittenOnce, WriteIsBacked, PlanApproved, EffectsAreRemembered, AppliedIsComplete
<1> QED
  BY <1>1, <1>2, <1>3, <1>4, <1>5, <1>6, <1>8, <1>9, <1>10 DEF Developer
\* Saving the result of an operation that has written, or may have.
SameReview(a, b) ==
  /\ a.plan = b.plan /\ a.checkpoint = b.checkpoint
  /\ \A o \in Objects : /\ a.objs[o].staged = b.objs[o].staged
                        /\ a.objs[o].review = b.objs[o].review
                        /\ a.objs[o].after = b.objs[o].after
                        /\ a.objs[o].base = b.objs[o].base

LEMMA ResultSave ==
  ASSUME IInv, TypeInv', NEW set \in Sets, Save(set), pc' = "idle", UNCHANGED historyVars,
         SameReview(set, work), Sound(set),
         sent # {} => set.status \in Touched,
         \A w \in sent : w.obj \in work.checkpoint,
         set.status = "APPLIED" =>
           /\ Approved(set) # {}
           /\ \A o \in Approved(set) : set.objs[o].application = "VERIFIED"
  PROVE  IInv'
<1>1. disk' = set /\ work' = set /\ ~shown'.fresh /\ granted' = granted /\ sent' = sent
  BY DEF Save, historyVars, IInv, TypeInv, TypeOK
<1>2. Approved(set) = Approved(work) /\ Approved(set) = Approved(disk)
  BY DEF SameReview, IInv, SameProposal, Approved, Staged
<1>3. Granted(set)
  BY <1>2 DEF IInv, Granted, GrantFor, SameReview, Approved, Staged
<1>4. Sound(disk)' /\ Sound(work)' /\ Granted(disk)' /\ Granted(work)' /\ SameProposal(work, disk)'
  BY <1>1, <1>3 DEF Sound, Granted, Pristine, GrantFor, Approved, Staged, SameProposal
<1>5. Phase' /\ Marked' /\ Current'
  BY <1>1 DEF Phase, Marked, Current, Writing, Applying, Approved, Staged
<1>6. PageShowsDisk' /\ WrittenAsDisplayed' /\ WrittenOnce' /\ EffectsAreRemembered'
  BY <1>1 DEF IInv, PageShowsDisk, WrittenAsDisplayed, WrittenOnce, EffectsAreRemembered, Touched
<1>7. WriteIsBacked'
  <2>1. set.plan = disk.plan /\ set.checkpoint = work.checkpoint
    BY DEF SameReview, IInv, SameProposal
  <2>2. \A w \in sent : w.obj \in Approved(set) \cap set.checkpoint /\ PlanApproved(set)
    BY <1>2, <2>1 DEF IInv, WriteIsBacked, PlanApproved
  <2> QED
    BY <1>1, <2>2 DEF WriteIsBacked, PlanApproved, Approved, Staged
<1>8. AppliedIsComplete'
  <2>1. ASSUME set.status = "APPLIED"
        PROVE  \A o \in Staged(set) : set.objs[o].application =
                 IF o \in Approved(set) THEN "VERIFIED" ELSE "PENDING"
    BY <2>1 DEF Sound, Staged
  <2> QED
    BY <1>1, <2>1 DEF AppliedIsComplete, Approved, Staged
<1> QED
  BY <1>4, <1>5, <1>6, <1>7, <1>8 DEF IInv

\* A step that changes at most the status of objects in the copy.
LEMMA CopyStep ==
  ASSUME IInv, TypeInv', SameReview(work', work), work'.status = work.status, Sound(work'),
         UNCHANGED <<disk, shown, granted>>
  PROVE  /\ Sound(disk)' /\ Granted(disk)' /\ Sound(work)' /\ Granted(work)' /\ SameProposal(work, disk)'
         /\ PageShowsDisk' /\ AppliedIsComplete' /\ Approved(work)' = Approved(work)
<1>1. Approved(work') = Approved(work)
  BY DEF SameReview, Approved, Staged
<1>2. Sound(disk)' /\ Granted(disk)' /\ PageShowsDisk' /\ AppliedIsComplete'
  BY DEF IInv, Sound, Granted, Pristine, GrantFor, Approved, Staged, PageShowsDisk, Displayed, AppliedIsComplete
<1>3. Sound(work)'
  BY DEF Sound, Pristine, Approved, Staged
<1>4. Granted(work)'
  BY <1>1 DEF IInv, Granted, GrantFor, SameReview, Approved, Staged
<1>5. SameProposal(work, disk)'
  BY DEF IInv, SameProposal, SameReview
<1> QED
  BY <1>1, <1>2, <1>3, <1>4, <1>5 DEF Approved, Staged

\* A validation gives nobody a new approval.
LEMMA ValidateSafe == ASSUME IInv, TypeInv', ValidatePass \/ ValidateFail PROVE IInv'
<1> DEFINE Result(reached, stamped, status) == [Revalidated(work, reached, stamped) EXCEPT !.status = status]
<1>1. work = disk /\ disk \in Sets /\ auth \in Nat /\ disk.status = "VALIDATING"
  BY Bounds DEF ValidatePass, ValidateFail, IInv, Phase, TypeInv, TypeOK
<1>2. disk.status \notin Touched /\ Pristine(disk)
  BY <1>1, Untouched DEF Touched
<1>3. ASSUME NEW reached, NEW stamped, NEW status \in {"READY_FOR_REVIEW", "CONFLICTED"},
             SaveAnd(Result(reached, stamped, status), "idle"), UNCHANGED historyVars
      PROVE  IInv'
  <2> DEFINE mid == Revalidated(work, reached, stamped)
             new == Result(reached, stamped, status)
  <2>1. /\ mid \in Sets
        /\ \A o \in Objects : /\ mid.objs[o].staged = disk.objs[o].staged
                              /\ mid.objs[o].application = disk.objs[o].application
                              /\ mid.objs[o].after = disk.objs[o].after
                              /\ mid.objs[o].base = disk.objs[o].base
                              /\ mid.objs[o].review \in {"PENDING", disk.objs[o].review}
    BY <1>1, RevalidatedType
  <2> HIDE DEF mid
  <2>2. new \in Sets /\ new.status = status /\ new.objs = mid.objs
    BY <2>1, StatusType DEF Statuses, Editables, mid
  <2>3. Save(new) /\ pc' = "idle" /\ sent' = sent /\ granted' = granted
    BY <1>3 DEF SaveAnd, historyVars
  <2> HIDE DEF new
  <2>4. Pristine(new) /\ new.status \notin Touched
    BY <1>2, <2>1, <2>2 DEF Pristine, Touched
  <2>5. \A o \in Approved(new) : GrantFor(new, o) \in granted
    BY <2>1, <2>2 DEF Approved, Staged, GrantFor, IInv, Granted
  <2> QED
    BY <1>2, <2>2, <2>3, <2>4, <2>5, UntouchedSave
<1>4. CASE ValidatePass
  BY <1>3, <1>4 DEF ValidatePass
<1>5. CASE ValidateFail
  BY <1>3, <1>5 DEF ValidateFail
<1> QED
  BY <1>4, <1>5
\* A set in an active application: what was sent is approved and, once the
\* application has begun, has its before-image in the copy.
LEMMA SentInCopy ==
  ASSUME IInv, pc \in Writing \cup {"stopping", "recovering"}
  PROVE  \A w \in sent : w.obj \in Objects /\ w.obj \in Approved(work) /\ w.obj \in work.checkpoint
<1>1. Approved(work) = Approved(disk)
  BY DEF IInv, SameProposal, Approved, Staged
<1> QED
  BY <1>1 DEF IInv, WriteIsBacked, Phase, Writing, Approved, Staged, TypeInv, TypeOK

\* The checks before the first write let an untouched set become APPLYING, or
\* send it back as CONFLICTED.
LEMMA PreflightSafe == ASSUME IInv, TypeInv', PreflightPass \/ PreflightFail PROVE IInv'
<1>1. /\ pc = "preflight" /\ work = disk /\ disk \in Sets /\ disk.status = "APPROVED" /\ Approved(work) # {}
  BY DEF PreflightPass, PreflightFail, IInv, Phase, TypeInv, TypeOK, Applying
<1>2. sent = {} /\ Pristine(disk) /\ disk.status \notin Touched
  BY <1>1, Untouched DEF Touched
<1>3. CASE PreflightPass
  <2> DEFINE new == [work EXCEPT !.status = "APPLYING", !.checkpoint = Approved(work)]
  <2>1. /\ work' = new /\ pc' = "begin" /\ PlanApproved(work)
        /\ UNCHANGED <<disk, shown, granted, sent>>
    BY <1>3 DEF PreflightPass, historyVars
  <2>2. /\ new.status = "APPLYING" /\ new.checkpoint = Approved(work)
        /\ new.plan = work.plan /\ new.objs = work.objs
    BY <1>1 DEF Sets
  <2> HIDE DEF new
  <2>3. Approved(new) = Approved(work) /\ Sound(new) /\ Granted(new)
    BY <1>1, <1>2, <2>2 DEF Approved, Staged, Sound, Granted, Pristine, GrantFor, IInv, Touched
  <2>4. SameProposal(work, disk)' /\ PlanApproved(work)'
    BY <1>1, <2>1, <2>2 DEF SameProposal, PlanApproved
  <2>5. Phase'
    BY <1>1, <2>1, <2>2, <2>3, <2>4 DEF Phase, Writing, Applying, Approved, Staged
  <2> QED
    BY <1>2, <2>1, <2>3, <2>4, <2>5
    DEF IInv, Sound, Granted, Pristine, GrantFor, Approved, Staged, Marked, Current, Writing,
        PageShowsDisk, Displayed, WrittenAsDisplayed, WrittenOnce, WriteIsBacked, EffectsAreRemembered,
        AppliedIsComplete
<1>4. CASE PreflightFail
  <2> DEFINE new == [work EXCEPT !.status = "CONFLICTED"]
  <2>0. work \in Sets /\ "CONFLICTED" \in Statuses
    BY <1>1 DEF Statuses, Editables
  <2>1. new \in Sets /\ new.status = "CONFLICTED" /\ new.objs = disk.objs
    BY <1>1, <2>0, StatusType
  <2>2. Save(new) /\ pc' = "idle" /\ sent' = sent /\ granted' = granted
    BY <1>4 DEF PreflightFail, Return, historyVars
  <2> HIDE DEF new
  <2>3. Pristine(new) /\ new.status \notin Touched /\ \A o \in Approved(new) : GrantFor(new, o) \in granted
    BY <1>2, <2>1 DEF IInv, Granted, Pristine, GrantFor, Approved, Staged, Touched
  <2> QED
    BY <1>2, <2>1, <2>2, <2>3, UntouchedSave
<1> QED
  BY <1>3, <1>4

\* The progress saved in the middle of an application.
LEMMA ProgressSafe == ASSUME IInv, TypeInv', SaveProgress PROVE IInv'
<1>1. /\ pc \in {"begin", "intent", "record"} /\ pc' \in {"next", "stamp", "pausing"}
      /\ pc = "intent" <=> pc' = "stamp"
      /\ Save(work) /\ cur' = cur /\ UNCHANGED historyVars
  BY DEF SaveProgress, SaveAnd, applyVars
<1>2. disk' = work /\ work' = work /\ ~shown'.fresh /\ granted' = granted /\ sent' = sent
  BY <1>1 DEF Save, historyVars, IInv, TypeInv, TypeOK
<1>3. /\ work.status = "APPLYING" /\ PlanApproved(work) /\ work.checkpoint = Approved(work)
      /\ Approved(work) # {}
  BY <1>1 DEF IInv, Phase, Writing, Applying
<1>4. \A w \in sent : /\ w.obj \in Approved(work) /\ w.obj \in work.checkpoint
                      /\ work.objs[w.obj].application # "PENDING"
  <2>1. CASE pc = "begin"
    BY <2>1, Untouched DEF IInv, Phase, Touched
  <2>2. CASE pc # "begin"
    BY <1>1, <2>2, SentInCopy DEF IInv, Marked, Writing
  <2> QED
    BY <2>1, <2>2
<1>5. Sound(disk)' /\ Sound(work)' /\ Granted(disk)' /\ Granted(work)' /\ SameProposal(work, disk)'
  BY <1>2 DEF IInv, Sound, Granted, Pristine, GrantFor, Approved, Staged, SameProposal
<1>6. Phase' /\ Marked' /\ Current'
  BY <1>1, <1>2, <1>3, <1>4
  DEF IInv, Phase, Marked, Current, Writing, Applying, Approved, Staged, PlanApproved
<1>7. /\ PageShowsDisk' /\ WrittenAsDisplayed' /\ WrittenOnce' /\ WriteIsBacked'
      /\ EffectsAreRemembered' /\ AppliedIsComplete'
  BY <1>2, <1>3, <1>4
  DEF IInv, PageShowsDisk, WrittenAsDisplayed, WrittenOnce, WriteIsBacked, PlanApproved,
      EffectsAreRemembered, AppliedIsComplete, Approved, Staged
<1> QED
  BY <1>5, <1>6, <1>7 DEF IInv

\* The four ways to store an outcome: paused, applied, stopped, reconciled.
LEMMA ResultSafe ==
  ASSUME IInv, TypeInv', PauseBetweenWriters \/ Finish \/ Stop \/ RecoverEnd
  PROVE  IInv'
<1>0. work \in Sets /\ pc \in Writing \cup {"stopping", "recovering"} /\ pc' = "idle" /\ UNCHANGED historyVars
  BY DEF PauseBetweenWriters, Finish, Stop, RecoverEnd, Return, Writing, IInv, TypeInv, TypeOK
<1>1. \A w \in sent : w.obj \in Objects /\ w.obj \in Approved(work) /\ w.obj \in work.checkpoint
  BY <1>0, SentInCopy
<1>2. ASSUME NEW s \in {"PARTIALLY_APPLIED", "APPLIED"}, Save([work EXCEPT !.status = s]),
             s = "APPLIED" => /\ Approved(work) # {}
                              /\ \A o \in Approved(work) : work.objs[o].application = "VERIFIED"
      PROVE  IInv'
  <2> DEFINE new == [work EXCEPT !.status = s]
  <2>1. /\ new \in Sets /\ new.status = s /\ new.objs = work.objs /\ new.plan = work.plan
        /\ new.checkpoint = work.checkpoint
    BY <1>0, StatusType DEF Statuses
  <2>2. Save(new)
    BY <1>2
  <2> HIDE DEF new
  <2>3. SameReview(new, work) /\ Sound(new) /\ Approved(new) = Approved(work)
    BY <2>1 DEF SameReview, Sound, IInv, Touched, Approved, Staged
  <2> QED
    BY <1>0, <1>1, <1>2, <2>1, <2>2, <2>3, ResultSave DEF Touched
<1>3. CASE PauseBetweenWriters
  BY <1>2, <1>3 DEF PauseBetweenWriters
<1>4. CASE Finish
  <2>1. Approved(work) # {}
    BY <1>4 DEF Finish, IInv, Phase, Applying
  <2> QED
    BY <1>2, <1>4, <2>1 DEF Finish
<1>5. CASE RecoverEnd
  <2>1. Approved(work) \subseteq InState(work, {"VERIFIED"}) =>
          \A o \in Approved(work) : work.objs[o].application = "VERIFIED"
    BY DEF InState
  <2> QED
    BY <1>2, <1>5, <2>1 DEF RecoverEnd
<1>6. CASE Stop
  <2> DEFINE new == Stopped(work)
  <2>1. /\ new \in Sets /\ new.plan = work.plan /\ new.checkpoint = work.checkpoint
        /\ \A o \in Objects :
             /\ new.objs[o].staged = work.objs[o].staged
             /\ new.objs[o].review = work.objs[o].review
             /\ new.objs[o].after = work.objs[o].after
             /\ new.objs[o].base = work.objs[o].base
             /\ new.objs[o].application =
                  IF work.objs[o].application = "APPLYING" THEN "UNCERTAIN" ELSE work.objs[o].application
        /\ new.status = IF \E o \in Objects : new.objs[o].staged /\ new.objs[o].application # "PENDING"
                        THEN "PARTIALLY_APPLIED" ELSE "FAILED"
    BY <1>0, StoppedType
  <2>2. pc = "stopping" /\ Save(new)
    BY <1>6 DEF Stop
  <2> HIDE DEF new
  <2>3. SameReview(new, work)
    BY <2>1 DEF SameReview
  <2>4. \A o \in Objects : new.objs[o].application # "PENDING" => o \in Approved(work) /\ new.objs[o].staged
    BY <2>1 DEF IInv, Sound, Approved, Staged
  <2>5. Sound(new)
    BY <2>1, <2>4 DEF Sound, Pristine, Touched, Approved, Staged
  <2>6. sent # {} => new.status \in Touched
    <3>1. \A w \in sent : new.objs[w.obj].application # "PENDING"
      BY <1>1, <2>1, <2>2 DEF IInv, Marked
    <3> QED
      BY <1>1, <2>1, <2>4, <3>1 DEF Touched
  <2>7. new.status # "APPLIED"
    BY <2>1
  <2> QED
    BY <1>0, <1>1, <2>1, <2>2, <2>3, <2>5, <2>6, <2>7, ResultSave
<1> QED
  BY <1>3, <1>4, <1>5, <1>6
\* The steps between two saves of an application.
LEMMA WriterSafe ==
  ASSUME IInv, TypeInv', NEW o \in Objects,
         CheckNext(o) \/ CheckStamp(o) \/ SendWrite(o) \/ Readback(o)
  PROVE  IInv'
<1> USE DEF worldVars, historyVars
<1>0. work \in Sets /\ work.objs[o] \in Changes /\ pc \in {"next", "stamp", "send", "readback"}
  BY DEF CheckNext, CheckStamp, SendWrite, Readback, IInv, TypeInv, TypeOK, Sets
<1>1. /\ disk.status = "APPLYING" /\ work.status = "APPLYING" /\ disk.checkpoint = work.checkpoint
      /\ Approved(work) # {} /\ PlanApproved(work) /\ work.checkpoint = Approved(work)
  BY <1>0 DEF IInv, Phase, Writing, Applying
<1>2. \A w \in sent : /\ w.obj \in Objects /\ w.obj \in Approved(work)
                      /\ work.objs[w.obj].application # "PENDING"
  BY <1>0, SentInCopy DEF IInv, Marked, Writing
<1>3. ASSUME NEW c \in Changes, work' = [work EXCEPT !.objs[o] = c], c.application # "PENDING",
             c.staged = work.objs[o].staged, c.review = work.objs[o].review,
             c.after = work.objs[o].after, c.base = work.objs[o].base,
             o \in Approved(work), UNCHANGED <<disk, shown, granted, sent>>,
             (pc' = "intent" /\ cur' = {o} /\ \A w \in sent : w.obj # o) \/ pc' = "record"
      PROVE  IInv'
  <2>1. /\ SameReview(work', work) /\ work'.status = work.status
        /\ \A p \in Objects : work'.objs[p] = IF p = o THEN c ELSE work.objs[p]
    BY <1>0, <1>3, ApplicationType DEF SameReview
  <2>2. Approved(work') = Approved(work)
    BY <2>1 DEF SameReview, Approved, Staged
  <2>3. Sound(work')
    BY <1>1, <1>3, <2>1, <2>2 DEF IInv, Sound, Touched
  <2>4. /\ Sound(disk)' /\ Granted(disk)' /\ Sound(work)' /\ Granted(work)' /\ SameProposal(work, disk)'
        /\ PageShowsDisk' /\ AppliedIsComplete' /\ Approved(work)' = Approved(work)
    BY <1>3, <2>1, <2>3, CopyStep
  <2>5. PlanApproved(work)'
    BY <1>1, <2>1 DEF SameReview, PlanApproved
  <2>6. work'.status = "APPLYING" /\ work'.checkpoint = work.checkpoint /\ disk' = disk /\ sent' = sent
    BY <1>1, <1>3, <2>1 DEF SameReview
  <2>7. Phase'
    BY <1>1, <1>3, <2>4, <2>5, <2>6 DEF Phase, Writing, Applying
  <2>8. Marked' /\ Current'
    BY <1>2, <1>3, <2>1, <2>4, <2>6 DEF Marked, Current
  <2>9. WrittenAsDisplayed' /\ WrittenOnce' /\ WriteIsBacked' /\ EffectsAreRemembered'
    BY <1>3, <2>6
    DEF IInv, WrittenAsDisplayed, WrittenOnce, WriteIsBacked, EffectsAreRemembered, Approved, Staged, PlanApproved
  <2> QED
    BY <2>4, <2>7, <2>8, <2>9 DEF IInv
<1>4. CASE CheckNext(o)
  <2> DEFINE c == [work.objs[o] EXCEPT !.application = "APPLYING"]
  <2>1. /\ c \in Changes /\ c.application = "APPLYING" /\ c.staged = work.objs[o].staged
        /\ c.review = work.objs[o].review /\ c.after = work.objs[o].after /\ c.base = work.objs[o].base
    BY <1>0 DEF Changes
  <2>2. work' = [work EXCEPT !.objs[o] = c]
    BY <1>0, <1>4 DEF CheckNext, Sets
  <2>3. /\ o \in Approved(work) /\ work.objs[o].application = "PENDING" /\ pc' = "intent" /\ cur' = {o}
        /\ UNCHANGED <<disk, shown, granted, sent>>
    BY <1>4 DEF CheckNext
  <2>4. \A w \in sent : w.obj # o
    BY <1>2, <2>3
  <2> HIDE DEF c
  <2> QED
    BY <1>3, <2>1, <2>2, <2>3, <2>4
<1>5. CASE Readback(o)
  <2> DEFINE c == [work.objs[o] EXCEPT !.application = "VERIFIED", !.verified = db[o].token]
  <2>1. db[o].token \in Nat
    BY DEF IInv, TypeInv, TypeOK
  <2>2. /\ c \in Changes /\ c.application = "VERIFIED" /\ c.staged = work.objs[o].staged
        /\ c.review = work.objs[o].review /\ c.after = work.objs[o].after /\ c.base = work.objs[o].base
    BY <1>0, <2>1, VerifiedType
  <2>3. work' = [work EXCEPT !.objs[o] = c]
    BY <1>0, <1>5 DEF Readback, Sets
  <2>4. o \in Approved(work) /\ pc' = "record" /\ UNCHANGED <<disk, shown, granted, sent>>
    BY <1>5 DEF Readback, IInv, Current
  <2> HIDE DEF c
  <2> QED
    BY <1>3, <2>2, <2>3, <2>4
<1>6. CASE CheckStamp(o)
  <2>1. pc = "stamp" /\ pc' = "send" /\ UNCHANGED <<disk, work, cur, shown, granted, sent>>
    BY <1>6 DEF CheckStamp
  <2>2. /\ Sound(disk)' /\ Sound(work)' /\ Granted(disk)' /\ Granted(work)' /\ SameProposal(work, disk)'
        /\ PageShowsDisk'
    BY <2>1 DEF IInv, Sound, Granted, Pristine, GrantFor, Approved, Staged, SameProposal, PlanApproved,
                PageShowsDisk, Displayed
  <2>3. Phase'
    BY <1>1, <2>1 DEF Phase, PlanApproved, Approved, Staged, Writing, Applying
  <2>4. Marked' /\ Current'
    BY <2>1 DEF IInv, Marked, Current, Writing, Approved, Staged
  <2>5. /\ WrittenAsDisplayed' /\ WrittenOnce' /\ WriteIsBacked' /\ EffectsAreRemembered'
        /\ AppliedIsComplete'
    BY <2>1 DEF IInv, WrittenAsDisplayed, WrittenOnce, WriteIsBacked, PlanApproved, EffectsAreRemembered,
                AppliedIsComplete, Approved, Staged
  <2> QED
    BY <2>2, <2>3, <2>4, <2>5 DEF IInv
<1>7. CASE SendWrite(o)
  <2> DEFINE mine == {w \in sent : w.obj = o}
             new == [obj |-> o, value |-> work.objs[o].after, base |-> work.objs[o].base,
                     nth |-> Cardinality(mine) + 1]
  <2>1. /\ sent' = sent \cup {new} /\ pc = "send" /\ pc' = "sent" /\ cur = {o} /\ cur' = cur
        /\ UNCHANGED <<disk, work, shown, granted>>
    BY <1>7 DEF SendWrite, applyVars
  <2>2. o \in Approved(work) /\ work.objs[o].application # "PENDING" /\ mine = {}
    BY <2>1 DEF IInv, Current
  <2>3. new.nth = 1 /\ new.obj = o /\ new.value = work.objs[o].after /\ new.base = work.objs[o].base
    <3>1. Cardinality(mine) = 0
      BY <2>2, FS_EmptySet, Zenon
    <3> QED
      BY <3>1
  <2> HIDE DEF new, mine
  <2>4. [obj |-> new.obj, value |-> new.value, base |-> new.base] \in granted
    BY <2>2, <2>3 DEF IInv, Granted, GrantFor
  <2>5. WrittenAsDisplayed' /\ WrittenOnce'
    BY <2>1, <2>3, <2>4 DEF IInv, WrittenAsDisplayed, WrittenOnce
  <2>6. Approved(work) = Approved(disk) /\ PlanApproved(disk)
    BY <1>1 DEF IInv, SameProposal, Approved, Staged, PlanApproved
  <2>7. WriteIsBacked' /\ EffectsAreRemembered'
    BY <1>1, <2>1, <2>2, <2>3, <2>6
    DEF IInv, WriteIsBacked, EffectsAreRemembered, Approved, Staged, PlanApproved
  <2>8. Phase' /\ Marked' /\ Current'
    BY <1>1, <1>2, <2>1, <2>2, <2>3 DEF Phase, Marked, Current, Writing, Applying, Approved, Staged, PlanApproved
  <2> QED
    BY <2>1, <2>5, <2>7, <2>8
    DEF IInv, Sound, Granted, Pristine, GrantFor, Approved, Staged, SameProposal, PageShowsDisk, Displayed,
        AppliedIsComplete
<1> QED
  BY <1>4, <1>5, <1>6, <1>7

\* Reconciling an object touches its outcome alone.
LEMMA RecoverObjectSafe == ASSUME IInv, TypeInv', NEW o \in Objects, RecoverObject(o) PROVE IInv'
<1>1. /\ pc = "recovering" /\ pc' = "recovering" /\ o \in cur /\ cur' = cur \ {o}
      /\ UNCHANGED <<disk, shown, granted, sent>>
  BY DEF RecoverObject, historyVars
<1>2. /\ work \in Sets /\ work.objs[o] \in Changes /\ db[o].value \in Contents /\ db[o].token \in Nat
  BY DEF IInv, TypeInv, TypeOK, Sets
<1>3. o \in Approved(work) /\ cur \subseteq Approved(work)
  BY <1>1 DEF IInv, Current
<1> DEFINE c == Reconciled(work.objs[o], Live(o))
<1>4. /\ c \in Changes /\ c.staged = work.objs[o].staged /\ c.review = work.objs[o].review
      /\ c.after = work.objs[o].after /\ c.base = work.objs[o].base
  BY <1>2, ReconciledType DEF Live
<1>5. work' = [work EXCEPT !.objs[o] = c]
  BY DEF RecoverObject
<1> HIDE DEF c
<1>6. /\ SameReview(work', work) /\ work'.status = work.status
      /\ \A p \in Objects : work'.objs[p] = IF p = o THEN c ELSE work.objs[p]
  BY <1>2, <1>4, <1>5, ApplicationType DEF SameReview
<1>7. Approved(work') = Approved(work)
  BY <1>6 DEF SameReview, Approved, Staged
<1>8. work.status \in Touched
  BY <1>1 DEF IInv, Phase, Touched
<1>9. Sound(work')
  BY <1>3, <1>6, <1>7, <1>8 DEF IInv, Sound
<1>10. /\ Sound(disk)' /\ Granted(disk)' /\ Sound(work)' /\ Granted(work)' /\ SameProposal(work, disk)'
       /\ PageShowsDisk' /\ AppliedIsComplete' /\ Approved(work)' = Approved(work)
  BY <1>1, <1>6, <1>9, CopyStep
<1>11. Phase' /\ Marked' /\ Current'
  BY <1>1, <1>3, <1>6, <1>10 DEF IInv, Phase, Marked, Current, Writing, Applying, SameReview
<1>12. WrittenAsDisplayed' /\ WrittenOnce' /\ WriteIsBacked' /\ EffectsAreRemembered'
  BY <1>1
  DEF IInv, WrittenAsDisplayed, WrittenOnce, WriteIsBacked, EffectsAreRemembered, Approved, Staged, PlanApproved
<1> QED
  BY <1>10, <1>11, <1>12 DEF IInv
\* The steps of the service keep the invariant.
LEMMA ServiceSafe == ASSUME IInv, Service PROVE IInv'
<1>0. TypeInv'
  BY ServiceType DEF IInv
<1>1. CASE Throw
  <2>1. /\ pc \in Writing \cup {"begin"} /\ pc' = "stopping"
        /\ UNCHANGED <<disk, work, shown, granted, sent>>
    BY <1>1 DEF Throw, Applying, Writing, historyVars
  <2>2. \A w \in sent : work.objs[w.obj].application # "PENDING"
    BY <2>1, Untouched DEF IInv, Marked, Phase, Touched
  <2>3. Phase' /\ Marked' /\ Current'
    BY <2>1, <2>2 DEF IInv, Phase, Marked, Current, Writing, Applying, Approved, Staged, PlanApproved
  <2> QED
    BY <1>0, <2>1, <2>3
    DEF IInv, Sound, Granted, Pristine, GrantFor, Approved, Staged, SameProposal, PageShowsDisk, Displayed,
        WrittenAsDisplayed, WrittenOnce, WriteIsBacked, PlanApproved, EffectsAreRemembered, AppliedIsComplete
<1> QED
  BY <1>0, <1>1, ValidateSafe, PreflightSafe, ProgressSafe, ResultSafe, WriterSafe, RecoverObjectSafe DEF Service

\* The world can delay and stop an application, never extend what it may write.
LEMMA WorldSafe == ASSUME IInv, World PROVE IInv'
<1> USE DEF historyVars
<1>0. TypeInv'
  BY WorldType DEF IInv
<1>1. CASE Crash
  <2>1. disk' = disk /\ work' = disk /\ pc' = "idle" /\ UNCHANGED <<shown, granted, sent>>
    BY <1>1 DEF Crash, Return
  <2>2. Phase' /\ Marked' /\ Current'
    BY <2>1 DEF Phase, Marked, Current, Writing, Applying
  <2> QED
    BY <1>0, <2>1, <2>2
    DEF IInv, Sound, Granted, Pristine, GrantFor, Approved, Staged, SameProposal, PageShowsDisk, Displayed,
        WrittenAsDisplayed, WrittenOnce, WriteIsBacked, PlanApproved, EffectsAreRemembered, AppliedIsComplete
<1>2. ASSUME UNCHANGED <<disk, work, cur, shown, granted, sent>>,
             \/ pc' = pc
             \/ pc = "sent" /\ pc' \in {"readback", "stopping"}
      PROVE  IInv'
  <2>1. Phase' /\ Marked' /\ Current'
    BY <1>2 DEF IInv, Phase, Marked, Current, Writing, Applying, Approved, Staged, PlanApproved
  <2> QED
    BY <1>0, <1>2, <2>1
    DEF IInv, Sound, Granted, Pristine, GrantFor, Approved, Staged, SameProposal, PageShowsDisk, Displayed,
        WrittenAsDisplayed, WrittenOnce, WriteIsBacked, PlanApproved, EffectsAreRemembered, AppliedIsComplete
<1>3. CASE ChangeAuthorization
  BY <1>2, <1>3 DEF ChangeAuthorization, applyVars
<1>4. ASSUME NEW write \in flight, Commit(write) \/ Rollback(write) PROVE IInv'
  BY <1>2, <1>4 DEF Commit, Rollback, Awaited, applyVars
<1>5. ASSUME NEW o \in Objects, NEW value \in Contents, Edit(o, value) PROVE IInv'
  BY <1>2, <1>5 DEF Edit, applyVars
<1> QED
  BY <1>1, <1>3, <1>4, <1>5 DEF World

\* A step that changes nothing.
LEMMA StutterSafe ==
  ASSUME IInv, UNCHANGED vars
  PROVE  IInv'
  BY DEF vars, applyVars, worldVars, historyVars, IInv, TypeInv, TypeOK, Sound, Granted, Pristine, GrantFor, Approved,
         Staged, SameProposal, Phase, PlanApproved, Marked, Current, PageShowsDisk, Displayed,
         WrittenAsDisplayed, WrittenOnce, WriteIsBacked, EffectsAreRemembered, AppliedIsComplete

\* The strengthened invariant holds in every behaviour.
LEMMA Inductive == Spec => []IInv
<1>1. IInv /\ [Next]_vars => IInv'
  BY StutterSafe, AgentSafe, DeveloperSafe, ServiceSafe, WorldSafe DEF Next
<1> QED
  BY <1>1, InitIInv, PTL DEF Spec

\* What reaches a writer is what the page showed when it was approved.
THEOREM WrittenAsDisplayedHolds == Spec => []WrittenAsDisplayed
<1>1. IInv => WrittenAsDisplayed
  BY DEF IInv
<1> QED
  BY <1>1, Inductive, PTL

\* No object is ever sent to its writer a second time.
THEOREM WrittenOnceHolds == Spec => []WrittenOnce
<1>1. IInv => WrittenOnce
  BY DEF IInv
<1> QED
  BY <1>1, Inductive, PTL

\* A write keeps its approval, its approved plan and its before-image.
THEOREM WriteIsBackedHolds == Spec => []WriteIsBacked
<1>1. IInv => WriteIsBacked
  BY DEF IInv
<1> QED
  BY <1>1, Inductive, PTL

\* A set that wrote something never looks like one that did not.
THEOREM EffectsAreRememberedHolds == Spec => []EffectsAreRemembered
<1>1. IInv => EffectsAreRemembered
  BY DEF IInv
<1> QED
  BY <1>1, Inductive, PTL

\* An applied set verified all that was approved and nothing else.
THEOREM AppliedIsCompleteHolds == Spec => []AppliedIsComplete
<1>1. IInv => AppliedIsComplete
  BY DEF IInv
<1> QED
  BY <1>1, Inductive, PTL

-------------------------------------------------------------------------------
(***************************************************************************)
(* What the stored record knows of the database, and the order of writes   *)
(***************************************************************************)
\* Where the active copy differs from the stored record.
Steady ==
  /\ SameChanges(work, disk)
  /\ pc \in {"next", "stamp", "send", "sent", "readback", "pausing"} => work = disk
  /\ pc = "intent" => \A d \in Objects \ cur : work.objs[d] = disk.objs[d]
  /\ pc # "recovering" =>
       \A o \in Objects : disk.objs[o].application # "PENDING" => work.objs[o].application # "PENDING"

\* No object depends on itself or on one outside the set.
Rooted ==
  /\ IsFiniteSet(Staged(disk))
  /\ \A o \in Staged(disk) : disk.objs[o].deps \subseteq Staged(disk) \ {o}

\* What the next object rests on is verified.
Ready ==
  pc \in {"intent", "stamp", "send"} =>
    \A o \in cur : \A d \in work.objs[o].deps : work.objs[d].application = "VERIFIED"

\* Approvals are of the plan and the proposals as they are.
Confirmed ==
  /\ pc = "validating" => PlanApproved(disk)
  /\ ApprovalsAreCurrent

\* What may be live of this set's writes is recorded: what was committed, what
\* the database has not decided yet, and what a reconciliation has seen.
Recorded(o, value) == disk.objs[o].application # "PENDING" /\ value = disk.objs[o].after
Remembered ==
  /\ \A o \in Objects : db[o].mine => Recorded(o, db[o].value)
  /\ \A w \in flight : ~w.late => Recorded(w.obj, w.value)
  /\ pc = "recovering" =>
       /\ \A w \in flight : w.late
       /\ \A o \in Objects : db[o].mine => work.objs[o].application # "PENDING"

Kept == IInv /\ Steady /\ Rooted /\ Ready /\ Confirmed /\ Remembered

\* A stored record that proposes the same as the old one, for a set that
\* nothing was written for.
Reproposed ==
  /\ disk.status \notin Touched
  /\ SameChanges(disk', disk) /\ work' = disk'
  /\ pc' \in {"idle", "validating", "preflight"} /\ UNCHANGED worldVars

\* A stored record that keeps what the active copy knows of writes.
Stored ==
  /\ SameChanges(disk', disk) /\ work' = disk'
  /\ \A o \in Objects : work.objs[o].application # "PENDING" => disk'.objs[o].application # "PENDING"
  /\ pc' \in {"idle", "next", "stamp", "pausing"} /\ UNCHANGED worldVars
  /\ pc' = "stamp" => pc = "intent" /\ UNCHANGED <<work, cur>>

Staging == \E o \in Objects, after \in Contents, deps \in SUBSET Objects : Stage(o, after, deps)

LEMMA SameChangesTrans ==
  ASSUME NEW a, NEW b, NEW c, SameChanges(a, b), SameChanges(b, c)
  PROVE  SameChanges(a, c)
  BY DEF SameChanges, SameChange

\* Saves of proposals.
LEMMA ProposalSteps ==
  ASSUME IInv
  PROVE  /\ RevisePlan => Reproposed
         /\ Cancel => Reproposed
         /\ ValidateBegin => Reproposed
         /\ \A decision \in Decisions : ReviewPlan(decision) => Reproposed
         /\ \A ids \in SUBSET Objects, decision \in Decisions, destructive \in BOOLEAN :
              Review(ids, decision, destructive) => Reproposed
         /\ \A destructive \in BOOLEAN : ApproveAndApply(destructive) => Reproposed
<1>0. disk \in Sets /\ TypeOK
  BY DEF IInv, TypeInv, TypeOK
<1>1. ASSUME RevisePlan PROVE Reproposed
  <2> DEFINE inv == Invalidated(disk)
             new == [inv EXCEPT !.plan = [NoPlan EXCEPT !.rev = disk.plan.rev + 1]]
  <2>1. inv \in Sets /\ SameChanges(inv, disk) /\ disk.status \notin Touched
    BY <1>0, <1>1, InvalidatedType DEF RevisePlan, Editable, Editables, Touched
  <2>2. Save(new) /\ pc' = "idle" /\ UNCHANGED worldVars
    BY <1>1 DEF RevisePlan, Update, SaveAnd
  <2> HIDE DEF inv
  <2>3. new.objs = inv.objs
    BY <2>1 DEF Sets
  <2> HIDE DEF new
  <2> QED
    BY <2>1, <2>2, <2>3 DEF Reproposed, Save, SameChanges
<1>2. ASSUME Cancel PROVE Reproposed
  <2> DEFINE new == [disk EXCEPT !.status = "CANCELLED"]
  <2>1. new.objs = disk.objs /\ disk.status \notin Touched
    BY <1>0, <1>2, StatusType DEF Cancel, Statuses, Touched
  <2>2. Save(new) /\ pc' = "idle" /\ UNCHANGED worldVars
    BY <1>2 DEF Cancel, Update, SaveAnd
  <2> HIDE DEF new
  <2> QED
    BY <2>1, <2>2 DEF Reproposed, Save, SameChanges, SameChange
<1>3. ASSUME ValidateBegin PROVE Reproposed
  <2> DEFINE new == [disk EXCEPT !.status = "VALIDATING"]
  <2>1. new.objs = disk.objs /\ disk.status \notin Touched
    BY <1>0, <1>3, StatusType DEF ValidateBegin, Editable, Editables, Statuses, Touched
  <2>2. Save(new) /\ pc' = "validating" /\ UNCHANGED worldVars
    BY <1>3 DEF ValidateBegin, SaveAnd
  <2> HIDE DEF new
  <2> QED
    BY <2>1, <2>2 DEF Reproposed, Save, SameChanges, SameChange
<1>4. ASSUME NEW decision \in Decisions, ReviewPlan(decision) PROVE Reproposed
  <2> DEFINE base == IF decision = "APPROVED" THEN disk ELSE Invalidated(disk)
             new == [base EXCEPT !.plan.review = decision,
                                 !.plan.approved = IF decision = "APPROVED" THEN disk.plan.rev ELSE 0]
  <2>1. base \in Sets /\ SameChanges(base, disk)
    <3>1. CASE decision = "APPROVED"
      BY <1>0, <3>1 DEF SameChanges, SameChange
    <3>2. CASE decision = "REJECTED"
      <4>1. Invalidated(disk) \in Sets /\ SameChanges(Invalidated(disk), disk)
        BY <1>0, <1>4, <3>2, InvalidatedType DEF ReviewPlan
      <4> QED
        BY <3>2, <4>1
    <3> QED
      BY <3>1, <3>2 DEF Decisions
  <2>2. disk.status \notin Touched
    BY <1>4 DEF ReviewPlan, Editable, Editables, Touched
  <2>3. Save(new) /\ pc' = "idle" /\ UNCHANGED worldVars
    BY <1>4 DEF ReviewPlan, Update, SaveAnd
  <2> HIDE DEF base
  <2>4. new.objs = base.objs
    BY <2>1 DEF Sets, Plans
  <2> HIDE DEF new
  <2> QED
    BY <2>1, <2>2, <2>3, <2>4 DEF Reproposed, Save, SameChanges
<1>5. ASSUME NEW ids \in SUBSET Objects, NEW decision \in Decisions, NEW destructive \in BOOLEAN,
             Review(ids, decision, destructive)
      PROVE  Reproposed
  <2>1. SameChanges(Decided(disk, ids, decision), disk)
    BY <1>0, DecidedType
  <2>2. /\ Save(Decided(disk, ids, decision)) /\ pc' = "idle" /\ UNCHANGED worldVars
        /\ disk.status \notin Touched
    BY <1>5 DEF Review, Reviewable, Update, SaveAnd, Touched
  <2> QED
    BY <2>1, <2>2 DEF Reproposed, Save
<1>6. ASSUME NEW destructive \in BOOLEAN, ApproveAndApply(destructive) PROVE Reproposed
  <2>1. SameChanges(Decided(disk, Eligible(disk), "APPROVED"), disk)
    BY <1>0, DecidedType DEF Decisions
  <2>2. /\ Save(Decided(disk, Eligible(disk), "APPROVED")) /\ pc' = "preflight" /\ UNCHANGED worldVars
        /\ disk.status \notin Touched
    BY <1>6 DEF ApproveAndApply, Reviewable, StartApply, Touched
  <2> QED
    BY <2>1, <2>2 DEF Reproposed, Save
<1> QED
  BY <1>1, <1>2, <1>3, <1>4, <1>5, <1>6

\* Saves of a validation, and of an application that never began.
LEMMA ValidationSteps ==
  ASSUME IInv, ValidatePass \/ ValidateFail \/ PreflightFail
  PROVE  Reproposed
<1>0. work = disk /\ disk \in Sets /\ auth \in Nat /\ disk.status \notin Touched
  BY Bounds DEF ValidatePass, ValidateFail, PreflightFail, IInv, Phase, TypeInv, TypeOK, Touched
<1>1. ASSUME NEW reached, NEW stamped, NEW status \in {"READY_FOR_REVIEW", "CONFLICTED"},
             Save([Revalidated(work, reached, stamped) EXCEPT !.status = status]),
             pc' = "idle", UNCHANGED worldVars
      PROVE  Reproposed
  <2> DEFINE mid == Revalidated(work, reached, stamped)
             new == [mid EXCEPT !.status = status]
  <2>1. mid \in Sets /\ SameChanges(mid, disk)
    BY <1>0, RevalidatedType
  <2>2. Save(new)
    BY <1>1
  <2> HIDE DEF mid
  <2>3. new.objs = mid.objs
    BY <2>1, StatusType DEF Statuses, Editables
  <2> HIDE DEF new
  <2> QED
    BY <1>0, <1>1, <2>1, <2>2, <2>3 DEF Reproposed, Save, SameChanges
<1>2. CASE ValidatePass
  BY <1>1, <1>2 DEF ValidatePass, SaveAnd
<1>3. CASE ValidateFail
  BY <1>1, <1>3 DEF ValidateFail, SaveAnd
<1>4. CASE PreflightFail
  <2> DEFINE new == [work EXCEPT !.status = "CONFLICTED"]
  <2>1. new.objs = disk.objs
    BY <1>0, StatusType DEF Statuses, Editables
  <2>2. Save(new) /\ pc' = "idle" /\ UNCHANGED worldVars
    BY <1>4 DEF PreflightFail, Return
  <2> HIDE DEF new
  <2> QED
    BY <1>0, <2>1, <2>2 DEF Reproposed, Save, SameChanges, SameChange
<1> QED
  BY <1>2, <1>3, <1>4

\* Saves of an application and of a reconciliation.
LEMMA ProgressSteps ==
  ASSUME IInv, Steady, SaveProgress \/ PauseBetweenWriters \/ Finish \/ Stop \/ RecoverEnd
  PROVE  Stored /\ disk'.status \in Touched \cup {"FAILED"}
<1>0. work \in Sets /\ SameChanges(work, disk)
  BY DEF IInv, TypeInv, TypeOK, Steady
<1>1. ASSUME NEW set \in Sets, Save(set), SameChanges(set, work), set.status \in Touched \cup {"FAILED"},
             \A o \in Objects : work.objs[o].application # "PENDING" => set.objs[o].application # "PENDING",
             pc' \in {"idle", "next", "stamp", "pausing"}, UNCHANGED worldVars,
             pc' = "stamp" => pc = "intent" /\ set = work /\ cur' = cur
      PROVE  Stored /\ disk'.status \in Touched \cup {"FAILED"}
  BY <1>0, <1>1, SameChangesTrans DEF Stored, Save
<1>2. SameChanges(work, work)
  BY DEF SameChanges, SameChange
<1>3. CASE SaveProgress
  <2>1. work.status = "APPLYING"
    BY <1>3 DEF SaveProgress, IInv, Phase, Writing
  <2> QED
    BY <1>0, <1>1, <1>2, <1>3, <2>1 DEF SaveProgress, SaveAnd, Touched, applyVars
<1>4. ASSUME NEW s \in {"PARTIALLY_APPLIED", "APPLIED"}, Save([work EXCEPT !.status = s]),
             pc' = "idle", UNCHANGED worldVars
      PROVE  Stored /\ disk'.status \in Touched \cup {"FAILED"}
  <2> DEFINE new == [work EXCEPT !.status = s]
  <2>1. new \in Sets /\ new.status = s /\ new.objs = work.objs
    BY <1>0, StatusType DEF Statuses
  <2>2. Save(new)
    BY <1>4
  <2> HIDE DEF new
  <2>3. SameChanges(new, work)
    BY <1>2, <2>1 DEF SameChanges
  <2> QED
    BY <1>1, <1>4, <2>1, <2>2, <2>3 DEF Touched
<1>5. CASE PauseBetweenWriters
  BY <1>4, <1>5 DEF PauseBetweenWriters, Return
<1>6. CASE Finish
  BY <1>4, <1>6 DEF Finish, Return
<1>7. CASE RecoverEnd
  BY <1>4, <1>7 DEF RecoverEnd, Return
<1>8. CASE Stop
  <2> DEFINE new == Stopped(work)
  <2>1. /\ new \in Sets /\ SameChanges(new, work) /\ new.status \in {"PARTIALLY_APPLIED", "FAILED"}
        /\ \A o \in Objects : work.objs[o].application # "PENDING" => new.objs[o].application # "PENDING"
    BY <1>0, StoppedType
  <2>2. Save(new) /\ pc' = "idle" /\ UNCHANGED worldVars
    BY <1>8 DEF Stop, Return
  <2> HIDE DEF new
  <2> QED
    BY <1>1, <2>1, <2>2 DEF Touched
<1> QED
  BY <1>3, <1>5, <1>6, <1>7, <1>8

\* Steps that leave the stored record alone.
Unstored ==
  \/ PreflightPass \/ Render \/ RecoverBegin \/ Abort \/ Throw \/ Crash \/ ChangeAuthorization
  \/ \E stop \in BOOLEAN : ApplyBegin(stop)
  \/ \E o \in Objects : CheckNext(o) \/ CheckStamp(o) \/ SendWrite(o) \/ Readback(o) \/ RecoverObject(o)
  \/ \E write \in flight : Commit(write) \/ Rollback(write)
  \/ \E o \in Objects, value \in Contents : Edit(o, value)

\* What a step can do to the stored record.
LEMMA Effects ==
  ASSUME IInv, Steady, Next
  PROVE  Reproposed \/ Staging \/ Stored \/ (Unstored /\ UNCHANGED disk)
<1>1. CASE Agent
  BY <1>1, ProposalSteps DEF Agent, Staging
<1>2. CASE Developer
  BY <1>2, ProposalSteps DEF Developer, Unstored, Render, RecoverBegin, Abort, ApplyBegin
<1>3. CASE Service
  BY <1>3, ValidationSteps, ProgressSteps
  DEF Service, Unstored, PreflightPass, Throw, CheckNext, CheckStamp, SendWrite, Readback, RecoverObject
<1>4. CASE World
  BY <1>4 DEF World, Unstored, Crash, ChangeAuthorization, Commit, Rollback, Edit
<1> QED
  BY <1>1, <1>2, <1>3, <1>4 DEF Next

\* The revision an agent stages changes one object of the set.
LEMMA StagedType ==
  ASSUME IInv, NEW o \in Objects, NEW after \in Contents, NEW deps \in SUBSET Objects, Stage(o, after, deps)
  PROVE  /\ disk' \in Sets /\ work' = disk' /\ disk'.status = "DRAFT" /\ pc' = "idle" /\ UNCHANGED worldVars
         /\ disk.status \notin Touched
         /\ disk'.objs[o].staged /\ disk'.objs[o].deps = deps
         /\ \A p \in Objects \ {o} : SameChange(disk'.objs[p], disk.objs[p])
         /\ deps \subseteq Staged(disk)
         /\ Orderable(disk', Staged(disk'))
<1> DEFINE inv == Invalidated(disk)
           change == [NoChange EXCEPT !.staged = TRUE, !.before = Live(o).value, !.base = Live(o).token,
                                      !.after = after, !.deps = deps]
           new == [inv EXCEPT !.objs[o] = change]
<1>0. disk \in Sets /\ TypeOK
  BY DEF IInv, TypeInv, TypeOK
<1>1. inv \in Sets /\ inv.status = "DRAFT" /\ SameChanges(inv, disk)
  BY <1>0, InvalidatedType DEF Stage
<1>2. change \in Changes /\ change.staged /\ change.deps = deps
  BY <1>0, NoValues DEF NoChange, Changes, Live, TypeOK
<1>3. Save(new) /\ pc' = "idle" /\ UNCHANGED worldVars /\ Orderable(new, Staged(new)) /\ deps \subseteq Staged(disk)
  BY DEF Stage, Update, SaveAnd
<1>4. disk.status \notin Touched
  BY DEF Stage, Editable, Editables, Touched
<1> HIDE DEF inv, change
<1>5. /\ new \in Sets /\ new.status = "DRAFT"
      /\ \A p \in Objects : new.objs[p] = IF p = o THEN change ELSE inv.objs[p]
  BY <1>1, <1>2, ApplicationType
<1> HIDE DEF new
<1>6. disk' = new /\ work' = new
  BY <1>3 DEF Save
<1>7. \A p \in Objects \ {o} : SameChange(disk'.objs[p], disk.objs[p])
  BY <1>1, <1>5, <1>6 DEF SameChanges
<1> QED
  BY <1>2, <1>3, <1>4, <1>5, <1>6, <1>7

\* An order of the chosen objects leaves no object that depends on itself.
LEMMA NoLoop ==
  ASSUME NEW set, NEW chosen, IsFiniteSet(chosen), Orderable(set, chosen), NEW o \in chosen
  PROVE  o \notin set.objs[o].deps /\ set.objs[o].deps \subseteq chosen
<1>1. Cardinality(chosen) \in Nat
  BY FS_CardinalityType
<1>2. PICK rank \in [chosen -> 1 .. Cardinality(chosen)] :
        \A p \in chosen : \A d \in set.objs[p].deps : rank[d] < rank[p]
  BY DEF Orderable
<1>3. rank[o] \in Int
  BY <1>1, <1>2
<1>4. ~ rank[o] < rank[o]
  BY <1>3
<1>5. o \notin set.objs[o].deps
  BY <1>2, <1>4
<1> QED
  BY <1>5 DEF Orderable

\* Dependencies stay inside the set, and lead away from their object.
LEMMA RootedStep == ASSUME IInv, Steady, Rooted, Next PROVE Rooted'
<1>1. ASSUME SameChanges(disk', disk) PROVE Rooted'
  <2>1. Staged(disk') = Staged(disk)
    BY <1>1 DEF SameChanges, SameChange, Staged
  <2>2. Staged(disk)' = Staged(disk) /\ \A o \in Objects : disk'.objs[o].deps = disk.objs[o].deps
    BY <1>1, <2>1 DEF SameChanges, SameChange, Staged
  <2> QED
    BY <2>2 DEF Rooted, Staged
<1>2. ASSUME NEW o \in Objects, NEW after \in Contents, NEW deps \in SUBSET Objects, Stage(o, after, deps)
      PROVE  Rooted'
  <2>1. /\ disk'.objs[o].staged /\ \A p \in Objects \ {o} : SameChange(disk'.objs[p], disk.objs[p])
        /\ Orderable(disk', Staged(disk'))
    BY <1>2, StagedType
  <2>2. Staged(disk') = Staged(disk) \cup {o}
    BY <2>1 DEF Staged, SameChange
  <2>3. IsFiniteSet(Staged(disk'))
    BY <2>2, FS_AddElement DEF Rooted
  <2>4. \A p \in Staged(disk') : disk'.objs[p].deps \subseteq Staged(disk') \ {p}
    BY <2>1, <2>3, NoLoop
  <2> QED
    BY <2>3, <2>4 DEF Rooted, Staged
<1>3. CASE UNCHANGED disk
  BY <1>1, <1>3 DEF SameChanges, SameChange
<1> QED
  BY <1>1, <1>2, <1>3, Effects DEF Reproposed, Stored, Staging

\* The active copy differs from the stored record only in what the
\* application or the reconciliation is just finding out.
LEMMA SteadyStep == ASSUME IInv, Steady, Next PROVE Steady'
<1> USE DEF worldVars, historyVars, applyVars
<1>0. work \in Sets /\ work' \in Sets /\ disk \in Sets
  BY AgentType, DeveloperType, ServiceType, WorldType DEF Next, IInv, TypeInv, TypeOK
<1>1. ASSUME work' = disk' PROVE Steady'
  BY <1>1 DEF Steady, SameChanges, SameChange
<1>2. CASE Reproposed \/ Stored \/ Crash
  BY <1>1, <1>2, Effects DEF Reproposed, Stored, Crash
<1>3. CASE Staging
  BY <1>1, <1>3, StagedType DEF Staging
<1>4. CASE PreflightPass
  <2> DEFINE new == [work EXCEPT !.status = "APPLYING", !.checkpoint = Approved(work)]
  <2>1. work = disk /\ work' = new /\ disk' = disk /\ pc' = "begin"
    BY <1>4 DEF PreflightPass, IInv, Phase
  <2>2. new.objs = work.objs
    BY <1>0 DEF Sets
  <2> HIDE DEF new
  <2> QED
    BY <2>1, <2>2 DEF Steady, SameChanges, SameChange
<1>5. ASSUME NEW o \in Objects, NEW c \in Changes, SameChange(c, work.objs[o]),
             work' = [work EXCEPT !.objs[o] = c], disk' = disk,
             \/ pc = "next" /\ pc' = "intent" /\ cur' = {o} /\ c.application # "PENDING"
             \/ pc = "readback" /\ pc' = "record" /\ c.application # "PENDING"
             \/ pc = "recovering" /\ pc' = "recovering"
      PROVE  Steady'
  <2>1. \A p \in Objects : work'.objs[p] = IF p = o THEN c ELSE work.objs[p]
    BY <1>0, <1>5, ApplicationType
  <2>2. SameChanges(work', work)
    BY <1>5, <2>1 DEF SameChanges, SameChange
  <2>3. SameChanges(work', disk')
    BY <1>5, <2>2, SameChangesTrans DEF Steady
  <2>4. \A p \in Objects \ {o} : pc = "next" => work'.objs[p] = disk'.objs[p]
    BY <1>5, <2>1 DEF Steady
  <2>5. pc # "recovering" => \A p \in Objects : disk'.objs[p].application # "PENDING" => work'.objs[p].application # "PENDING"
    BY <1>5, <2>1 DEF Steady
  <2> QED
    BY <1>5, <2>3, <2>4, <2>5 DEF Steady
<1>6. ASSUME NEW o \in Objects, CheckNext(o) PROVE Steady'
  <2> DEFINE c == [work.objs[o] EXCEPT !.application = "APPLYING"]
  <2>1. c \in Changes /\ SameChange(c, work.objs[o]) /\ c.application = "APPLYING"
    BY <1>0 DEF Sets, Changes, SameChange
  <2>2. work' = [work EXCEPT !.objs[o] = c] /\ pc = "next" /\ pc' = "intent" /\ cur' = {o} /\ disk' = disk
    BY <1>0, <1>6 DEF CheckNext, Sets
  <2> HIDE DEF c
  <2> QED
    BY <1>5, <2>1, <2>2
<1>7. ASSUME NEW o \in Objects, Readback(o) PROVE Steady'
  <2> DEFINE c == [work.objs[o] EXCEPT !.application = "VERIFIED", !.verified = db[o].token]
  <2>0. db[o].token \in Nat /\ work.objs[o] \in Changes
    BY <1>0 DEF Sets, IInv, TypeInv, TypeOK
  <2>1. c \in Changes /\ SameChange(c, work.objs[o]) /\ c.application = "VERIFIED"
    BY <2>0, VerifiedType
  <2>2. work' = [work EXCEPT !.objs[o] = c]
    BY <1>0, <1>7, <2>0 DEF Readback, Sets
  <2>3. pc = "readback" /\ pc' = "record" /\ disk' = disk
    BY <1>7 DEF Readback
  <2> HIDE DEF c
  <2> QED
    BY <1>5, <2>1, <2>2, <2>3
<1>8. ASSUME NEW o \in Objects, RecoverObject(o) PROVE Steady'
  <2> DEFINE c == Reconciled(work.objs[o], Live(o))
  <2>1. c \in Changes /\ SameChange(c, work.objs[o])
    BY <1>0, ReconciledType DEF Live, Sets, IInv, TypeInv, TypeOK
  <2>2. work' = [work EXCEPT !.objs[o] = c] /\ pc = "recovering" /\ pc' = "recovering" /\ disk' = disk
    BY <1>8 DEF RecoverObject
  <2> HIDE DEF c
  <2> QED
    BY <1>5, <2>1, <2>2
<1>9. ASSUME disk' = disk, work' = work, pc' = "intent" => pc = "intent" /\ cur' = cur,
             pc' \in {"next", "stamp", "send", "sent", "readback", "pausing"} => work = disk,
             pc' # "recovering" => pc # "recovering"
      PROVE  Steady'
  BY <1>9 DEF Steady, SameChanges, SameChange
<1>10. CASE Render \/ Abort \/ ChangeAuthorization \/ RecoverBegin \/ Throw
  <2>1. UNCHANGED <<disk, work>>
    BY <1>10 DEF Render, Abort, ChangeAuthorization, RecoverBegin, Throw
  <2>2. (pc' = pc /\ cur' = cur) \/ pc' = "recovering" \/ (pc \in Applying /\ pc' = "stopping")
    BY <1>10 DEF Render, Abort, ChangeAuthorization, RecoverBegin, Throw
  <2> QED
    BY <1>9, <2>1, <2>2 DEF Steady, Applying
<1>11. ASSUME NEW stop \in BOOLEAN, ApplyBegin(stop) PROVE Steady'
  BY <1>9, <1>11 DEF ApplyBegin, StartApply
<1>12. ASSUME NEW o \in Objects, CheckStamp(o) \/ SendWrite(o) PROVE Steady'
  BY <1>9, <1>12 DEF CheckStamp, SendWrite, Steady
<1>13. ASSUME NEW write \in flight, Commit(write) \/ Rollback(write) PROVE Steady'
  BY <1>9, <1>13 DEF Commit, Rollback, Awaited, Steady
<1>14. ASSUME NEW o \in Objects, NEW value \in Contents, Edit(o, value) PROVE Steady'
  BY <1>9, <1>14 DEF Edit, Steady
<1> QED
  BY <1>2, <1>3, <1>4, <1>6, <1>7, <1>8, <1>10, <1>11, <1>12, <1>13, <1>14, Effects DEF Unstored

\* The checks before a writer include every direct dependency of its object.
LEMMA ReadyStep == ASSUME IInv, Steady, Rooted, Ready, Next PROVE Ready'
<1>0. work \in Sets
  BY DEF IInv, TypeInv, TypeOK
<1>1. ASSUME pc' \in {"intent", "stamp", "send"} => pc \in {"intent", "stamp", "send"} /\ UNCHANGED <<work, cur>>
      PROVE  Ready'
  BY <1>1 DEF Ready
<1>2. ASSUME NEW o \in Objects, CheckNext(o) PROVE Ready'
  <2> DEFINE c == [work.objs[o] EXCEPT !.application = "APPLYING"]
  <2>1. work' = [work EXCEPT !.objs[o] = c] /\ cur' = {o} /\ o \in Approved(work)
        /\ \A d \in Prerequisites(work, o) : work.objs[d].application = "VERIFIED"
    BY <1>0, <1>2 DEF CheckNext, Sets, AtVerified
  <2>2. c \in Changes /\ c.deps = work.objs[o].deps
    BY <1>0 DEF Sets, Changes
  <2> HIDE DEF c
  <2>3. \A p \in Objects : work'.objs[p] = IF p = o THEN c ELSE work.objs[p]
    BY <1>0, <2>1, <2>2, ApplicationType
  <2>4. o \in Staged(work) /\ work.objs[o].deps \subseteq Staged(work) \ {o}
    BY <2>1 DEF Rooted, Steady, SameChanges, SameChange, Approved, Staged
  <2>5. ASSUME NEW d \in work.objs[o].deps
        PROVE  d \in Prerequisites(work, o)
    <3> DEFINE D == DependentsOf(work, {d}, Staged(work))
    <3>1. {d} \in SUBSET Objects /\ Staged(work) \in SUBSET Objects
      BY <2>4 DEF Staged
    <3>2. {d} \subseteq D /\ \A x \in Staged(work) : work.objs[x].deps \cap D # {} => x \in D
      BY <3>1, DependentsClosed
    <3> HIDE DEF D
    <3>3. o \in D \ {d}
      BY <2>4, <3>2
    <3> QED
      BY <2>4, <3>3 DEF Prerequisites, D
  <2>6. \A d \in work.objs[o].deps : d # o /\ d \in Objects /\ work.objs[d].application = "VERIFIED"
    BY <2>1, <2>4, <2>5 DEF Staged
  <2> QED
    BY <2>1, <2>2, <2>3, <2>6 DEF Ready
<1>3. CASE Reproposed \/ Stored \/ Crash \/ PreflightPass
  BY <1>1, <1>3 DEF Reproposed, Stored, Crash, Return, PreflightPass
<1>4. CASE Staging
  BY <1>1, <1>4, StagedType DEF Staging
<1>5. CASE Render \/ Abort \/ ChangeAuthorization \/ RecoverBegin \/ Throw
  BY <1>1, <1>5 DEF Render, Abort, ChangeAuthorization, RecoverBegin, Throw, applyVars
<1>6. ASSUME NEW stop \in BOOLEAN, ApplyBegin(stop) PROVE Ready'
  BY <1>1, <1>6 DEF ApplyBegin, StartApply
<1>7. ASSUME NEW o \in Objects, CheckStamp(o) \/ SendWrite(o) \/ Readback(o) \/ RecoverObject(o) PROVE Ready'
  BY <1>1, <1>7 DEF CheckStamp, SendWrite, Readback, RecoverObject
<1>8. ASSUME NEW write \in flight, Commit(write) \/ Rollback(write) PROVE Ready'
  BY <1>1, <1>8 DEF Commit, Rollback, applyVars
<1>9. ASSUME NEW o \in Objects, NEW value \in Contents, Edit(o, value) PROVE Ready'
  BY <1>1, <1>9 DEF Edit, applyVars
<1> QED
  BY <1>2, <1>3, <1>4, <1>5, <1>6, <1>7, <1>8, <1>9, Effects DEF Unstored

\* A decision approves objects in their present form, with all they rest on.
LEMMA DecisionConfirmed ==
  ASSUME IInv, Confirmed, NEW ids, NEW decision \in Decisions, NEW destructive,
         Reviewable(disk, ids, decision, destructive), disk' = Decided(disk, ids, decision), pc' # "validating"
  PROVE  Confirmed'
<1> DEFINE new == Decided(disk, ids, decision)
<1>0. disk \in Sets /\ disk.status \in {"READY_FOR_REVIEW", "APPROVED"}
  BY DEF IInv, TypeInv, TypeOK, Reviewable
<1>1. /\ new.plan = disk.plan /\ new.rev = disk.rev /\ SameChanges(new, disk)
      /\ \A o \in Objects :
           /\ new.objs[o].auth = disk.objs[o].auth
           /\ new.objs[o].review = "APPROVED" =>
                \/ new.objs[o].approval = ApprovalOf(disk, o)
                \/ disk.objs[o].review = "APPROVED" /\ new.objs[o].approval = disk.objs[o].approval
  BY <1>0, DecidedType
<1>2. \A o \in Approved(new) : new.objs[o].deps \subseteq Approved(new)
  BY DEF Reviewable, Orderable
<1> HIDE DEF new
<1>3. PlanApproved(new)
  BY <1>0, <1>1 DEF Confirmed, ApprovalsAreCurrent, PlanApproved
<1>4. \A o \in Objects : ApprovalOf(new, o) = ApprovalOf(disk, o)
  BY <1>1 DEF ApprovalOf, SameChanges, SameChange
<1>5. \A o \in Approved(new) : new.objs[o].approval = ApprovalOf(new, o)
  BY <1>0, <1>1, <1>4 DEF Confirmed, ApprovalsAreCurrent, Approved, Staged, SameChanges, SameChange
<1>6. disk' = new
  BY DEF new
<1> QED
  BY <1>2, <1>3, <1>5, <1>6 DEF Confirmed, ApprovalsAreCurrent, PlanApproved, Approved, Staged, ApprovalOf

\* Whatever stores a reviewable set stores approvals that are current.
LEMMA ConfirmedStep == ASSUME IInv, Steady, Confirmed, Next PROVE Confirmed'
<1>0. disk \in Sets /\ TypeOK
  BY DEF IInv, TypeInv, TypeOK
<1>1. ASSUME disk'.status \notin {"READY_FOR_REVIEW", "APPROVED"}, pc' # "validating" PROVE Confirmed'
  BY <1>1 DEF Confirmed, ApprovalsAreCurrent
<1>2. ASSUME disk' = disk, pc' = "validating" => pc = "validating" PROVE Confirmed'
  BY <1>2 DEF Confirmed, ApprovalsAreCurrent, PlanApproved, Approved, Staged, ApprovalOf
<1>3. CASE Staging
  BY <1>1, <1>3, StagedType DEF Staging
<1>4. CASE RevisePlan
  <2> DEFINE inv == Invalidated(disk)
             new == [inv EXCEPT !.plan = [NoPlan EXCEPT !.rev = disk.plan.rev + 1]]
  <2>1. inv \in Sets /\ inv.status = "DRAFT"
    BY <1>0, <1>4, InvalidatedType DEF RevisePlan
  <2>2. disk' = new /\ pc' = "idle"
    BY <1>4 DEF RevisePlan, Update, SaveAnd, Save
  <2> HIDE DEF inv
  <2>3. new.status = "DRAFT"
    BY <2>1 DEF Sets
  <2> HIDE DEF new
  <2> QED
    BY <1>1, <2>2, <2>3
<1>5. ASSUME NEW decision \in Decisions, ReviewPlan(decision) PROVE Confirmed'
  <2> DEFINE base == IF decision = "APPROVED" THEN disk ELSE Invalidated(disk)
             approved == IF decision = "APPROVED" THEN disk.plan.rev ELSE 0
             new == [base EXCEPT !.plan.review = decision, !.plan.approved = approved]
  <2>1. base \in Sets /\ (decision # "APPROVED" => base.status = "DRAFT")
    <3>1. CASE decision = "APPROVED"
      BY <1>0, <3>1
    <3>2. CASE decision = "REJECTED"
      <4>1. Invalidated(disk) \in Sets /\ Invalidated(disk).status = "DRAFT"
        BY <1>0, <1>5, <3>2, InvalidatedType DEF ReviewPlan
      <4> QED
        BY <3>2, <4>1
    <3> QED
      BY <3>1, <3>2 DEF Decisions
  <2>2. disk' = new /\ pc' = "idle"
    BY <1>5 DEF ReviewPlan, Update, SaveAnd, Save
  <2>3. decision = "APPROVED" => base = disk /\ approved = disk.plan.rev
    OBVIOUS
  <2> HIDE DEF base, approved
  <2>4. /\ new.status = base.status /\ new.objs = base.objs /\ new.rev = base.rev /\ new.plan.rev = base.plan.rev
        /\ new.plan.review = decision /\ new.plan.approved = approved
    BY <2>1 DEF Sets, Plans
  <2> HIDE DEF new
  <2>5. CASE decision # "APPROVED"
    BY <1>1, <2>1, <2>2, <2>4, <2>5
  <2>6. CASE decision = "APPROVED"
    BY <2>2, <2>3, <2>4, <2>6 DEF Confirmed, ApprovalsAreCurrent, PlanApproved, Approved, Staged, ApprovalOf
  <2> QED
    BY <2>5, <2>6
<1>6. CASE Cancel
  <2> DEFINE new == [disk EXCEPT !.status = "CANCELLED"]
  <2>1. new.status = "CANCELLED"
    BY <1>0 DEF Sets
  <2>2. disk' = new /\ pc' = "idle"
    BY <1>6 DEF Cancel, Update, SaveAnd, Save
  <2> HIDE DEF new
  <2> QED
    BY <1>1, <2>1, <2>2
<1>7. CASE ValidateBegin
  <2> DEFINE new == [disk EXCEPT !.status = "VALIDATING"]
  <2>1. new.status = "VALIDATING" /\ new.plan = disk.plan
    BY <1>0 DEF Sets
  <2>2. disk' = new /\ PlanApproved(disk)
    BY <1>7 DEF ValidateBegin, SaveAnd, Save
  <2> HIDE DEF new
  <2> QED
    BY <2>1, <2>2 DEF Confirmed, ApprovalsAreCurrent, PlanApproved
<1>8. ASSUME NEW ids \in SUBSET Objects, NEW decision \in Decisions, NEW destructive \in BOOLEAN,
             Review(ids, decision, destructive)
      PROVE  Confirmed'
  BY <1>8, DecisionConfirmed DEF Review, Update, SaveAnd, Save
<1>9. ASSUME NEW destructive \in BOOLEAN, ApproveAndApply(destructive) PROVE Confirmed'
  BY <1>9, DecisionConfirmed DEF ApproveAndApply, Save, StartApply, Decisions
<1>10. CASE ValidatePass
  <2> DEFINE mid == Revalidated(work, Staged(work), Staged(work))
             new == [mid EXCEPT !.status = "READY_FOR_REVIEW"]
  <2>1. work = disk /\ PlanApproved(disk) /\ disk' = new /\ pc' = "idle"
    BY <1>10 DEF ValidatePass, SaveAnd, Save, IInv, Phase, Confirmed
  <2>2. auth \in Nat /\ work \in Sets
    BY <1>0, <2>1, Bounds DEF TypeOK
  <2>3. /\ mid \in Sets /\ mid.plan = disk.plan
        /\ \A o \in Objects : /\ mid.objs[o].staged = disk.objs[o].staged
                              /\ o \in Staged(disk) => mid.objs[o].review = "PENDING"
    BY <2>1, <2>2, RevalidatedType
  <2> HIDE DEF mid
  <2>4. new.objs = mid.objs /\ new.plan = mid.plan
    BY <2>3 DEF Sets
  <2> HIDE DEF new
  <2>5. Approved(disk') = {}
    BY <2>1, <2>3, <2>4 DEF Approved, Staged
  <2> QED
    BY <2>1, <2>3, <2>4, <2>5 DEF Confirmed, ApprovalsAreCurrent, PlanApproved, Approved, Staged
<1>11. CASE ValidateFail
  <2>1. PICK reached \in SUBSET Staged(work), stamped \in SUBSET Staged(work) :
          Save([Revalidated(work, reached, stamped) EXCEPT !.status = "CONFLICTED"]) /\ pc' = "idle"
    BY <1>11 DEF ValidateFail, SaveAnd
  <2> DEFINE mid == Revalidated(work, reached, stamped)
             new == [mid EXCEPT !.status = "CONFLICTED"]
  <2>2. mid \in Sets
    BY <1>0, Bounds, RevalidatedType DEF TypeOK
  <2>3. disk' = new
    BY <2>1 DEF Save
  <2> HIDE DEF mid
  <2>4. new.status = "CONFLICTED"
    BY <2>2 DEF Sets
  <2> HIDE DEF new
  <2> QED
    BY <1>1, <2>1, <2>3, <2>4
<1>12. CASE PreflightFail
  <2> DEFINE new == [work EXCEPT !.status = "CONFLICTED"]
  <2>1. new.status = "CONFLICTED"
    BY <1>0 DEF Sets, TypeOK
  <2>2. disk' = new /\ pc' = "idle"
    BY <1>12 DEF PreflightFail, Save, Return
  <2> HIDE DEF new
  <2> QED
    BY <1>1, <2>1, <2>2
<1>13. CASE SaveProgress \/ PauseBetweenWriters \/ Finish \/ Stop \/ RecoverEnd
  BY <1>1, <1>13, ProgressSteps DEF Stored, Touched
<1>14. CASE Unstored
  <2>1. disk' = disk /\ (pc' = "validating" => pc = "validating")
    BY <1>14
    DEF Unstored, PreflightPass, Render, RecoverBegin, Abort, Throw, Crash, Return, ChangeAuthorization, ApplyBegin,
        StartApply, CheckNext, CheckStamp, SendWrite, Readback, RecoverObject, Commit, Rollback, Edit
  <2> QED
    BY <1>2, <2>1
<1>15. CASE Agent
  BY <1>3, <1>4, <1>15 DEF Agent, Staging
<1>16. CASE Developer
  BY <1>5, <1>6, <1>7, <1>8, <1>9, <1>14, <1>16 DEF Developer, Unstored
<1>17. CASE Service
  BY <1>10, <1>11, <1>12, <1>13, <1>14, <1>17 DEF Service, Unstored
<1>18. CASE World
  BY <1>14, <1>18 DEF World, Unstored
<1> QED
  BY <1>15, <1>16, <1>17, <1>18 DEF Next

\* A step of the world or the service changes the version of one object, and
\* the new one is the set's own only if the record says so.
LEMMA VersionStep ==
  ASSUME IInv, Remembered, NEW o \in Objects, NEW value, NEW mine \in BOOLEAN,
         db' = [db EXCEPT ![o] = NewVersion(o, value, mine)],
         mine => pc # "recovering" /\ Recorded(o, value),
         flight' \subseteq flight, UNCHANGED <<disk, work>>, pc' = "recovering" => pc = "recovering"
  PROVE  Remembered'
<1>1. \A p \in Objects : db'[p] = IF p = o THEN NewVersion(o, value, mine) ELSE db[p]
  BY DEF IInv, TypeInv, TypeOK
<1>2. NewVersion(o, value, mine).mine = mine /\ NewVersion(o, value, mine).value = value
  BY DEF NewVersion
<1>3. \A p \in Objects : \A v : Recorded(p, v)' <=> Recorded(p, v)
  BY DEF Recorded
<1>4. \A p \in Objects : db'[p].mine => disk'.objs[p].application # "PENDING" /\ db'[p].value = disk'.objs[p].after
  BY <1>1, <1>2 DEF Remembered, Recorded
<1>5. \A w \in flight' : w \in flight /\ w.obj \in Objects
  BY DEF IInv, TypeInv, TypeOK
<1>6. pc' = "recovering" => \A p \in Objects : db'[p].mine => work'.objs[p].application # "PENDING"
  BY <1>1, <1>2 DEF Remembered
<1> QED
  BY <1>4, <1>5, <1>6 DEF Remembered, Recorded

\* No step forgets a write of the set that may be live.
LEMMA RememberedStep == ASSUME IInv, Steady, Remembered, Next PROVE Remembered'
<1> USE DEF worldVars
<1>0. TypeOK /\ work \in Sets
  BY DEF IInv, TypeInv, TypeOK
<1>1. ASSUME disk.status \notin Touched, UNCHANGED worldVars, pc' # "recovering" PROVE Remembered'
  <2>1. Pristine(disk)
    BY <1>1, Untouched
  <2>2. (\A o \in Objects : ~db[o].mine) /\ (\A w \in flight : w.late)
    BY <1>0, <2>1 DEF Pristine, Remembered, Recorded, TypeOK
  <2> QED
    BY <1>1, <2>2 DEF Remembered
<1>2. CASE Reproposed
  BY <1>1, <1>2 DEF Reproposed
<1>3. CASE Staging
  BY <1>1, <1>3, StagedType DEF Staging
<1>4. CASE Stored
  <2>1. \A o \in Objects : \A v : Recorded(o, v) /\ work.objs[o].application # "PENDING" =>
          disk'.objs[o].application # "PENDING" /\ v = disk'.objs[o].after
    BY <1>4 DEF Stored, Recorded, SameChanges, SameChange
  <2>2. \A o \in Objects : db[o].mine => Recorded(o, db[o].value) /\ work.objs[o].application # "PENDING"
    BY DEF Remembered, Steady, Recorded
  <2>3. \A w \in flight : ~w.late => /\ w.obj \in Objects /\ Recorded(w.obj, w.value)
                                     /\ work.objs[w.obj].application # "PENDING"
    BY <1>0 DEF Remembered, Steady, Recorded, TypeOK
  <2>4. db' = db /\ flight' = flight /\ pc' # "recovering"
    BY <1>4 DEF Stored
  <2> QED
    BY <2>1, <2>2, <2>3, <2>4 DEF Remembered, Recorded
<1>5. ASSUME UNCHANGED <<disk, db, flight>>, pc' = "recovering" => pc = "recovering" /\ work' = work
      PROVE  Remembered'
  BY <1>5 DEF Remembered, Recorded
<1>6. CASE Render \/ Abort \/ ChangeAuthorization \/ Throw \/ PreflightPass \/ Crash
  BY <1>5, <1>6 DEF Render, Abort, ChangeAuthorization, Throw, PreflightPass, Crash, Return
<1>7. ASSUME NEW stop \in BOOLEAN, ApplyBegin(stop) PROVE Remembered'
  BY <1>5, <1>7 DEF ApplyBegin, StartApply
<1>8. ASSUME NEW o \in Objects, CheckNext(o) \/ CheckStamp(o) \/ Readback(o) PROVE Remembered'
  BY <1>5, <1>8 DEF CheckNext, CheckStamp, Readback
<1>9. CASE RecoverBegin
  <2>1. work = disk /\ UNCHANGED <<disk, work, db>> /\ flight' = {[write EXCEPT !.late = TRUE] : write \in flight}
    BY <1>9 DEF RecoverBegin, IInv, Phase
  <2>2. \A w \in flight' : w.late
    BY <1>0, <2>1 DEF TypeOK
  <2> QED
    BY <2>1, <2>2 DEF Remembered, Recorded
<1>10. ASSUME NEW o \in Objects, RecoverObject(o) PROVE Remembered'
  <2> DEFINE c == Reconciled(work.objs[o], Live(o))
  <2>1. /\ pc = "recovering" /\ UNCHANGED <<disk, db, flight>> /\ work' = [work EXCEPT !.objs[o] = c]
    BY <1>10 DEF RecoverObject
  <2>2. c \in Changes /\ (c.application = "PENDING" => db[o].value # work.objs[o].after)
    BY <1>0, ReconciledType DEF Live, Sets, TypeOK
  <2> HIDE DEF c
  <2>3. \A p \in Objects : work'.objs[p] = IF p = o THEN c ELSE work.objs[p]
    BY <1>0, <2>1, <2>2, ApplicationType
  <2>4. work.objs[o].after = disk.objs[o].after
    BY DEF Steady, SameChanges, SameChange
  <2>5. \A p \in Objects : db[p].mine => work'.objs[p].application # "PENDING"
    BY <2>1, <2>2, <2>3, <2>4 DEF Remembered, Recorded
  <2> QED
    BY <2>1, <2>5 DEF Remembered, Recorded
<1>11. ASSUME NEW o \in Objects, SendWrite(o) PROVE Remembered'
  <2> DEFINE write == [obj |-> o, value |-> work.objs[o].after, base |-> work.objs[o].base, late |-> FALSE]
  <2>1. /\ pc = "send" /\ cur = {o} /\ pc' = "sent" /\ flight' = flight \cup {write}
        /\ UNCHANGED <<disk, db>>
    BY <1>11 DEF SendWrite
  <2>2. Recorded(o, work.objs[o].after)
    BY <2>1 DEF Steady, Recorded, IInv, Current
  <2> QED
    BY <2>1, <2>2 DEF Remembered, Recorded
<1>12. ASSUME NEW write \in flight, Commit(write) PROVE Remembered'
  <2>1. write.obj \in Objects /\ (~write.late) \in BOOLEAN
    BY <1>0 DEF TypeOK
  <2>2. ~write.late => pc # "recovering" /\ Recorded(write.obj, write.value)
    BY DEF Remembered
  <2>3. /\ db' = [db EXCEPT ![write.obj] = NewVersion(write.obj, write.value, ~write.late)]
        /\ flight' \subseteq flight /\ UNCHANGED <<disk, work>> /\ (pc' = "recovering" => pc = "recovering")
    BY <1>12 DEF Commit
  <2> QED
    BY <2>1, <2>2, <2>3, VersionStep
<1>13. ASSUME NEW write \in flight, Rollback(write) PROVE Remembered'
  <2>1. /\ UNCHANGED <<disk, work, db>> /\ flight' \subseteq flight /\ (pc' = "recovering" => pc = "recovering")
    BY <1>13 DEF Rollback
  <2> QED
    BY <2>1 DEF Remembered, Recorded
<1>14. ASSUME NEW o \in Objects, NEW value \in Contents, Edit(o, value) PROVE Remembered'
  <2>1. db' = [db EXCEPT ![o] = NewVersion(o, value, FALSE)] /\ UNCHANGED <<disk, work, pc, flight>>
    BY <1>14 DEF Edit
  <2> QED
    BY <2>1, VersionStep
<1> QED
  BY <1>2, <1>3, <1>4, <1>6, <1>7, <1>8, <1>9, <1>10, <1>11, <1>12, <1>13, <1>14, Effects DEF Unstored

\* The invariant of the stored record and the database holds initially.
LEMMA InitKept == Init => Kept
<1> SUFFICES ASSUME Init PROVE Kept
  OBVIOUS
<1>1. IInv
  BY InitIInv
<1>2. /\ work = disk /\ pc = "idle" /\ disk.status = "DRAFT" /\ flight = {}
      /\ \A o \in Objects : disk.objs[o].staged = FALSE /\ db[o].mine = FALSE
  BY DEF Init, NoChange
<1>3. Staged(disk) = {}
  BY <1>2 DEF Staged
<1>4. Rooted
  BY <1>3, FS_EmptySet DEF Rooted
<1> QED
  BY <1>1, <1>2, <1>4 DEF Kept, Steady, SameChanges, SameChange, Ready, Confirmed, ApprovalsAreCurrent, Remembered

\* It holds in every behaviour.
LEMMA KeptInductive == Spec => []Kept
<1>1. ASSUME Kept, UNCHANGED vars PROVE Kept'
  <2>1. UNCHANGED <<disk, work, pc, cur, db, flight>>
    BY <1>1 DEF vars, applyVars, worldVars
  <2>2. Steady' /\ Rooted' /\ Ready'
    BY <1>1, <2>1 DEF Kept, Steady, SameChanges, SameChange, Rooted, Staged, Ready
  <2>3. Confirmed'
    BY <1>1, <2>1 DEF Kept, Confirmed, PlanApproved, ApprovalsAreCurrent, ApprovalOf, Approved, Staged
  <2>4. Remembered'
    BY <1>1, <2>1 DEF Kept, Remembered, Recorded
  <2> QED
    BY <1>1, <2>2, <2>3, <2>4, StutterSafe DEF Kept
<1>2. ASSUME Kept, Next PROVE Kept'
  <2>1. IInv'
    BY <1>2, AgentSafe, DeveloperSafe, ServiceSafe, WorldSafe DEF Kept, Next
  <2> QED
    BY <1>2, <2>1, SteadyStep, RootedStep, ReadyStep, ConfirmedStep, RememberedStep DEF Kept
<1>3. Kept /\ [Next]_vars => Kept'
  BY <1>1, <1>2
<1> QED
  BY <1>3, InitKept, PTL DEF Spec

\* What can be applied was approved in its present form, on the present plan
\* and together with all it depends on.
THEOREM ApprovalsAreCurrentHolds == Spec => []ApprovalsAreCurrent
<1>1. Kept => ApprovalsAreCurrent
  BY DEF Kept, Confirmed
<1> QED
  BY <1>1, KeptInductive, PTL

\* The record never calls an object untouched while a version this set wrote
\* is the live one.
THEOREM NoForgottenWriteHolds == Spec => []NoForgottenWrite
<1>1. Kept => NoForgottenWrite
  BY DEF Kept, Remembered, Recorded, NoForgottenWrite
<1> QED
  BY <1>1, KeptInductive, PTL

\* A step other than a writer's call sends nothing.
LEMMA OnlySendWriteSends == ASSUME Next PROVE sent' = sent \/ \E o \in Objects : SendWrite(o)
<1> USE DEF historyVars
<1>1. CASE Agent
  BY <1>1 DEF Agent, RevisePlan, Stage
<1>2. CASE Developer
  BY <1>2
  DEF Developer, Render, Cancel, ValidateBegin, RecoverBegin, Abort, ReviewPlan, Review, ApproveAndApply, ApplyBegin,
      StartApply
<1>3. CASE Service
  BY <1>3
  DEF Service, ValidatePass, ValidateFail, PreflightPass, PreflightFail, SaveProgress, PauseBetweenWriters, Finish,
      Throw, Stop, RecoverEnd, CheckNext, CheckStamp, Readback, RecoverObject
<1>4. CASE World
  BY <1>4 DEF World, Crash, ChangeAuthorization, Commit, Rollback, Edit
<1> QED
  BY <1>1, <1>2, <1>3, <1>4 DEF Next

\* A dependent is sent only when the record says its prerequisites are
\* verified.
THEOREM PrerequisitesFirstHolds == Spec => PrerequisitesFirst
<1> DEFINE Step == \A w \in sent' \ sent : \A d \in disk.objs[w.obj].deps : disk.objs[d].application = "VERIFIED"
<1>1. ASSUME Kept, Next PROVE Step
  <2>1. CASE sent' = sent
    BY <2>1
  <2>2. ASSUME NEW o \in Objects, SendWrite(o) PROVE Step
    <3>1. pc = "send" /\ cur = {o} /\ \A w \in sent' \ sent : w.obj = o
      BY <2>2 DEF SendWrite
    <3>2. work = disk /\ \A d \in work.objs[o].deps : work.objs[d].application = "VERIFIED"
      BY <1>1, <3>1 DEF Kept, Steady, Ready
    <3> QED
      BY <3>1, <3>2
  <2> QED
    BY <1>1, <2>1, <2>2, OnlySendWriteSends
<1>2. Kept /\ [Next]_vars => [Step]_vars
  BY <1>1
<1> HIDE DEF Step
<1>3. Spec => [][Step]_vars
  BY <1>2, KeptInductive, PTL DEF Spec
<1> QED
  BY <1>3 DEF PrerequisitesFirst, Step
===============================================================================
