----------------------------- MODULE ReviewLineage -----------------------------
(***************************************************************************)
(* Change Sets that follow other Change Sets: prepareRemaining, reverse,   *)
(* redo, recover and markReversed of src/changeReview/service.ts.          *)
(*                                                                         *)
(* A set that stopped half way is continued by a fresh set that owns only  *)
(* the untouched objects and pins what was verified.  An applied set, with *)
(* the chain it continues, is undone by one combined inverse; an inverse   *)
(* that stopped half way is continued like any other set; undoing an       *)
(* inverse is the redo.  A completed inverse marks its sources REVERTED.   *)
(*                                                                         *)
(* The review of one set is ChangeReview's subject.  Here a set is         *)
(* validated and reviewed in one step, an application is split where its   *)
(* record is saved, and a writer's transaction is decided before anyone    *)
(* reconciles it.  Until it is applied, an agent may stage other contents, *)
(* dependencies or objects in any set, an inverse and a continuation too.  *)
(* The revision is left out: it changes in no set that another one names   *)
(* together with a revision.  All operations run under the store's lock.   *)
(***************************************************************************)
EXTENDS Integers, FiniteSets

CONSTANTS
  Objects,       \* native definitions
  Contents,      \* values a definition can have
  Absent,        \* the value of a definition that does not exist
  InitialValue,  \* InitialValue[o]: before the first set
  ProposedValue, \* ProposedValue[o]: what the first set proposes
  Depends,       \* Depends[o]: dependencies among the objects of the first set
  Deletable,     \* objects whose adapter has canDelete
  Fingerprints,  \* objects whose token is a fingerprint of their content
  FingerprintOf, \* FingerprintOf[v]: that fingerprint
  MaxSets,       \* bound on the number of Change Sets
  MaxDisturbances \* bound on others' saves and on the sets an agent stages again

ASSUME ValuesAssumption ==
  /\ Absent \in Contents
  /\ InitialValue \in [Objects -> Contents] /\ ProposedValue \in [Objects -> Contents]
  /\ \A o \in Objects : InitialValue[o] # ProposedValue[o]
ASSUME DependsAssumption == Depends \in [Objects -> SUBSET Objects]
ASSUME AdapterAssumption == {Deletable, Fingerprints} \subseteq SUBSET Objects
ASSUME FingerprintAssumption ==
  /\ FingerprintOf \in [Contents -> Nat]
  /\ \A v, w \in Contents : FingerprintOf[v] = FingerprintOf[w] => v = w
ASSUME BoundAssumption == MaxSets \in Nat \ {0} /\ MaxDisturbances \in Nat

VARIABLES
  sets,     \* sets[i]: the stored record of Change Set i
  db,       \* db[o]: the live value, its version and its token
  pc,       \* where the active operation is
  at,       \* the set it works on
  op,       \* apply or recover
  edits,    \* saves by others
  restaged  \* history: the sets an agent staged something in after they were made

vars == <<sets, db, pc, at, op, edits, restaged>>

Ids == 1 .. MaxSets
None == 0

-------------------------------------------------------------------------------
(***************************************************************************)
(* Records                                                                 *)
(***************************************************************************)
NoObject == [in |-> FALSE, before |-> Absent, after |-> Absent, base |-> 0, deps |-> {},
             approved |-> FALSE, application |-> "PENDING", verified |-> 0]
\* schema 3 and 4 records bind their forward lineage in "sources"; a continuation
\* maps the objects it took over.
NoSet == [status |-> "NONE", reverses |-> None, follows |-> None, pins |-> {}, mapped |-> {}, bound |-> FALSE,
          sources |-> {}, revertedBy |-> None, objs |-> [o \in Objects |-> NoObject]]

Used == {i \in Ids : sets[i].status # "NONE"}
FreshId == Cardinality(Used) + 1

Members(set) == {o \in Objects : set.objs[o].in}
Approved(set) == {o \in Members(set) : set.objs[o].approved}
InState(set, states) == {o \in Members(set) : set.objs[o].application \in states}

Token(o, value, version) ==
  IF value = Absent THEN 0 ELSE IF o \in Fingerprints THEN FingerprintOf[value] ELSE version
Live(o) == [value |-> db[o].value, token |-> db[o].token]
AtBaseline(c, o) == Live(o) = [value |-> c.before, token |-> c.base]

\* A verified object, as a prerequisite or a reversal source names it.
Pins(i) ==
  {[set |-> i, obj |-> o, value |-> sets[i].objs[o].after, token |-> sets[i].objs[o].verified] :
     o \in InState(sets[i], {"VERIFIED"})}
PinHolds(p) == Live(p.obj) = [value |-> p.value, token |-> p.token]

Orderable(deps, chosen) ==
  /\ \A o \in chosen : deps[o] \subseteq chosen
  /\ \E rank \in [chosen -> 1 .. Cardinality(chosen)] : \A o \in chosen : \A d \in deps[o] : rank[d] < rank[o]
Deps(set) == [o \in Objects |-> set.objs[o].deps]

\* The transitive dependencies of an object.
Above(set, o) ==
  {d \in Objects : \A R \in SUBSET Objects :
     set.objs[o].deps \subseteq R /\ (\A x \in R : set.objs[x].deps \subseteq R) => d \in R}
DependenciesHold(set, o) ==
  \A d \in Above(set, o) :
    /\ set.objs[d].application = "VERIFIED"
    /\ Live(d) = [value |-> set.objs[d].after, token |-> set.objs[d].verified]

\* What a reversal reverses: a schema 1 inverse is bound to its source alone.
Bindings(set) == IF set.bound THEN set.sources ELSE Pins(set.reverses)
SourceIds(set) == IF set.bound THEN {b.set : b \in set.sources} ELSE {set.reverses}

ContinuationIntact(set) ==
  LET source == sets[set.follows]
      remaining == {o \in Approved(source) : source.objs[o].application = "PENDING"}
  IN  set.follows # None =>
        /\ source.status = "PARTIALLY_APPLIED"
        /\ source.reverses = set.reverses
        /\ source.reverses # None => Bindings(source) = set.sources
        /\ set.pins = source.pins \cup Pins(set.follows)
        /\ set.mapped = remaining /\ remaining \subseteq Members(set)
        /\ \A p \in set.pins :
             /\ p.obj \notin Members(set)
             /\ sets[p.set].status \in {"PARTIALLY_APPLIED", "APPLIED"}
             /\ p \in Pins(p.set)
             /\ PinHolds(p)

\* A bound inverse and its pinned inverse steps cover the verified objects of
\* every source exactly, each back to the source's before-image.
ReversalIntact(i, set) ==
  LET pinned == {p.obj : p \in set.pins}
      Step(o) == IF o \in Members(set) THEN set.objs[o]
                 ELSE sets[(CHOOSE p \in set.pins : p.obj = o).set].objs[o]
  IN  set.bound =>
        /\ \A p \in set.pins : sets[p.set].reverses = set.reverses /\ p \in Pins(p.set)
        /\ set.reverses \in SourceIds(set)
        /\ Members(set) \cap pinned = {}
        /\ Members(set) \cup pinned = {b.obj : b \in set.sources}
        /\ \A s \in SourceIds(set) :
             /\ \/ sets[s].status \in {"APPLIED", "PARTIALLY_APPLIED"}
                \/ sets[s].status = "REVERTED" /\ sets[s].revertedBy = i
             /\ Pins(s) = {b \in set.sources : b.set = s}
        /\ \A b \in set.sources :
             LET c == Step(b.obj)
             IN  c.before = b.value /\ c.base = b.token /\ c.after = sets[b.set].objs[b.obj].before

\* checkPrerequisites
Intact(i, set) == ReversalIntact(i, set) /\ ContinuationIntact(set)

-------------------------------------------------------------------------------
\* One set was staged over all objects; nothing else happened yet.
Init ==
  /\ db = [o \in Objects |-> [value |-> InitialValue[o], version |-> 1, token |-> Token(o, InitialValue[o], 1)]]
  /\ sets = [i \in Ids |-> IF i # 1 THEN NoSet ELSE [NoSet EXCEPT
       !.status = "DRAFT",
       !.objs = [o \in Objects |-> [NoObject EXCEPT
          !.in = TRUE, !.before = InitialValue[o], !.base = db[o].token,
          !.after = ProposedValue[o], !.deps = Depends[o]]]]]
  /\ pc = "idle" /\ at = None /\ op = "none"
  /\ edits = 0 /\ restaged = {}

Undisturbed == edits + Cardinality(restaged) < MaxDisturbances

Put(i, set) == sets' = [sets EXCEPT ![i] = set]
Idle == pc = "idle" /\ UNCHANGED <<pc, at, op>>
Enter(i, operation, place) == pc' = place /\ at' = i /\ op' = operation
Goto(place) == pc' = place /\ UNCHANGED <<at, op>>
Return == pc' = "idle" /\ at' = None /\ op' = "none"

\* editable
Revisable(set) ==
  /\ set.status \in {"DRAFT", "APPROVED", "CONFLICTED", "FAILED"}
  /\ InState(set, {"PENDING"}) = Members(set)

\* invalidate: back to DRAFT, without any approval.
Revised(set) ==
  [set EXCEPT !.status = "DRAFT", !.objs = [o \in Objects |-> [set.objs[o] EXCEPT !.approved = FALSE]]]

\* stage: the lineage is checked before the change and not after it.
RestagedSet(set, o, value, deps) ==
  [Revised(set) EXCEPT !.objs[o] = [NoObject EXCEPT
     !.in = TRUE, !.before = db[o].value, !.base = db[o].token, !.after = value, !.deps = deps]]

Restage(i, o, value, deps) ==
  LET set == sets[i]
      new == RestagedSet(set, o, value, deps)
  IN  /\ Idle /\ Revisable(set) /\ Intact(i, set)
      /\ o \notin {p.obj : p \in set.pins}
      /\ deps \subseteq Members(set)
      /\ o \in Members(set) =>
           /\ AtBaseline(set.objs[o], o)
           /\ ~(set.objs[o].after = value /\ set.objs[o].deps = deps)
      /\ value = Absent => o \in Deletable
      /\ value # db[o].value
      /\ Orderable(Deps(new), Members(new))
      /\ Undisturbed
      /\ restaged' = restaged \cup {i}
      /\ Put(i, new)
      /\ UNCHANGED <<db, edits>>

\* revisePlan, or a rejected plan.
Replan(i) ==
  /\ Idle /\ Revisable(sets[i])
  /\ Put(i, Revised(sets[i]))
  /\ UNCHANGED <<db, edits, restaged>>

\* validate and review: everything is at its baseline, and what is approved
\* has its dependencies approved.
Approve(i, ids) ==
  LET set == sets[i]
  IN  /\ Idle
      /\ set.status \in {"DRAFT", "APPROVED", "CONFLICTED", "FAILED"}
      /\ Intact(i, set)
      /\ \A o \in Members(set) : AtBaseline(set.objs[o], o)
      /\ ids # {} /\ ids \subseteq Members(set) /\ Orderable(Deps(set), ids)
      /\ Put(i, [set EXCEPT !.status = "APPROVED",
                   !.objs = [o \in Objects |-> [@[o] EXCEPT !.approved = o \in ids]]])
      /\ UNCHANGED <<db, edits, restaged>>

Cancel(i) ==
  /\ Idle
  /\ sets[i].status \in {"DRAFT", "APPROVED", "CONFLICTED"}
  /\ Put(i, [sets[i] EXCEPT !.status = "CANCELLED"])
  /\ UNCHANGED <<db, edits, restaged>>

-------------------------------------------------------------------------------
(***************************************************************************)
(* applyLocked                                                             *)
(***************************************************************************)
CompleteSelection(set) == Approved(set) # {} /\ (set.reverses # None => Approved(set) = Members(set))

\* The preflight passed and the checkpoint was saved.
ApplyBegin(i) ==
  LET set == sets[i]
  IN  /\ pc = "idle" /\ set.status = "APPROVED" /\ CompleteSelection(set)
      /\ Intact(i, set)
      /\ \A o \in Approved(set) : AtBaseline(set.objs[o], o)
      /\ Put(i, [set EXCEPT !.status = "APPLYING"])
      /\ Enter(i, "apply", "writing")
      /\ UNCHANGED <<db, edits, restaged>>

\* Drift, a moved environment or policy, or a broken lineage.
ApplyRefused(i) ==
  LET set == sets[i]
  IN  /\ Idle /\ set.status = "APPROVED" /\ CompleteSelection(set)
      /\ Put(i, [set EXCEPT !.status = "CONFLICTED"])
      /\ UNCHANGED <<db, edits, restaged>>

Unwritten(set) == {o \in Approved(set) : set.objs[o].application = "PENDING"}
AtWriter == {o \in Objects : at # None /\ sets[at].objs[o].application = "APPLYING"}

StartWriter(o) ==
  LET set == sets[at]
  IN  /\ pc = "writing" /\ Intact(at, set)
      /\ o \in Unwritten(set) /\ AtBaseline(set.objs[o], o) /\ DependenciesHold(set, o)
      /\ Put(at, [set EXCEPT !.objs[o].application = "APPLYING"])
      /\ Goto("writer")
      /\ UNCHANGED <<db, edits, restaged>>

\* The object moves on; others' saves and the writer's commit alike.
Stored(o, value) ==
  db' = [db EXCEPT ![o] = [value |-> value, version |-> @.version + 1, token |-> Token(o, value, @.version + 1)]]

\* The writer's transaction, which compares the baseline once more.
Written(o) ==
  LET c == sets[at].objs[o]
  IN  /\ AtBaseline(c, o)
      /\ Stored(o, c.after)
NotWritten == UNCHANGED db

WriterAnswers(o) ==
  /\ pc = "writer" /\ o \in AtWriter
  /\ Written(o)
  /\ Put(at, [sets[at] EXCEPT !.objs[o].application = "VERIFIED", !.objs[o].verified = db'[o].token])
  /\ Goto("writing")
  /\ UNCHANGED <<edits, restaged>>

\* What the catch block leaves behind.
Stopped(set) ==
  LET objs == [o \in Objects |-> IF set.objs[o].application = "APPLYING"
                                   THEN [set.objs[o] EXCEPT !.application = "UNCERTAIN"] ELSE set.objs[o]]
      touched == \E o \in Objects : objs[o].application \in {"VERIFIED", "UNCERTAIN"}
  IN  [set EXCEPT !.objs = objs, !.status = IF touched THEN "PARTIALLY_APPLIED" ELSE "FAILED"]

\* The writer's answer is a refusal, is lost, or the readback differs.
WriterFails(o) ==
  /\ pc = "writer" /\ o \in AtWriter
  /\ Written(o) \/ NotWritten
  /\ Put(at, Stopped(sets[at]))
  /\ Return
  /\ UNCHANGED <<edits, restaged>>

\* Stop after the first writer, or an abort or a failed check before the next.
StopWriting ==
  /\ pc = "writing"
  /\ Put(at, Stopped(sets[at]))
  /\ Return
  /\ UNCHANGED <<db, edits, restaged>>

Finish ==
  LET set == sets[at]
  IN  /\ pc = "writing" /\ Unwritten(set) = {} /\ Intact(at, set)
      /\ \A o \in Approved(set) : DependenciesHold(set, o)
      /\ Put(at, [set EXCEPT !.status = "APPLIED"])
      /\ IF set.reverses = None THEN Return ELSE Goto("publish")
      /\ UNCHANGED <<db, edits, restaged>>

-------------------------------------------------------------------------------
(***************************************************************************)
(* markReversed: one more check of the lineage, then one save per source.  *)
(***************************************************************************)
BeginPublication ==
  LET set == sets[at]
  IN  /\ pc = "publish"
      /\ \A o \in Members(set) : set.objs[o].application = "VERIFIED"
      /\ Intact(at, set)
      /\ Goto("mark")
      /\ UNCHANGED <<sets, db, edits, restaged>>

Unmarked(set) == {s \in SourceIds(set) : sets[s].status \in {"APPLIED", "PARTIALLY_APPLIED"}}

Mark(s) ==
  /\ pc = "mark" /\ s \in Unmarked(sets[at])
  /\ Put(s, [sets[s] EXCEPT !.status = "REVERTED", !.revertedBy = at])
  /\ UNCHANGED <<db, pc, at, op, edits, restaged>>

EndPublication ==
  /\ pc = "mark" /\ Unmarked(sets[at]) = {}
  /\ Return
  /\ UNCHANGED <<sets, db, edits, restaged>>

\* applyLocked catches what is thrown here, recover does not.
PublicationFails ==
  /\ pc \in {"publish", "mark"}
  /\ IF op = "apply" THEN Put(at, Stopped(sets[at])) ELSE UNCHANGED sets
  /\ Return
  /\ UNCHANGED <<db, edits, restaged>>

-------------------------------------------------------------------------------
\* The process ends.  A transaction it had started is decided before anybody
\* takes the lock again.
Crash ==
  /\ pc # "idle"
  /\ \/ NotWritten
     \/ pc = "writer" /\ \E o \in AtWriter : Written(o)
  /\ Return
  /\ UNCHANGED <<sets, edits, restaged>>

\* Faulty: whatever was handed to its writer counts as done.
ReconciledTrustsWriter(c, o) ==
  IF c.application = "PENDING" THEN c ELSE [c EXCEPT !.application = "VERIFIED", !.verified = db[o].token]

\* Faulty: untouched objects are compared with the database as well.
ReconciledReadsPending(c, o) ==
  IF c.in /\ db[o].value = c.after THEN [c EXCEPT !.application = "VERIFIED", !.verified = db[o].token]
  ELSE IF c.application = "PENDING" \/ (c.application # "VERIFIED" /\ AtBaseline(c, o))
    THEN [c EXCEPT !.application = "PENDING", !.verified = 0]
  ELSE [c EXCEPT !.application = "UNCERTAIN"]

Reconciled(c, o) ==
  IF c.application = "PENDING" THEN c
  ELSE IF db[o].value = c.after
    THEN [c EXCEPT !.application = "VERIFIED", !.verified = db[o].token]
  ELSE IF c.application # "VERIFIED" /\ AtBaseline(c, o)
    THEN [c EXCEPT !.application = "PENDING", !.verified = 0]
  ELSE [c EXCEPT !.application = "UNCERTAIN"]

Complete(set) ==
  /\ Approved(set) # {} /\ Approved(set) \subseteq InState(set, {"VERIFIED"})
  /\ set.reverses # None => Members(set) = InState(set, {"VERIFIED"})

Recover(i) ==
  LET read == [sets[i] EXCEPT !.objs = [o \in Objects |-> Reconciled(@[o], o)]]
  IN  /\ pc = "idle" /\ sets[i].status \in {"APPLYING", "PARTIALLY_APPLIED"}
      /\ Intact(i, sets[i])
      /\ Put(i, [read EXCEPT !.status = IF Complete(read) THEN "APPLIED" ELSE "PARTIALLY_APPLIED"])
      /\ IF Complete(read) /\ read.reverses # None THEN Enter(i, "recover", "publish")
         ELSE UNCHANGED <<pc, at, op>>
      /\ UNCHANGED <<db, edits, restaged>>

-------------------------------------------------------------------------------
(***************************************************************************)
(* prepareRemaining                                                        *)
(***************************************************************************)
\* Faulty: a follow-up that failed is not looked for.
FollowUpsUnfailed(i) == {j \in Used : sets[j].follows = i /\ sets[j].status \notin {"CANCELLED", "CONFLICTED", "FAILED"}}

FollowUps(i) == {j \in Used : sets[j].follows = i /\ sets[j].status # "CANCELLED"}

Continuation(i) ==
  LET set == sets[i]
      remaining == Unwritten(set)
  IN  [NoSet EXCEPT
         !.status = "DRAFT", !.follows = i, !.pins = set.pins \cup Pins(i), !.mapped = remaining,
         !.reverses = set.reverses, !.bound = set.reverses # None,
         !.sources = IF set.reverses = None THEN {} ELSE Bindings(set),
         !.objs = [o \in Objects |->
            IF o \in remaining THEN [NoObject EXCEPT !.in = TRUE, !.before = set.objs[o].before,
                 !.base = set.objs[o].base, !.after = set.objs[o].after, !.deps = set.objs[o].deps \cap remaining]
            ELSE NoObject]]

\* A second call returns the follow-up that is there.
PrepareRemaining(i) ==
  LET set == sets[i]
      remaining == Unwritten(set)
  IN  /\ Idle /\ Cardinality(Used) < MaxSets
      /\ set.status = "PARTIALLY_APPLIED"
      /\ set.reverses # None => Approved(set) = Members(set)
      /\ InState(set, {"APPLYING", "UNCERTAIN"}) = {}
      /\ remaining # {}
      /\ FollowUps(i) = {}
      /\ Intact(i, set)
      /\ \A p \in Pins(i) : PinHolds(p)
      /\ \A o \in remaining :
           /\ AtBaseline(set.objs[o], o)
           /\ set.objs[o].after = Absent => o \in Deletable
           /\ set.objs[o].deps \subseteq remaining \cup InState(set, {"VERIFIED"})
      /\ Intact(FreshId, Continuation(i))
      /\ Put(FreshId, Continuation(i))
      /\ UNCHANGED <<db, edits, restaged>>

-------------------------------------------------------------------------------
(***************************************************************************)
(* reverse and redo                                                        *)
(***************************************************************************)
\* reversalObjects: what the chain that ends with set i verified.
Achieved(i) == sets[i].pins \cup Pins(i)
AchievedObjects(i) == {p.obj : p \in Achieved(i)}

\* Faulty: only the dependencies inside one set are turned round.
ForwardDependenciesOwn(p) == sets[p.set].objs[p.obj].deps
ForwardDependencies(p) == sets[p.set].objs[p.obj].deps \cup {q.obj : q \in sets[p.set].pins}

InverseSet(i) ==
  LET step(o) == CHOOSE p \in Achieved(i) : p.obj = o
      bound == sets[i].follows # None
  IN  [NoSet EXCEPT
         !.status = "DRAFT", !.reverses = i, !.bound = bound,
         !.sources = IF bound THEN Achieved(i) ELSE {},
         !.objs = [o \in Objects |->
            IF o \in AchievedObjects(i)
              THEN [NoObject EXCEPT !.in = TRUE, !.before = db[o].value, !.base = db[o].token,
                      !.after = sets[step(o).set].objs[o].before,
                      !.deps = {q.obj : q \in {q \in Achieved(i) : o \in ForwardDependencies(q)}}]
            ELSE NoObject]]

\* redo is the reversal of an applied inverse.
Reverse(i) ==
  /\ Idle /\ Cardinality(Used) < MaxSets
  /\ sets[i].status = "APPLIED"
  /\ sets[i].follows # None => Intact(i, sets[i])
  /\ Cardinality(Achieved(i)) = Cardinality(AchievedObjects(i))
  /\ \A p \in Achieved(i) :
       /\ Approved(sets[p.set]) \subseteq AchievedObjects(i)
       /\ PinHolds(p)
       /\ sets[p.set].objs[p.obj].before = Absent => p.obj \in Deletable
  /\ Orderable(Deps(InverseSet(i)), AchievedObjects(i))
  /\ ReversalIntact(FreshId, InverseSet(i))
  /\ Put(FreshId, InverseSet(i))
  /\ UNCHANGED <<db, edits, restaged>>

-------------------------------------------------------------------------------
\* Another developer or tool saves the same definition.
Edit(o, v) ==
  /\ Undisturbed /\ v # db[o].value
  /\ Stored(o, v)
  /\ edits' = edits + 1
  /\ UNCHANGED <<sets, pc, at, op, restaged>>

Plan(i) ==
  \/ \E ids \in SUBSET Objects : Approve(i, ids)
  \/ \E o \in Objects, value \in Contents, deps \in SUBSET Objects : Restage(i, o, value, deps)
  \/ Replan(i) \/ Cancel(i) \/ PrepareRemaining(i) \/ Reverse(i)
Apply(i) == ApplyBegin(i) \/ ApplyRefused(i)
Write(o) == StartWriter(o) \/ WriterAnswers(o) \/ WriterFails(o)
Publish == BeginPublication \/ (\E s \in Ids : Mark(s)) \/ EndPublication \/ PublicationFails

Next ==
  \/ \E i \in Used : Plan(i) \/ Apply(i) \/ Recover(i)
  \/ \E o \in Objects : Write(o) \/ (\E v \in Contents : Edit(o, v))
  \/ StopWriting \/ Finish \/ Publish \/ Crash

Spec == Init /\ [][Next]_vars

-------------------------------------------------------------------------------
(***************************************************************************)
(* Properties                                                              *)
(***************************************************************************)
Statuses == {"NONE", "DRAFT", "APPROVED", "APPLYING", "APPLIED", "CANCELLED", "CONFLICTED",
             "FAILED", "PARTIALLY_APPLIED", "REVERTED"}
PinType == [set : Ids, obj : Objects, value : Contents, token : Nat]
ObjectType ==
  [in : BOOLEAN, before : Contents, after : Contents, base : Nat, deps : SUBSET Objects, approved : BOOLEAN,
   application : {"PENDING", "APPLYING", "VERIFIED", "UNCERTAIN"}, verified : Nat]

\* Every variable has its type, and the lock is held exactly while an
\* application or a reconciliation is under way.
TypeOK ==
  /\ \A i \in Ids :
       /\ sets[i].status \in Statuses
       /\ {sets[i].reverses, sets[i].follows, sets[i].revertedBy} \subseteq Ids \cup {None}
       /\ sets[i].pins \cup sets[i].sources \subseteq PinType /\ sets[i].mapped \subseteq Objects
       /\ sets[i].objs \in [Objects -> ObjectType]
  /\ db \in [Objects -> [value : Contents, version : Nat, token : Nat]]
  /\ pc \in {"idle", "writing", "writer", "publish", "mark"}
  /\ (pc = "idle") = (at = None) /\ (pc = "idle") = (op = "none")
  /\ pc \in {"writing", "writer"} => sets[at].status = "APPLYING"
  /\ edits \in Nat /\ restaged \subseteq Ids

Continuing(i) == {j \in Used : sets[j].follows = i /\ sets[j].status # "CANCELLED"}

\* A partial application is continued by one set at a time, whatever was
\* cancelled, paused, undone or reconciled in between: two of them would hand
\* the same object to its writer twice.
OneFollowUp == \A i \in Used : Cardinality(Continuing(i)) <= 1

\* Unless others interfere or an agent stages something else, a dependent is
\* never in the database without what it depends on: not half way through a
\* chain, its undo, or its redo, however these were interrupted and continued.
PrerequisitesInPlace ==
  edits = 0 /\ restaged = {} =>
    \A o \in Objects : db[o].value = ProposedValue[o] =>
      \A d \in Depends[o] : db[d].value = ProposedValue[d]

\* When a set becomes REVERTED, every object it verified is back at what the
\* set had found, also if the undo took several sets, whatever an agent staged
\* in the sets of that chain; unless others interfered, or the inverse is of one
\* set only, which nothing checks against that set, and an agent staged something
\* else in it.
Restores(s) == \A o \in InState(sets[s], {"VERIFIED"}) : db'[o].value = sets[s].objs[o].before
Reverts(s) == sets[s].status # "REVERTED" /\ sets'[s].status = "REVERTED"
UndoRestores ==
  [][edits' = 0 => \A s \in Ids :
       Reverts(s) => Restores(s) \/ (~sets[at].bound /\ at \in restaged)]_vars

\* Without that last exception the code breaks it.
OnlyUndoReverts == [][edits' = 0 => \A s \in Ids : Reverts(s) => Restores(s)]_vars

\* Once somebody continues it, a partial outcome is never relabelled APPLIED:
\* not because the continuation succeeded, nor by a reconciliation after it.
PartialOutcomeRetained ==
  [][\A i \in Ids : Continuing(i) # {} => sets'[i].status \in {"PARTIALLY_APPLIED", "REVERTED"}]_vars

\* While a source of an applied inverse is not marked REVERTED, recover is
\* there to finish the publication of the history.
PublicationCanFinish ==
  \A i \in Used :
    (pc = "idle" /\ edits = 0 /\ sets[i].status = "APPLIED" /\ sets[i].reverses # None /\ Unmarked(sets[i]) # {})
      => ENABLED Recover(i)
===============================================================================
