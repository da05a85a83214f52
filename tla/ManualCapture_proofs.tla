------------------------- MODULE ManualCapture_proofs -------------------------
(***************************************************************************)
(* Proofs about the history of a developer's own saves, for any number of  *)
(* saves, contents and versions.                                           *)
(***************************************************************************)
EXTENDS ManualCapture, TLAPS

-------------------------------------------------------------------------------
(***************************************************************************)
(* The inductive invariant                                                 *)
(***************************************************************************)
Places == {"idle"} \cup Working \cup Ended

\* Where a call is before its write, and where it owns the lock.
Before == {"idle", "enter", "baseline", "start", "write", "plain"}
Inside == {"baseline", "start", "write", "failed", "readback", "verify", "unread"}

\* A verdict is told of a known result only.
Backed(set) == set.app \in {"VERIFIED", "PENDING"} => set.known

\* What a call has told, and what its record says so far.
CallOk(s) ==
  /\ pc[s] \in Inside => lock = s
  /\ pc[s] \in Before => outcome[s] = "none" /\ runs[s] = 0
  /\ pc[s] \in {"readback", "verify", "unread"} => outcome[s] = "saved"
  /\ pc[s] = "failed" => outcome[s] = "failed"
  /\ pc[s] = "leave" => outcome[s] # "none"
  /\ mem[s].known => outcome[s] = "saved" /\ pc[s] \in {"verify", "unread", "leave"}
  /\ disk[s].known => outcome[s] = "saved"
  /\ Backed(mem[s]) /\ Backed(disk[s])
  /\ s \in late => outcome[s] # "saved" /\ pc[s] \in {"failed", "leave", "error", "dead"}

\* The record of this save will never claim a result.
Hopeless(s) == pc[s] \notin (Before \ {"plain"}) \cup {"readback"} /\ ~mem[s].known /\ ~disk[s].known

\* The result a record claims is its own or of such a save, and so is what a
\* call is about to read back.
Own(s, set) == set.known /\ set.after.by \in Saves \ {s} => Hopeless(set.after.by)
ResultOk(s) ==
  /\ Own(s, mem[s]) /\ Own(s, disk[s])
  /\ pc[s] = "readback" /\ live.by \in Saves \ {s} => Hopeless(live.by)

\* The verdict that recover is about to store is of the record as it is.
FixOk ==
  /\ fix \in [of : Saves \cup {Nobody}, set : Records]
  /\ fix # NoFix =>
       /\ fix.of \in Saves
       /\ fix.set.known = disk[fix.of].known /\ fix.set.after = disk[fix.of].after
       /\ Backed(fix.set)

IInv ==
  /\ TypeOK
  /\ FixOk
  /\ \A s \in Saves : CallOk(s) /\ ResultOk(s)

-------------------------------------------------------------------------------
(***************************************************************************)
(* A step of one call                                                      *)
(***************************************************************************)
Outcomes == {"none", "saved", "failed"}

\* It moves nothing of the other calls, enters a free lock or leaves its own,
\* and stores its record only inside the lock.
OwnStep(s) ==
  /\ pc' \in [Saves -> Places] /\ mem' \in [Saves -> Records] /\ disk' \in [Saves -> Records]
  /\ runs' \in [Saves -> 0 .. 1] /\ outcome' \in [Saves -> Outcomes] /\ late' \subseteq Saves
  /\ live' \in Versions /\ versions' \in 0 .. MaxVersions
  /\ \A t \in Saves \ {s} :
       /\ pc'[t] = pc[t] /\ mem'[t] = mem[t] /\ disk'[t] = disk[t]
       /\ runs'[t] = runs[t] /\ outcome'[t] = outcome[t] /\ (t \in late' <=> t \in late)
  /\ lock' = lock \/ (lock' = s /\ LockIsFree) \/ (lock = s /\ lock' = Nobody)
  /\ disk'[s] = disk[s] \/ lock = s
  /\ UNCHANGED fix

\* A version that appears is of a call inside the lock, or of one whose record
\* will claim nothing, or of another tool.
LiveStep(s) ==
  live' = live \/ (live'.by = s /\ (lock = s \/ Hopeless(s)')) \/ live'.by \notin Saves

LEMMA InsideOne ==
  ASSUME IInv, NEW s \in Saves, pc[s] \in Inside
  PROVE  ~LockIsFree /\ lock = s
<1>1. lock = s
  BY DEF IInv, CallOk
<1>2. pc[s] # "dead"
  BY DEF Inside
<1> QED
  BY <1>1, <1>2, NamesAssumption DEF LockIsFree

\* The others are as they were.
LEMMA OtherCalls ==
  ASSUME IInv, NEW s \in Saves, OwnStep(s), LiveStep(s), Hopeless(s) => Hopeless(s)',
         NEW t \in Saves \ {s}
  PROVE  CallOk(t)' /\ ResultOk(t)'
<1>1. /\ pc'[t] = pc[t] /\ mem'[t] = mem[t] /\ disk'[t] = disk[t]
      /\ runs'[t] = runs[t] /\ outcome'[t] = outcome[t] /\ (t \in late' <=> t \in late)
  BY DEF OwnStep
<1>2. \A a \in Saves : Hopeless(a) => Hopeless(a)'
  BY DEF OwnStep, Hopeless
<1>3. pc[t] \in Inside => lock = t /\ lock' = t
  BY InsideOne DEF OwnStep
<1>4. CallOk(t)'
  BY <1>1, <1>3 DEF IInv, CallOk
<1>5. pc[t] = "readback" /\ live'.by \in Saves \ {t} => Hopeless(live.by)'
  <2> SUFFICES ASSUME pc[t] = "readback", live'.by \in Saves \ {t} PROVE Hopeless(live.by)'
    OBVIOUS
  <2>1. lock = t
    BY <1>3 DEF Inside
  <2>2. CASE live' = live
    <3>1. Hopeless(live.by)
      BY <2>2 DEF IInv, ResultOk
    <3> QED
      BY <1>2, <2>2, <3>1 DEF Hopeless
  <2>3. CASE live' # live
    BY <2>1, <2>3 DEF LiveStep, Hopeless
  <2> QED
    BY <2>2, <2>3
<1>6. ResultOk(t)'
  <2>1. ResultOk(t)
    BY DEF IInv
  <2> QED
    BY <1>1, <1>2, <1>5, <2>1 DEF ResultOk, Own, Hopeless
<1> QED
  BY <1>4, <1>6

\* So only the call itself has to be looked at.
LEMMA OwnInductive ==
  ASSUME IInv, NEW s \in Saves, OwnStep(s), LiveStep(s), Hopeless(s) => Hopeless(s)',
         CallOk(s)', ResultOk(s)'
  PROVE  IInv'
<1>1. \A t \in Saves : CallOk(t)' /\ ResultOk(t)'
  BY OtherCalls
<1>2. fix # NoFix => lock = Reconciler /\ disk'[s] = disk[s] /\ lock' = lock
  <2> SUFFICES ASSUME fix # NoFix PROVE lock = Reconciler /\ disk'[s] = disk[s] /\ lock' = lock
    OBVIOUS
  <2>1. lock = Reconciler
    BY DEF IInv, TypeOK
  <2> QED
    BY <2>1, NamesAssumption DEF OwnStep, LockIsFree
<1>3. lock' \in Saves \cup {Reconciler, Nobody} /\ ((fix # NoFix) = (lock' = Reconciler))
  <2>1. lock \in Saves \cup {Reconciler, Nobody} /\ ((fix # NoFix) = (lock = Reconciler))
    BY DEF IInv, TypeOK
  <2> QED
    BY <1>2, <2>1, NamesAssumption DEF OwnStep
<1>4. FixOk'
  <2>1. FixOk /\ fix' = fix
    BY DEF IInv, OwnStep
  <2>2. fix # NoFix => disk'[fix.of] = disk[fix.of]
    BY <1>2, <2>1 DEF FixOk, OwnStep
  <2> QED
    BY <2>1, <2>2 DEF FixOk
<1>5. TypeOK'
  BY <1>3 DEF IInv, TypeOK, OwnStep, Places, Outcomes
<1> QED
  BY <1>1, <1>4, <1>5 DEF IInv

-------------------------------------------------------------------------------
(***************************************************************************)
(* Records                                                                 *)
(***************************************************************************)
LEMMA NoRecordType ==
  /\ Unknown \in Versions /\ NoRecord \in Records
  /\ ~NoRecord.known /\ Backed(NoRecord)
  BY ContentsAssumption, BoundAssumption DEF Unknown, Versions, NoRecord, Records, Backed

LEMMA UncertainType ==
  ASSUME NEW set \in Records
  PROVE  LET new == [set EXCEPT !.status = "PARTIALLY_APPLIED", !.app = "UNCERTAIN"]
         IN  new \in Records /\ new.known = set.known /\ new.after = set.after /\ Backed(new)
  BY DEF Records, Backed

LEMMA VerifiedType ==
  ASSUME NEW set \in Records, NEW v \in Versions
  PROVE  LET new == [set EXCEPT !.status = "APPLIED", !.app = "VERIFIED", !.known = TRUE, !.after = v]
         IN  new \in Records /\ new.known /\ new.after = v /\ Backed(new)
  BY DEF Records, Backed

\* Reconciling a record keeps what it knows, and tells no verdict without it.
LEMMA ReconciledType ==
  ASSUME NEW set \in Records, Backed(set)
  PROVE  /\ Reconciled(set) \in Records /\ Reconciled(set).known = set.known
         /\ Reconciled(set).after = set.after /\ Backed(Reconciled(set))
<1> DEFINE verdict ==
      IF set.app \notin {"APPLYING", "UNCERTAIN", "VERIFIED"} THEN set.app
      ELSE IF ~set.known THEN "UNCERTAIN"
      ELSE IF live.value = set.after.value THEN "VERIFIED"
      ELSE IF set.app # "VERIFIED" /\ live.value = set.before.value
              /\ live.token = set.before.token THEN "PENDING"
      ELSE "UNCERTAIN"
<1>1. Reconciled(set) = [set EXCEPT !.status = "PARTIALLY_APPLIED", !.app = verdict]
  BY DEF Reconciled
<1>2. verdict \in {"none", "APPLYING", "VERIFIED", "UNCERTAIN", "PENDING"}
  BY DEF Records
<1>3. verdict \in {"VERIFIED", "PENDING"} => set.known
  BY DEF Backed
<1> HIDE DEF verdict
<1> QED
  BY <1>1, <1>2, <1>3 DEF Records, Backed

-------------------------------------------------------------------------------
(***************************************************************************)
(* The actions of a call                                                   *)
(***************************************************************************)
LEMMA CallInductive ==
  ASSUME IInv, NEW s \in Saves, Call(s)
  PROVE  IInv'
<1>1. OwnStep(s) /\ pc[s] = "idle" /\ pc'[s] = "enter"
  BY DEF Call, Goto, OwnStep, IInv, TypeOK, Places, Working, Outcomes, world, told
<1>2. LiveStep(s) /\ CallOk(s)' /\ ResultOk(s)' /\ (Hopeless(s) => Hopeless(s)')
  BY <1>1 DEF Call, LiveStep, IInv, CallOk, ResultOk, Own, Hopeless, world, told, Before, Inside
<1> QED
  BY <1>1, <1>2, OwnInductive

LEMMA VersionedType ==
  ASSUME IInv, NEW v \in Contents, NEW a \in Saves \cup {Foreign}, Versioned(v, a)
  PROVE  live' \in Versions /\ versions' \in 0 .. MaxVersions /\ live'.by = a
  BY BoundAssumption DEF IInv, TypeOK, Versioned, Versions

LEMMA EnterInductive ==
  ASSUME IInv, NEW s \in Saves, Enter(s)
  PROVE  IInv'
<1>1. OwnStep(s) /\ pc[s] = "enter" /\ (pc'[s] = "plain" \/ (pc'[s] = "baseline" /\ lock' = s))
  BY DEF Enter, Goto, OwnStep, IInv, TypeOK, Places, Working, Outcomes, world, told
<1>2. LiveStep(s) /\ CallOk(s)' /\ ResultOk(s)' /\ (Hopeless(s) => Hopeless(s)')
  BY <1>1 DEF Enter, LiveStep, IInv, CallOk, ResultOk, Own, Hopeless, world, told, Before, Inside
<1> QED
  BY <1>1, <1>2, OwnInductive

LEMMA ReadBaselineInductive ==
  ASSUME IInv, NEW s \in Saves, ReadBaseline(s)
  PROVE  IInv'
<1> DEFINE new == [status |-> "APPLYING", app |-> "APPLYING", known |-> FALSE,
                   before |-> live, after |-> Unknown]
<1>1. new \in Records /\ ~new.known /\ Backed(new)
  BY NoRecordType DEF IInv, TypeOK, Records, Backed
<1>2. \/ Note(s, new) /\ Goto(s, "start")
      \/ Goto(s, "plain") /\ UNCHANGED mem
  BY DEF ReadBaseline
<1> HIDE DEF new
<1>3. /\ OwnStep(s) /\ pc[s] = "baseline" /\ pc'[s] \in {"start", "plain"} /\ lock' = lock
      /\ mem'[s] = mem[s] \/ mem'[s] = new
  BY <1>1, <1>2 DEF ReadBaseline, Goto, Note, OwnStep, IInv, TypeOK, Places, Working, Outcomes, world, told
<1>4. LiveStep(s) /\ CallOk(s)' /\ ResultOk(s)' /\ (Hopeless(s) => Hopeless(s)')
  BY <1>1, <1>3 DEF ReadBaseline, LiveStep, IInv, CallOk, ResultOk, Own, Hopeless, world, told, Before, Inside
<1> QED
  BY <1>3, <1>4, OwnInductive

LEMMA SaveStartedInductive ==
  ASSUME IInv, NEW s \in Saves, SaveStarted(s)
  PROVE  IInv'
<1>1. lock = s
  BY DEF SaveStarted, IInv, CallOk, Inside
<1>2. /\ OwnStep(s) /\ pc[s] = "start" /\ pc'[s] \in {"write", "plain"} /\ lock' = lock
      /\ disk'[s] = disk[s] \/ disk'[s] = mem[s]
  BY <1>1 DEF SaveStarted, Goto, Stored, MaybeStored, OwnStep, IInv, TypeOK, Places, Working, Outcomes, world, told
<1>3. LiveStep(s) /\ CallOk(s)' /\ ResultOk(s)' /\ (Hopeless(s) => Hopeless(s)')
  BY <1>2 DEF SaveStarted, LiveStep, IInv, CallOk, ResultOk, Own, Hopeless, world, told, Before, Inside
<1> QED
  BY <1>2, <1>3, OwnInductive

\* A write inside the lock is followed by its readback; after any other its
\* record will never claim a result.
LEMMA WriteInductive ==
  ASSUME IInv, NEW s \in Saves, Write(s)
  PROVE  IInv'
<1>1. /\ pc[s] \in {"write", "plain"} /\ outcome[s] = "none" /\ runs[s] = 0
      /\ ~mem[s].known /\ ~disk[s].known /\ (pc[s] = "write" => lock = s)
  BY DEF Write, IInv, CallOk, Before, Inside
<1>2. \/ /\ live' \in Versions /\ versions' \in 0 .. MaxVersions /\ live'.by = s
         /\ outcome' = [outcome EXCEPT ![s] = "saved"] /\ UNCHANGED late
         /\ Goto(s, AfterWrite(s, TRUE))
      \/ /\ outcome' = [outcome EXCEPT ![s] = "failed"] /\ UNCHANGED <<live, versions>>
         /\ late' \in {late, late \cup {s}}
         /\ Goto(s, AfterWrite(s, FALSE))
  BY VersionedType, ContentsAssumption DEF Write
<1>3. OwnStep(s) /\ lock' = lock /\ UNCHANGED <<mem, disk>>
  BY <1>1, <1>2 DEF Write, AfterWrite, Goto, OwnStep, IInv, TypeOK, Places, Working, Outcomes
<1>4. \/ /\ outcome'[s] = "saved" /\ live'.by = s /\ s \notin late'
         /\ \/ pc[s] = "write" /\ pc'[s] = "readback"
            \/ pc[s] = "plain" /\ pc'[s] = "leave"
      \/ /\ outcome'[s] = "failed" /\ live' = live
         /\ \/ pc[s] = "write" /\ pc'[s] = "failed"
            \/ pc[s] = "plain" /\ pc'[s] = "leave"
  <2>1. s \notin late
    BY <1>1 DEF IInv, CallOk
  <2> QED
    BY <1>1, <1>2, <2>1 DEF AfterWrite, Goto, IInv, TypeOK
<1>5. Hopeless(s)' \/ (pc'[s] = "readback" /\ lock = s)
  BY <1>1, <1>3, <1>4 DEF Hopeless, Before
<1>6. LiveStep(s)
  BY <1>4, <1>5 DEF LiveStep, Hopeless
<1>7. CallOk(s)' /\ ResultOk(s)' /\ (Hopeless(s) => Hopeless(s)')
  BY <1>1, <1>3, <1>4 DEF IInv, CallOk, ResultOk, Own, Hopeless, Before, Inside
<1> QED
  BY <1>3, <1>6, <1>7, OwnInductive

\* The record of an interrupted save is made uncertain.
LEMMA UncertainInductive ==
  ASSUME IInv, NEW s \in Saves, SaveFailed(s) \/ SaveUnread(s)
  PROVE  IInv'
<1> DEFINE new == [mem[s] EXCEPT !.status = "PARTIALLY_APPLIED", !.app = "UNCERTAIN"]
<1>1. new \in Records /\ new.known = mem[s].known /\ new.after = mem[s].after /\ Backed(new)
  BY UncertainType DEF IInv, TypeOK
<1>2. /\ pc[s] \in {"failed", "unread"} /\ Goto(s, "leave") /\ Note(s, new) /\ MaybeStored(s, mem'[s])
      /\ UNCHANGED <<world, lock, told, fix>>
  BY DEF SaveFailed, SaveUnread
<1> HIDE DEF new
<1>3. lock = s
  BY <1>2 DEF IInv, CallOk, Inside
<1>4. /\ OwnStep(s) /\ pc'[s] = "leave" /\ mem'[s] = new
      /\ disk'[s] = disk[s] \/ disk'[s] = new
  BY <1>1, <1>2, <1>3 DEF Goto, Note, Stored, MaybeStored, OwnStep, IInv, TypeOK, Places, Working, Outcomes, world, told
<1>5. LiveStep(s) /\ CallOk(s)' /\ (Hopeless(s) => Hopeless(s)')
  BY <1>1, <1>2, <1>4 DEF OwnStep, LiveStep, IInv, CallOk, Hopeless, world, told, Before, Inside
<1>6. ResultOk(s)'
  BY <1>1, <1>2, <1>4, <1>5 DEF IInv, ResultOk, Own, OwnStep, Hopeless, world, told
<1> QED
  BY <1>4, <1>5, <1>6, OwnInductive

LEMMA ReadbackInductive ==
  ASSUME IInv, NEW s \in Saves, Readback(s)
  PROVE  IInv'
<1> DEFINE new == [mem[s] EXCEPT !.status = "APPLIED", !.app = "VERIFIED", !.known = TRUE, !.after = live]
<1>1. new \in Records /\ new.known /\ new.after = live /\ Backed(new)
  BY VerifiedType DEF IInv, TypeOK
<1>2. \/ Note(s, new) /\ Goto(s, "verify")
      \/ Goto(s, "unread") /\ UNCHANGED mem
  BY DEF Readback
<1> HIDE DEF new
<1>3. /\ OwnStep(s) /\ pc[s] = "readback" /\ lock' = lock /\ UNCHANGED <<disk, world, told>>
      /\ \/ mem'[s] = new /\ pc'[s] = "verify"
         \/ mem'[s] = mem[s] /\ pc'[s] = "unread"
  BY <1>1, <1>2 DEF Readback, Goto, Note, OwnStep, IInv, TypeOK, Places, Working, Outcomes, world, told
<1>4. LiveStep(s) /\ CallOk(s)' /\ (Hopeless(s) => Hopeless(s)')
  BY <1>1, <1>3 DEF LiveStep, IInv, CallOk, Hopeless, world, told, Before, Inside
<1>5. live.by \in Saves \ {s} => Hopeless(live.by) /\ Hopeless(live.by)'
  BY <1>3 DEF IInv, ResultOk, Hopeless, OwnStep, world
<1>6. ResultOk(s)'
  BY <1>1, <1>3, <1>5 DEF IInv, ResultOk, Own, Hopeless, OwnStep, world
<1> QED
  BY <1>3, <1>4, <1>6, OwnInductive

LEMMA SaveVerifiedInductive ==
  ASSUME IInv, NEW s \in Saves, SaveVerified(s)
  PROVE  IInv'
<1>1. lock = s
  BY DEF SaveVerified, IInv, CallOk, Inside
<1>2. /\ OwnStep(s) /\ pc[s] = "verify" /\ pc'[s] \in {"leave", "unread"} /\ lock' = lock
      /\ disk'[s] = disk[s] \/ disk'[s] = mem[s]
  BY <1>1 DEF SaveVerified, Goto, Stored, MaybeStored, OwnStep, IInv, TypeOK, Places, Working, Outcomes, world, told
<1>3. ~Hopeless(s) \/ ~mem[s].known
  BY DEF Hopeless
<1>4. LiveStep(s) /\ CallOk(s)' /\ (Hopeless(s) => Hopeless(s)')
  BY <1>2, <1>3 DEF SaveVerified, OwnStep, LiveStep, IInv, CallOk, Hopeless, world, told, Before, Inside
<1>5. ResultOk(s)'
  BY <1>2, <1>3, <1>4 DEF SaveVerified, IInv, ResultOk, Own, OwnStep, Hopeless, world, told
<1> QED
  BY <1>2, <1>4, <1>5, OwnInductive

LEMMA LeaveInductive ==
  ASSUME IInv, NEW s \in Saves, Leave(s)
  PROVE  IInv'
<1>1. outcome[s] \in {"saved", "failed"} /\ pc[s] = "leave" /\ Note(s, NoRecord)
  BY DEF Leave, IInv, CallOk, TypeOK
<1>2. /\ Goto(s, IF outcome[s] = "saved" THEN "result" ELSE "error")
      /\ lock' = lock \/ (lock = s /\ lock' = Nobody)
  BY <1>1 DEF Leave
<1>3. /\ OwnStep(s) /\ mem'[s] = NoRecord
      /\ pc'[s] = IF outcome[s] = "saved" THEN "result" ELSE "error"
  BY <1>1, <1>2, NoRecordType DEF Leave, Goto, Note, OwnStep, IInv, TypeOK, Places, Ended, Outcomes, world, told
<1>4. LiveStep(s) /\ CallOk(s)' /\ (Hopeless(s) => Hopeless(s)')
  BY <1>1, <1>3, NoRecordType DEF Leave, OwnStep, LiveStep, IInv, CallOk, Hopeless, world, told, Before, Inside
<1>5. ResultOk(s)'
  BY <1>1, <1>3, NoRecordType, <1>4 DEF Leave, IInv, ResultOk, Own, OwnStep, Hopeless, world, told
<1> QED
  BY <1>3, <1>4, <1>5, OwnInductive

\* A late commit is of a save that was not told of success.
LEMMA CommitLateInductive ==
  ASSUME IInv, NEW s \in Saves, CommitLate(s)
  PROVE  IInv'
<1>1. live' \in Versions /\ versions' \in 0 .. MaxVersions /\ live'.by = s
  BY VersionedType, ContentsAssumption DEF CommitLate
<1>2. OwnStep(s) /\ pc' = pc /\ mem' = mem /\ disk' = disk
  BY <1>1 DEF CommitLate, OwnStep, IInv, TypeOK, Places, Outcomes, told
<1>3. Hopeless(s) /\ Hopeless(s)' /\ pc[s] # "readback"
  BY <1>2 DEF CommitLate, Hopeless, IInv, CallOk, Before
<1>4. LiveStep(s)
  BY <1>1, <1>3 DEF LiveStep
<1>5. CallOk(s)' /\ ResultOk(s)'
  BY <1>2, <1>3 DEF CommitLate, IInv, CallOk, ResultOk, Own, Hopeless, told
<1> QED
  BY <1>2, <1>3, <1>4, <1>5, OwnInductive

LEMMA DieInductive ==
  ASSUME IInv, NEW s \in Saves, Die(s)
  PROVE  IInv'
<1>1. /\ OwnStep(s) /\ pc'[s] = "dead" /\ mem'[s] = NoRecord /\ live' = live
      /\ s \in late' => s \in late \/ pc[s] \in {"write", "plain"}
  BY NoRecordType DEF Die, Goto, Note, OwnStep, IInv, TypeOK, Places, Ended, Outcomes, told
<1>2. LiveStep(s) /\ CallOk(s)' /\ (Hopeless(s) => Hopeless(s)')
  BY <1>1, NoRecordType DEF Die, OwnStep, LiveStep, IInv, CallOk, Hopeless, told, Before, Inside
<1>3. ResultOk(s)'
  BY <1>1, NoRecordType, <1>2 DEF Die, IInv, ResultOk, Own, OwnStep, Hopeless, told
<1> QED
  BY <1>1, <1>2, <1>3, OwnInductive

-------------------------------------------------------------------------------
(***************************************************************************)
(* recover, and the world                                                  *)
(***************************************************************************)
LEMMA RecoverReadInductive ==
  ASSUME IInv, NEW s \in Saves, RecoverRead(s)
  PROVE  IInv'
<1>1. \A t \in Saves : pc[t] \notin Inside
  BY InsideOne DEF RecoverRead
<1>2. /\ Reconciled(disk[s]) \in Records /\ Reconciled(disk[s]).known = disk[s].known
      /\ Reconciled(disk[s]).after = disk[s].after /\ Backed(Reconciled(disk[s]))
  BY ReconciledType DEF IInv, TypeOK, CallOk
<1>3. /\ lock' = Reconciler /\ fix' = [of |-> s, set |-> Reconciled(disk[s])]
      /\ UNCHANGED <<pc, world, mem, disk, told>>
  BY DEF RecoverRead
<1>4. fix' # NoFix /\ FixOk'
  BY <1>2, <1>3, NamesAssumption DEF NoFix, FixOk
<1>5. TypeOK'
  BY <1>3, <1>4 DEF IInv, TypeOK, FixOk, world, told
<1>6. \A t \in Saves : CallOk(t)' /\ ResultOk(t)'
  BY <1>1, <1>3 DEF IInv, CallOk, ResultOk, Own, Hopeless, world, told
<1> QED
  BY <1>4, <1>5, <1>6 DEF IInv

LEMMA RecoverSaveInductive ==
  ASSUME IInv, RecoverSave
  PROVE  IInv'
<1>1. /\ fix.of \in Saves /\ fix.set \in Records /\ fix.set.known = disk[fix.of].known
      /\ fix.set.after = disk[fix.of].after /\ Backed(fix.set)
  BY DEF RecoverSave, IInv, FixOk
<1>2. lock = Reconciler
  BY DEF RecoverSave, IInv, TypeOK
<1>3. \A t \in Saves : pc[t] \notin Inside
  BY <1>2, NamesAssumption DEF IInv, CallOk
<1>4. /\ lock' = Nobody /\ fix' = NoFix /\ UNCHANGED <<pc, world, mem, told>>
      /\ disk' = disk \/ disk' = [disk EXCEPT ![fix.of] = fix.set]
  BY DEF RecoverSave, MaybeStored, Stored
<1>5. /\ disk' \in [Saves -> Records]
      /\ \A t \in Saves : disk'[t].known = disk[t].known /\ disk'[t].after = disk[t].after
                          /\ (Backed(disk[t]) => Backed(disk'[t]))
  BY <1>1, <1>4 DEF IInv, TypeOK
<1>6. TypeOK' /\ FixOk'
  BY <1>4, <1>5, NamesAssumption, NoRecordType DEF IInv, TypeOK, FixOk, NoFix, world, told
<1>7. ASSUME NEW t \in Saves PROVE CallOk(t)' /\ ResultOk(t)'
  <2>1. CallOk(t) /\ ResultOk(t)
    BY DEF IInv
  <2>2. CallOk(t)'
    BY <1>3, <1>4, <1>5, <2>1 DEF CallOk, world, told
  <2>3. ResultOk(t)'
    BY <1>4, <1>5, <2>1 DEF ResultOk, Own, Hopeless, world
  <2> QED
    BY <2>2, <2>3
<1> QED
  BY <1>6, <1>7 DEF IInv

LEMMA ForeignSaveInductive ==
  ASSUME IInv, ForeignSave
  PROVE  IInv'
<1>1. /\ live' \in Versions /\ versions' \in 0 .. MaxVersions /\ live'.by = Foreign
      /\ UNCHANGED <<pc, lock, mem, disk, told, late, fix>>
  BY VersionedType DEF ForeignSave
<1>2. TypeOK' /\ FixOk'
  BY <1>1 DEF IInv, TypeOK, FixOk, told
<1>3. \A t \in Saves : CallOk(t)' /\ ResultOk(t)'
  BY <1>1, NamesAssumption DEF IInv, CallOk, ResultOk, Own, Hopeless, told
<1> QED
  BY <1>2, <1>3 DEF IInv

-------------------------------------------------------------------------------
(***************************************************************************)
(* The invariant is inductive                                              *)
(***************************************************************************)
LEMMA InitInductive == Init => IInv
<1> SUFFICES ASSUME Init PROVE IInv
  OBVIOUS
<1>1. TypeOK
  BY NoRecordType, BoundAssumption, NamesAssumption DEF Init, TypeOK, Versions, NoFix
<1>2. FixOk
  BY NoRecordType DEF Init, FixOk, NoFix
<1>3. \A s \in Saves : CallOk(s) /\ ResultOk(s)
  BY NoRecordType DEF Init, CallOk, ResultOk, Own, Inside, Before
<1> QED
  BY <1>1, <1>2, <1>3 DEF IInv

LEMMA NextInductive == IInv /\ [Next]_vars => IInv'
<1> SUFFICES ASSUME IInv, [Next]_vars PROVE IInv'
  OBVIOUS
<1>1. CASE UNCHANGED vars
  BY <1>1 DEF vars, IInv, TypeOK, FixOk, CallOk, ResultOk, Own, Hopeless
<1>2. ASSUME NEW s \in Saves, Step(s) PROVE IInv'
  BY <1>2, EnterInductive, ReadBaselineInductive, SaveStartedInductive, WriteInductive,
     UncertainInductive, ReadbackInductive, SaveVerifiedInductive, LeaveInductive DEF Step
<1>3. ASSUME NEW s \in Saves, Call(s) \/ RecoverRead(s) \/ CommitLate(s) \/ Die(s) PROVE IInv'
  BY <1>3, CallInductive, RecoverReadInductive, CommitLateInductive, DieInductive
<1> QED
  BY <1>1, <1>2, <1>3, RecoverSaveInductive, ForeignSaveInductive DEF Next

\* Every reachable state satisfies the invariant of the journal and its saves.
THEOREM Inductive == Spec => []IInv
  BY InitInductive, NextInductive, PTL DEF Spec

\* Every variable keeps its type; write() in particular runs at most once for
\* each save, and a recover that is under way holds the lock.
THEOREM Typing == Spec => []TypeOK
<1>1. IInv => TypeOK
  BY DEF IInv
<1> QED
  BY <1>1, Inductive, PTL

\* A record claims a result only for a save that said it was done, and what was
\* never read back stays unknown through every reconciliation.
THEOREM ClaimsAreBackedHolds == Spec => []ClaimsAreBacked
<1>1. IInv => ClaimsAreBacked
  BY DEF IInv, CallOk, Backed, ClaimsAreBacked
<1> QED
  BY <1>1, Inductive, PTL

\* The result a record claims is its own save's, or that of a writer whose own
\* record does not claim it.
THEOREM ResultsAreOwnHolds == Spec => []ResultsAreOwn
<1>1. IInv => ResultsAreOwn
  BY DEF IInv, ResultOk, Own, Hopeless, ResultsAreOwn
<1> QED
  BY <1>1, Inductive, PTL

-------------------------------------------------------------------------------
(***************************************************************************)
(* History is never a gate on a save                                       *)
(***************************************************************************)
Shown == [s \in Saves |-> Saved(s)]

\* A step of one call shows as one abstract step, or not at all.
LEMMA ShownStep ==
  ASSUME IInv, NEW s \in Saves, NEW place \in Places, Goto(s, place),
         outcome' \in [Saves -> Outcomes], \A t \in Saves \ {s} : outcome'[t] = outcome[t]
  PROVE  /\ Shown' = [Shown EXCEPT ![s] = Saved(s)']
         /\ pc'[s] = place
<1>1. pc'[s] = place /\ \A t \in Saves \ {s} : pc'[t] = pc[t]
  BY DEF Goto, IInv, TypeOK
<1>2. ASSUME NEW t \in Saves \ {s} PROVE Saved(t)' = Saved(t)
  BY <1>1 DEF Saved
<1> HIDE DEF Saved
<1> QED
  BY <1>1, <1>2 DEF Shown

\* What a step of a call leaves of its save, and where it takes it.
LEMMA StepShown ==
  ASSUME IInv, NEW s \in Saves, Step(s)
  PROVE  \/ UNCHANGED Shown
         \/ Direct!Write(s) \/ Direct!Answer(s)
<1>1. CallOk(s) /\ TypeOK
  BY DEF IInv
<1>2. CASE Enter(s) \/ ReadBaseline(s) \/ SaveStarted(s) \/ SaveFailed(s) \/ Readback(s) \/ SaveVerified(s) \/ SaveUnread(s)
  <2>1. \E place \in Working : Goto(s, place)
    BY <1>2 DEF Enter, ReadBaseline, SaveStarted, SaveFailed, Readback, SaveVerified, SaveUnread, Working
  <2>2. outcome' = outcome /\ pc[s] \in Working
    BY <1>2 DEF Enter, ReadBaseline, SaveStarted, SaveFailed, Readback, SaveVerified, SaveUnread, told, Working
  <2>3. pc'[s] \in Working /\ \A t \in Saves \ {s} : pc'[t] = pc[t]
    BY <1>1, <2>1 DEF Goto, TypeOK
  <2>4. \A t \in Saves : Saved(t)' = Saved(t)
    BY <2>2, <2>3 DEF Saved, Working, Ended
  <2> HIDE DEF Saved
  <2> QED
    BY <2>4 DEF Shown
<1>3. CASE Write(s)
  <2>1. /\ pc[s] \in {"write", "plain"} /\ outcome[s] = "none"
    BY <1>1, <1>3 DEF Write, CallOk, Before
  <2>2. PICK o \in {"saved", "failed"} : outcome' = [outcome EXCEPT ![s] = o] /\ Goto(s, AfterWrite(s, o = "saved"))
    <3>1. \/ outcome' = [outcome EXCEPT ![s] = "saved"] /\ Goto(s, AfterWrite(s, TRUE))
          \/ outcome' = [outcome EXCEPT ![s] = "failed"] /\ Goto(s, AfterWrite(s, FALSE))
      BY <1>3 DEF Write
    <3> QED
      BY <3>1 DEF AfterWrite
  <2>3. AfterWrite(s, o = "saved") \in {"leave", "readback", "failed"}
    BY DEF AfterWrite
  <2>4. outcome' \in [Saves -> Outcomes] /\ outcome'[s] = o /\ \A t \in Saves \ {s} : outcome'[t] = outcome[t]
    BY <1>1, <2>2 DEF TypeOK, Outcomes
  <2>5. /\ Shown' = [Shown EXCEPT ![s] = Saved(s)']
        /\ pc'[s] \in {"leave", "readback", "failed"}
    BY <2>2, <2>3, <2>4, ShownStep DEF Places, Working
  <2>6. Saved(s) = "called" /\ Saved(s)' = IF o = "saved" THEN "written" ELSE "failed"
    BY <2>1, <2>4, <2>5 DEF Saved, Ended
  <2>7. Shown[s] = "called" /\ (Shown' = [Shown EXCEPT ![s] = "written"] \/ Shown' = [Shown EXCEPT ![s] = "failed"])
    BY <2>5, <2>6 DEF Shown
  <2> QED
    BY <2>7 DEF Direct!Write, Direct!Move, Shown
<1>4. CASE Leave(s)
  <2>1. pc[s] = "leave" /\ outcome[s] \in {"saved", "failed"} /\ outcome' = outcome
    BY <1>1, <1>4 DEF Leave, CallOk, TypeOK, told
  <2>2. Goto(s, IF outcome[s] = "saved" THEN "result" ELSE "error")
    BY <1>4, <2>1 DEF Leave
  <2>3. Shown' = [Shown EXCEPT ![s] = Saved(s)'] /\ pc'[s] = IF outcome[s] = "saved" THEN "result" ELSE "error"
    BY <1>1, <2>1, <2>2, ShownStep DEF Places, Ended, TypeOK, Outcomes
  <2>4. CASE outcome[s] = "saved"
    <3>1. Saved(s) = "written" /\ Saved(s)' = "result"
      BY <2>1, <2>3, <2>4 DEF Saved, Ended
    <3>2. Shown[s] = "written" /\ Shown' = [Shown EXCEPT ![s] = "result"]
      BY <2>3, <3>1 DEF Shown
    <3> QED
      BY <3>2 DEF Direct!Answer, Direct!Move, Shown
  <2>5. CASE outcome[s] = "failed"
    <3>1. Saved(s) = "failed" /\ Saved(s)' = "error"
      BY <2>1, <2>3, <2>5 DEF Saved, Ended
    <3>2. Shown[s] = "failed" /\ Shown' = [Shown EXCEPT ![s] = "error"]
      BY <2>3, <3>1 DEF Shown
    <3> QED
      BY <3>2 DEF Direct!Answer, Direct!Move, Shown
  <2> QED
    BY <2>1, <2>4, <2>5
<1> QED
  BY <1>2, <1>3, <1>4 DEF Step

LEMMA CallShown ==
  ASSUME IInv, NEW s \in Saves, Call(s)
  PROVE  Direct!Call(s)
<1>1. pc[s] = "idle" /\ Goto(s, "enter") /\ outcome' = outcome /\ outcome[s] = "none" /\ TypeOK
  BY DEF Call, told, IInv, CallOk, Before
<1>2. Shown' = [Shown EXCEPT ![s] = Saved(s)'] /\ pc'[s] = "enter"
  BY <1>1, ShownStep DEF Places, Working, TypeOK, Outcomes
<1>3. Saved(s) = "idle" /\ Saved(s)' = "called"
  BY <1>1, <1>2 DEF Saved, Ended
<1>4. Shown[s] = "idle" /\ Shown' = [Shown EXCEPT ![s] = "called"]
  BY <1>2, <1>3 DEF Shown
<1> QED
  BY <1>4 DEF Direct!Call, Direct!Move, Shown

LEMMA DieShown ==
  ASSUME IInv, NEW s \in Saves, Die(s)
  PROVE  Direct!Die(s)
<1>1. pc[s] # "dead" /\ Goto(s, "dead") /\ outcome' = outcome /\ TypeOK
  BY DEF Die, told, IInv, Working
<1>2. Shown' = [Shown EXCEPT ![s] = Saved(s)'] /\ pc'[s] = "dead"
  BY <1>1, ShownStep DEF Places, Ended, TypeOK, Outcomes
<1>3. Saved(s) # "dead" /\ Saved(s)' = "dead"
  BY <1>1, <1>2 DEF Saved, Ended
<1>4. Shown[s] # "dead" /\ Shown' = [Shown EXCEPT ![s] = "dead"]
  BY <1>2, <1>3 DEF Shown
<1> QED
  BY <1>4 DEF Direct!Die, Shown

\* For its caller a recorded save is a direct one, whatever fails around it:
\* the safety half of NeverAGate.
THEOREM RecordingIsInvisible == Spec => Direct!Safe
<1>1. Init => Direct!Init
  <2> SUFFICES ASSUME Init PROVE \A s \in Saves : Saved(s) = "idle"
    BY DEF Direct!Init
  <2> QED
    BY DEF Init, Saved
<1>2. IInv /\ [Next]_vars => [Direct!Next]_Shown
  <2> SUFFICES ASSUME IInv, [Next]_vars PROVE [Direct!Next]_Shown
    OBVIOUS
  <2>1. ASSUME UNCHANGED <<pc, outcome>> PROVE [Direct!Next]_Shown
    BY <2>1 DEF Shown, Saved
  <2>2. CASE UNCHANGED vars
    BY <2>1, <2>2 DEF vars
  <2>3. CASE RecoverSave \/ ForeignSave
    BY <2>1, <2>3 DEF RecoverSave, ForeignSave, told
  <2>4. ASSUME NEW s \in Saves, RecoverRead(s) \/ CommitLate(s) PROVE [Direct!Next]_Shown
    BY <2>1, <2>4 DEF RecoverRead, CommitLate, told
  <2>5. ASSUME NEW s \in Saves, Call(s) \/ Step(s) \/ Die(s) PROVE [Direct!Next]_Shown
    BY <2>5, CallShown, StepShown, DieShown DEF Direct!Next
  <2> QED
    BY <2>2, <2>3, <2>4, <2>5 DEF Next
<1> QED
  BY <1>1, <1>2, Inductive, PTL DEF Spec, Direct!Safe, Shown
===============================================================================
