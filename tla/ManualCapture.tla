----------------------------- MODULE ManualCapture -----------------------------
(***************************************************************************)
(* The history of a developer's own saves: src/changeReview/service.ts,    *)
(* captureManual, and what recover does to the records it leaves.          *)
(*                                                                         *)
(* Several windows save one definition.  A save that gets the storage lock *)
(* (ReviewLock: it refuses at once and never waits) records the baseline,  *)
(* runs the write, reads the result back and records it.  Everything but   *)
(* the write may fail, and the window may die, at every step; saves that   *)
(* did not get the lock, other tools and late commits change the           *)
(* definition at any time.  Each save is in a window of its own: two saves *)
(* of one window differ only in that they die together.                    *)
(***************************************************************************)
EXTENDS Naturals

CONSTANTS
  Saves,       \* calls of captureManual for one definition
  Text,        \* Text[s]: what save s writes
  Contents,    \* values the definition can have
  Absent,      \* the value of a definition that does not exist
  Foreign,     \* the author of a version no save wrote
  Reconciler,  \* the window in which a developer runs recover
  Nobody,      \* the holder of a free lock
  MaxVersions  \* bound on the versions of the definition

ASSUME ContentsAssumption == Absent \in Contents /\ Text \in [Saves -> Contents]
ASSUME BoundAssumption == MaxVersions \in Nat
ASSUME NamesAssumption == {Foreign, Reconciler, Nobody} \cap Saves = {} /\ Reconciler # Nobody

VARIABLES
  pc,        \* where each call is
  live,      \* the definition: value, token and the author of this version
  versions,  \* how many versions were written: the source of tokens
  lock,      \* who holds the storage lock
  mem,       \* the Change Set in the memory of its call
  disk,      \* the stored Change Set of each save
  runs,      \* how often write() was called
  outcome,   \* what write() told: started and done of the code
  late,      \* writes whose answer was lost and that may still commit
  fix        \* the record a running recover is about to store, and whose

vars == <<pc, live, versions, lock, mem, disk, runs, outcome, late, fix>>
world == <<live, versions, late>>
told == <<runs, outcome>>

Ended == {"result", "error", "dead"}
Working == {"enter", "baseline", "start", "write", "plain", "failed", "readback",
            "verify", "unread", "leave"}
Unknown == [value |-> Absent, token |-> 0, by |-> Foreign]
Versions == [value : Contents, token : 0 .. MaxVersions, by : Saves \cup {Foreign}]
NoRecord == [status |-> "none", app |-> "none", known |-> FALSE, before |-> Unknown, after |-> Unknown]
NoFix == [of |-> Nobody, set |-> NoRecord]

Init ==
  /\ pc = [s \in Saves |-> "idle"]
  /\ live \in [value : Contents, token : {0}, by : {Foreign}]
  /\ versions = 0
  /\ lock = Nobody
  /\ mem = [s \in Saves |-> NoRecord] /\ disk = mem
  /\ runs = [s \in Saves |-> 0]
  /\ outcome = [s \in Saves |-> "none"]
  /\ late = {}
  /\ fix = NoFix

Goto(s, place) == pc' = [pc EXCEPT ![s] = place]
Note(s, record) == mem' = [mem EXCEPT ![s] = record]

\* put() replaces the file; when it fails, before or after the replacement.
Stored(s, record) == disk' = [disk EXCEPT ![s] = record]
MaybeStored(s, record) == Stored(s, record) \/ UNCHANGED disk

\* A version by author a.  A definition that is deleted loses its token.
Versioned(v, a) ==
  /\ versions < MaxVersions
  /\ versions' = versions + 1
  /\ live' = [value |-> v, token |-> IF v = Absent THEN 0 ELSE versions + 1, by |-> a]

-------------------------------------------------------------------------------
(***************************************************************************)
(* captureManual                                                           *)
(***************************************************************************)
Call(s) == pc[s] = "idle" /\ Goto(s, "enter") /\ UNCHANGED <<world, lock, mem, disk, told, fix>>

LockIsFree == lock = Nobody \/ (lock \in Saves /\ pc[lock] = "dead")

\* Faulty: the lock is entered while another window owns it.
EnterShared(s) ==
  /\ pc[s] = "enter"
  /\ lock' = s /\ Goto(s, "baseline")
  /\ UNCHANGED <<world, mem, disk, told, fix>>

\* exclusive() enters a lock that is free or whose owner is dead; otherwise,
\* or when the storage fails, it throws and the save goes ahead unrecorded.
Enter(s) ==
  /\ pc[s] = "enter"
  /\ \/ LockIsFree /\ lock' = s /\ Goto(s, "baseline")
     \/ Goto(s, "plain") /\ UNCHANGED lock
  /\ UNCHANGED <<world, mem, disk, told, fix>>

\* The baseline is read and the record is made; a failure of either lets the
\* save go ahead, inside the lock.
ReadBaseline(s) ==
  /\ pc[s] = "baseline"
  /\ \/ /\ Note(s, [status |-> "APPLYING", app |-> "APPLYING", known |-> FALSE,
                    before |-> live, after |-> Unknown])
        /\ Goto(s, "start")
     \/ Goto(s, "plain") /\ UNCHANGED mem
  /\ UNCHANGED <<world, lock, disk, told, fix>>

SaveStarted(s) ==
  /\ pc[s] = "start"
  /\ \/ Stored(s, mem[s]) /\ Goto(s, "write")
     \/ MaybeStored(s, mem[s]) /\ Goto(s, "plain")
  /\ UNCHANGED <<world, lock, mem, told, fix>>

\* Where a call goes when its write has returned or thrown.
AfterWrite(s, ok) ==
  IF pc[s] = "plain" THEN "leave" ELSE IF ok THEN "readback" ELSE "failed"

\* write(): it commits and says so, is refused, or loses its answer.
Write(s) ==
  /\ pc[s] \in {"write", "plain"}
  /\ runs' = [runs EXCEPT ![s] = @ + 1]
  /\ \/ /\ Versioned(Text[s], s) /\ UNCHANGED late
        /\ outcome' = [outcome EXCEPT ![s] = "saved"]
        /\ Goto(s, AfterWrite(s, TRUE))
     \/ /\ outcome' = [outcome EXCEPT ![s] = "failed"]
        /\ Goto(s, AfterWrite(s, FALSE))
        /\ late' \in {late, late \cup {s}}
        /\ UNCHANGED <<live, versions>>
  /\ UNCHANGED <<lock, mem, disk, fix>>

\* Only the write's own failure: recorded as well as it can be, then thrown.
SaveFailed(s) ==
  /\ pc[s] = "failed"
  /\ Note(s, [mem[s] EXCEPT !.status = "PARTIALLY_APPLIED", !.app = "UNCERTAIN"])
  /\ MaybeStored(s, mem'[s])
  /\ Goto(s, "leave")
  /\ UNCHANGED <<world, lock, told, fix>>

Readback(s) ==
  /\ pc[s] = "readback"
  /\ \/ /\ Note(s, [mem[s] EXCEPT !.status = "APPLIED", !.app = "VERIFIED",
                                  !.known = TRUE, !.after = live])
        /\ Goto(s, "verify")
     \/ Goto(s, "unread") /\ UNCHANGED mem
  /\ UNCHANGED <<world, lock, disk, told, fix>>

SaveVerified(s) ==
  /\ pc[s] = "verify"
  /\ \/ Stored(s, mem[s]) /\ Goto(s, "leave")
     \/ MaybeStored(s, mem[s]) /\ Goto(s, "unread")
  /\ UNCHANGED <<world, lock, mem, told, fix>>

\* Saved, but the readback or its record failed.
SaveUnread(s) ==
  /\ pc[s] = "unread"
  /\ Note(s, [mem[s] EXCEPT !.status = "PARTIALLY_APPLIED", !.app = "UNCERTAIN"])
  /\ MaybeStored(s, mem'[s])
  /\ Goto(s, "leave")
  /\ UNCHANGED <<world, lock, told, fix>>

\* Faulty: an error out of exclusive() runs the save unrecorded even when
\* the error was the save's own.
LeaveRunsAgain(s) ==
  /\ pc[s] = "leave"
  /\ lock' = IF lock = s THEN Nobody ELSE lock
  /\ Goto(s, IF outcome[s] = "saved" THEN "result" ELSE "plain")
  /\ Note(s, NoRecord)
  /\ UNCHANGED <<world, disk, told, fix>>

\* The finally of exclusive(), if it was entered, which may fail and leave the
\* file behind, and the outer catch: done returns the result, started throws.
Leave(s) ==
  /\ pc[s] = "leave"
  /\ lock' \in IF lock = s THEN {Nobody, lock} ELSE {lock}
  /\ Goto(s, CASE outcome[s] = "saved" -> "result" [] outcome[s] = "failed" -> "error"
               [] OTHER -> "plain")
  /\ Note(s, NoRecord)
  /\ UNCHANGED <<world, disk, told, fix>>

-------------------------------------------------------------------------------
(***************************************************************************)
(* recover                                                                 *)
(***************************************************************************)
\* Faulty: a record without a known result is compared like any other.
ReconciledBlindly(set) ==
  [set EXCEPT !.status = "PARTIALLY_APPLIED",
              !.app = IF live.value = set.after.value THEN "VERIFIED"
                      ELSE IF @ # "VERIFIED" /\ live.value = set.before.value
                              /\ live.token = set.before.token THEN "PENDING"
                      ELSE "UNCERTAIN"]

\* What recover makes of a record.  A manual set has no approved object, so
\* it never becomes APPLIED here.
Reconciled(set) ==
  [set EXCEPT
     !.status = "PARTIALLY_APPLIED",
     !.app = IF @ \notin {"APPLYING", "UNCERTAIN", "VERIFIED"} THEN @
             ELSE IF ~set.known THEN "UNCERTAIN"
             ELSE IF live.value = set.after.value THEN "VERIFIED"
             ELSE IF @ # "VERIFIED" /\ live.value = set.before.value
                     /\ live.token = set.before.token THEN "PENDING"
             ELSE "UNCERTAIN"]

\* A developer reconciles a record that says its save was interrupted.
RecoverRead(s) ==
  /\ LockIsFree
  /\ disk[s].status \in {"APPLYING", "PARTIALLY_APPLIED"}
  /\ lock' = Reconciler
  /\ fix' = [of |-> s, set |-> Reconciled(disk[s])]
  /\ UNCHANGED <<pc, world, mem, disk, told>>

\* It stores its verdict, or fails on the way.
RecoverSave ==
  /\ fix # NoFix
  /\ MaybeStored(fix.of, fix.set)
  /\ lock' = Nobody /\ fix' = NoFix
  /\ UNCHANGED <<pc, world, mem, told>>

-------------------------------------------------------------------------------
(***************************************************************************)
(* The world                                                               *)
(***************************************************************************)
\* Another tool writes or deletes the definition.
ForeignSave ==
  /\ \E v \in Contents \ {live.value} : Versioned(v, Foreign)
  /\ UNCHANGED <<pc, lock, mem, disk, told, late, fix>>

\* A write whose answer was lost, or whose window died, commits after all.
CommitLate(s) ==
  /\ s \in late
  /\ Versioned(Text[s], s)
  /\ late' = late \ {s}
  /\ UNCHANGED <<pc, lock, mem, disk, told, fix>>

\* The window of a call dies, during the call or while a lock file it failed
\* to remove still names it; a write it had sent may still commit.
Die(s) ==
  /\ pc[s] \in Working \/ (lock = s /\ pc[s] # "dead")
  /\ Goto(s, "dead") /\ Note(s, NoRecord)
  /\ late' \in IF pc[s] \in {"write", "plain"} THEN {late, late \cup {s}} ELSE {late}
  /\ UNCHANGED <<live, versions, lock, disk, told, fix>>

Step(s) ==
  \/ Enter(s) \/ ReadBaseline(s) \/ SaveStarted(s) \/ Write(s) \/ SaveFailed(s)
  \/ Readback(s) \/ SaveVerified(s) \/ SaveUnread(s) \/ Leave(s)

Next ==
  \/ \E s \in Saves : Call(s) \/ Step(s) \/ RecoverRead(s) \/ CommitLate(s) \/ Die(s)
  \/ RecoverSave \/ ForeignSave

\* Fairness: what a call awaits returns or throws, the write included.
Spec == Init /\ [][Next]_vars /\ \A s \in Saves : WF_vars(Step(s))

-------------------------------------------------------------------------------
(***************************************************************************)
(* Properties                                                              *)
(***************************************************************************)
Records ==
  [status : {"none", "APPLYING", "APPLIED", "PARTIALLY_APPLIED"},
   app : {"none", "APPLYING", "VERIFIED", "UNCERTAIN", "PENDING"},
   known : BOOLEAN, before : Versions, after : Versions]

TypeOK ==
  /\ pc \in [Saves -> {"idle"} \cup Working \cup Ended]
  /\ live \in Versions /\ versions \in 0 .. MaxVersions
  /\ lock \in Saves \cup {Reconciler, Nobody}
  /\ mem \in [Saves -> Records] /\ disk \in [Saves -> Records]
  /\ runs \in [Saves -> 0 .. 1]
  /\ outcome \in [Saves -> {"none", "saved", "failed"}]
  /\ late \subseteq Saves
  /\ (fix # NoFix) = (lock = Reconciler) /\ fix.of \in Saves \cup {Nobody}

\* "History is a record of the save, never a gate on it": whatever fails
\* around it, for its caller a recorded save is a direct one.  The write runs
\* at most once, its own outcome is what the caller is told, and every save
\* of a window that lives comes back.
Saved(s) ==
  IF pc[s] \in Ended \cup {"idle"} THEN pc[s]
  ELSE IF outcome[s] = "saved" THEN "written"
  ELSE IF outcome[s] = "failed" THEN "failed" ELSE "called"
Direct == INSTANCE DirectSave WITH save <- [s \in Saves |-> Saved(s)]
NeverAGate == Direct!Spec

\* A record claims a result only for a save that said it was done, and a
\* result that was never read back stays unknown, however often a developer
\* reconciles it and whatever the definition looks like by then.
ClaimsAreBacked ==
  \A s \in Saves :
    /\ disk[s].known => outcome[s] = "saved"
    /\ disk[s].app \in {"VERIFIED", "PENDING"} => disk[s].known

\* The lock spans baseline, write and readback: the result a record claims is
\* its own save's, or that of a writer whose own record does not claim it.
ResultsAreOwn ==
  \A s \in Saves : LET author == disk[s].after.by IN
    disk[s].known /\ author \in Saves \ {s} => ~disk[author].known
===============================================================================
