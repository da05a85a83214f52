---------------------------- MODULE ProcessRuntime ----------------------------
(***************************************************************************)
(* Process Scheduler submissions: src/processRuntime/service.ts and the    *)
(* controller and store around it.                                         *)
(*                                                                         *)
(* Several VS Code windows, each a process that may die, share a directory *)
(* of durable run requests ("intents") under one lock that fails at once   *)
(* when it is taken; the lock of a dead window is taken over.  A request   *)
(* is prepared against a baseline that includes the last instance of the   *)
(* same process and run control, is confirmed, and is submitted once.  A   *)
(* lost answer leaves it UNCERTAIN until the developer links a native run. *)
(*                                                                         *)
(* All requests here are of one operator, process and run control: runs    *)
(* of others are told apart by matches() and cannot be confused with them. *)
(***************************************************************************)
EXTENDS Integers, FiniteSets

CONSTANTS
  Windows,     \* VS Code windows
  NoWindow,    \* nobody holds the lock
  Requests,    \* run requests that get prepared
  NoRequest,   \* a window works on none
  MaxRuns,     \* bound on the native process instances
  MaxChanges,  \* bound on changes of the definition or the run control
  MaxEnds      \* bound on the runs that end

ASSUME NoneAssumption ==
  NoWindow \notin Windows /\ {NoRequest, "native", "unborn"} \cap Requests = {}
ASSUME BoundAssumption == {MaxRuns, MaxChanges, MaxEnds} \subseteq Nat

VARIABLES
  intents,   \* the stored requests
  lock,      \* the window inside exclusive()
  pc,        \* what each window is doing
  job,       \* the request it works on
  seen,      \* what it read before its latest await: a baseline or a run
  runs,      \* native instances: who asked, and the status of the run; history:
             \* did nobody wait for the answer any more when it was accepted
  changes,   \* version of the definition and the run control
  expired,   \* requests whose five minutes are over
  calls,     \* scheduling calls the native service has not decided yet
  posts      \* history: scheduling calls sent for each request

vars == <<intents, lock, pc, job, seen, runs, changes, expired, calls, posts>>

Instances == 1 .. MaxRuns
NoInstance == 0
Last == Cardinality({n \in Instances : runs[n].by # "unborn"})
Native == 1 .. Last
NoRead == [version |-> 0, last |-> 0, instance |-> NoInstance, ended |-> FALSE]

NoIntent == [state |-> "NONE", version |-> 0, last |-> 0, instance |-> NoInstance, ended |-> FALSE]
Unresolved == {"SUBMITTING", "UNCERTAIN"}

Init ==
  /\ intents = [r \in Requests |-> NoIntent]
  /\ lock = NoWindow
  /\ pc = [w \in Windows |-> "idle"] /\ job = [w \in Windows |-> NoRequest] /\ seen = [w \in Windows |-> NoRead]
  /\ runs = [n \in Instances |-> [by |-> "unborn", ended |-> FALSE, late |-> FALSE]]
  /\ changes = 0 /\ expired = {} /\ calls = {}
  /\ posts = [r \in Requests |-> 0]

Goto(w, place, r, read) ==
  pc' = [pc EXCEPT ![w] = place] /\ job' = [job EXCEPT ![w] = r] /\ seen' = [seen EXCEPT ![w] = read]
Step(w, from, to) ==
  pc[w] = from /\ pc' = [pc EXCEPT ![w] = to] /\ UNCHANGED <<job, seen>>
Leave(w) == Goto(w, "idle", NoRequest, NoRead) /\ lock' = NoWindow
Put(r, intent) == intents' = [intents EXCEPT ![r] = intent]
Outside == UNCHANGED <<runs, changes, expired, calls, posts>>

-------------------------------------------------------------------------------
(***************************************************************************)
(* prepare: the baseline is read outside the lock, the record saved in it. *)
(***************************************************************************)
PrepareRead(w, r) ==
  /\ pc[w] = "idle" /\ intents[r] = NoIntent /\ (\A v \in Windows : job[v] # r)
  /\ Goto(w, "preparing", r, [NoRead EXCEPT !.version = changes, !.last = Last])
  /\ UNCHANGED <<intents, lock>> /\ Outside

PrepareSave(w) ==
  /\ pc[w] = "preparing" /\ lock = NoWindow
  /\ Put(job[w], [NoIntent EXCEPT !.state = "PREPARED", !.version = seen[w].version, !.last = seen[w].last])
  /\ Goto(w, "idle", NoRequest, NoRead)
  /\ UNCHANGED lock /\ Outside

-------------------------------------------------------------------------------
(***************************************************************************)
(* submit                                                                  *)
(***************************************************************************)
\* Faulty: a request whose answer was lost may be submitted again.
SubmitBeginAgain(w, r) ==
  /\ pc[w] = "idle" /\ lock = NoWindow /\ intents[r].state \in {"PREPARED", "UNCERTAIN"} /\ r \notin expired
  /\ lock' = w
  /\ Goto(w, "confirming", r, NoRead)
  /\ UNCHANGED intents /\ Outside

SubmitBegin(w, r) ==
  /\ pc[w] = "idle" /\ lock = NoWindow /\ intents[r].state = "PREPARED" /\ r \notin expired
  /\ lock' = w
  /\ Goto(w, "confirming", r, NoRead)
  /\ UNCHANGED intents /\ Outside

SubmitExpired(w, r) ==
  /\ pc[w] = "idle" /\ lock = NoWindow /\ intents[r].state = "PREPARED" /\ r \in expired
  /\ Put(r, [intents[r] EXCEPT !.state = "INVALIDATED"])
  /\ UNCHANGED <<lock, pc, job, seen>> /\ Outside

End(w, state) == Put(job[w], [intents[job[w]] EXCEPT !.state = state]) /\ Leave(w)

Decline(w) == pc[w] = "confirming" /\ End(w, "CANCELLED") /\ Outside
Agree(w) == Step(w, "confirming", "checking") /\ UNCHANGED <<intents, lock>> /\ Outside

Current(r) == intents[r].version = changes /\ intents[r].last = Last

\* The request expired, or what it was previewed against is not there any more.
Invalidate(w) ==
  /\ pc[w] \in {"checking", "checked"}
  /\ job[w] \in expired \/ (pc[w] = "checking" /\ ~Current(job[w]))
  /\ End(w, "INVALIDATED") /\ Outside

\* Faulty: only the expiry is looked at.
CheckBaselineExpiry(w) ==
  /\ Step(w, "checking", "checked")
  /\ job[w] \notin expired
  /\ UNCHANGED <<intents, lock>> /\ Outside

CheckBaseline(w) ==
  /\ Step(w, "checking", "checked")
  /\ job[w] \notin expired /\ Current(job[w])
  /\ UNCHANGED <<intents, lock>> /\ Outside

\* A gate, the approval or the discovery threw: the request stays PREPARED.
Throw(w) ==
  /\ pc[w] \in {"confirming", "checking", "checked"}
  /\ Leave(w)
  /\ UNCHANGED intents /\ Outside

\* Faulty: the submission is recorded together with its answer.
SubmittingUnsaved(w) ==
  /\ Step(w, "checked", "submitting") /\ job[w] \notin expired
  /\ UNCHANGED <<intents, lock>> /\ Outside

\* The durable point of possible submission.
Submitting(w) ==
  /\ Step(w, "checked", "submitting") /\ job[w] \notin expired
  /\ Put(job[w], [intents[job[w]] EXCEPT !.state = "SUBMITTING"])
  /\ UNCHANGED lock /\ Outside

Schedule(w) ==
  /\ Step(w, "submitting", "waiting")
  /\ calls' = calls \cup {job[w]}
  /\ posts' = [posts EXCEPT ![job[w]] = @ + 1]
  /\ UNCHANGED <<intents, lock, runs, changes, expired>>

RunOf(r) == {n \in Native : runs[n].by = r}

Answered(w) ==
  /\ pc[w] = "waiting"
  /\ \E n \in RunOf(job[w]) : Put(job[w], [intents[job[w]] EXCEPT !.state = "SUBMITTED", !.instance = n])
  /\ Leave(w) /\ Outside

\* A refusal, a timeout or a lost answer; nobody sends the call again.
Unanswered(w) ==
  /\ pc[w] = "waiting" /\ End(w, "UNCERTAIN") /\ Outside

-------------------------------------------------------------------------------
\* Faulty: an uncertain submission may be cancelled.
CancelUncertain(w, r) ==
  /\ pc[w] = "idle" /\ lock = NoWindow /\ intents[r].state \in {"PREPARED", "UNCERTAIN"}
  /\ Put(r, [intents[r] EXCEPT !.state = "CANCELLED"])
  /\ UNCHANGED <<lock, pc, job, seen>> /\ Outside

Cancel(w, r) ==
  /\ pc[w] = "idle" /\ lock = NoWindow /\ intents[r].state = "PREPARED"
  /\ Put(r, [intents[r] EXCEPT !.state = "CANCELLED"])
  /\ UNCHANGED <<lock, pc, job, seen>> /\ Outside

\* status reads the native run outside the lock and stores it inside.
StatusRead(w, r) ==
  LET n == intents[r].instance
  IN  /\ pc[w] = "idle" /\ n # NoInstance /\ n > intents[r].last
      /\ Goto(w, "refreshing", r, [NoRead EXCEPT !.instance = n, !.ended = runs[n].ended])
      /\ UNCHANGED <<intents, lock>> /\ Outside

StatusSave(w) ==
  /\ pc[w] = "refreshing" /\ lock = NoWindow /\ intents[job[w]].instance = seen[w].instance
  /\ Put(job[w], [intents[job[w]] EXCEPT !.ended = seen[w].ended])
  /\ Goto(w, "idle", NoRequest, NoRead)
  /\ UNCHANGED lock /\ Outside

\* The developer links a native run of the same process and run control.
Reconcile(w, r, n) ==
  /\ pc[w] = "idle" /\ lock = NoWindow /\ intents[r].state \in Unresolved
  /\ n \in Native /\ n > intents[r].last
  /\ Put(r, [intents[r] EXCEPT !.state = "SUBMITTED", !.instance = n, !.ended = runs[n].ended])
  /\ UNCHANGED <<lock, pc, job, seen>> /\ Outside

\* An operation outside the lock gives up: the lock is taken, or it failed.
GiveUp(w) ==
  /\ pc[w] \in {"preparing", "refreshing"}
  /\ Goto(w, "idle", NoRequest, NoRead)
  /\ UNCHANGED <<intents, lock>> /\ Outside

\* A window dies; the next one to come takes over its lock.
Crash(w) ==
  /\ pc[w] # "idle" /\ Goto(w, "idle", NoRequest, NoRead)
  /\ lock' = IF lock = w THEN NoWindow ELSE lock
  /\ UNCHANGED intents /\ Outside

-------------------------------------------------------------------------------
(***************************************************************************)
(* The native side, and the clock                                          *)
(***************************************************************************)
Born(by, late) == runs' = [runs EXCEPT ![Last + 1] = [by |-> by, ended |-> FALSE, late |-> late]]
Awaited(r) == \E w \in Windows : pc[w] = "waiting" /\ job[w] = r

Accept(r) ==
  /\ r \in calls /\ Last < MaxRuns
  /\ calls' = calls \ {r} /\ Born(r, ~Awaited(r))
  /\ UNCHANGED <<intents, lock, pc, job, seen, changes, expired, posts>>

Refuse(r) ==
  /\ r \in calls /\ calls' = calls \ {r}
  /\ UNCHANGED <<intents, lock, pc, job, seen, runs, changes, expired, posts>>

\* The operator runs the process from PeopleSoft itself.
NativeRun ==
  /\ Last < MaxRuns /\ Born("native", FALSE)
  /\ UNCHANGED <<intents, lock, pc, job, seen, changes, expired, calls, posts>>

NativeEnd(n) ==
  /\ n \in Native /\ ~runs[n].ended /\ Cardinality({i \in Native : runs[i].ended}) < MaxEnds
  /\ runs' = [runs EXCEPT ![n].ended = TRUE]
  /\ UNCHANGED <<intents, lock, pc, job, seen, changes, expired, calls, posts>>

NativeChange ==
  /\ changes < MaxChanges /\ changes' = changes + 1
  /\ UNCHANGED <<intents, lock, pc, job, seen, runs, expired, calls, posts>>

Expire(r) ==
  /\ intents[r].state = "PREPARED" /\ r \notin expired /\ expired' = expired \cup {r}
  /\ UNCHANGED <<intents, lock, pc, job, seen, runs, changes, calls, posts>>

Prepare(w) == (\E r \in Requests : PrepareRead(w, r)) \/ PrepareSave(w)
Submit(w) ==
  \/ \E r \in Requests : SubmitBegin(w, r) \/ SubmitExpired(w, r)
  \/ Decline(w) \/ Agree(w) \/ Invalidate(w) \/ CheckBaseline(w) \/ Throw(w)
  \/ Submitting(w) \/ Schedule(w) \/ Answered(w) \/ Unanswered(w)
Monitor(w) ==
  \/ \E r \in Requests : StatusRead(w, r) \/ Cancel(w, r) \/ (\E n \in Instances : Reconcile(w, r, n))
  \/ StatusSave(w) \/ GiveUp(w)
Scheduler ==
  \/ \E r \in Requests : Accept(r) \/ Refuse(r) \/ Expire(r)
  \/ NativeRun \/ NativeChange \/ (\E n \in Instances : NativeEnd(n))

Next == Scheduler \/ \E w \in Windows : Prepare(w) \/ Submit(w) \/ Monitor(w) \/ Crash(w)

Spec == Init /\ [][Next]_vars

-------------------------------------------------------------------------------
(***************************************************************************)
(* Properties                                                              *)
(***************************************************************************)
States == {"NONE", "PREPARED", "CANCELLED", "INVALIDATED", "SUBMITTING", "SUBMITTED", "UNCERTAIN"}
Places == {"idle", "preparing", "refreshing", "confirming", "checking", "checked", "submitting", "waiting"}
Submits == {"confirming", "checking", "checked", "submitting", "waiting"}
ReadType == [version : Nat, last : Nat, instance : Instances \cup {NoInstance}, ended : BOOLEAN]

\* Every variable has its type, and a window holds the lock exactly while it
\* is inside submit.
TypeOK ==
  /\ intents \in [Requests -> [state : States, version : Nat, last : Nat,
                              instance : Instances \cup {NoInstance}, ended : BOOLEAN]]
  /\ lock \in Windows \cup {NoWindow}
  /\ pc \in [Windows -> Places] /\ job \in [Windows -> Requests \cup {NoRequest}] /\ seen \in [Windows -> ReadType]
  /\ \A w \in Windows : (lock = w) = (pc[w] \in Submits)
  /\ runs \in [Instances -> [by : Requests \cup {"native", "unborn"}, ended : BOOLEAN, late : BOOLEAN]]
  /\ changes \in 0 .. MaxChanges /\ expired \subseteq Requests /\ calls \subseteq Requests
  /\ posts \in [Requests -> Nat]

\* No request is posted to the scheduler twice: not after a lost answer, a
\* crash between the durable SUBMITTING and the call or after it, a second
\* click in another window, or a reconciliation.
PostedOnce == \A r \in Requests : posts[r] <= 1

\* A request the scheduler started a run for shows as submitted, or says that
\* its outcome is open and has the run among its candidates: it never looks
\* cancelled, invalidated or still to be submitted.
Candidates(r) == {n \in Native : n > intents[r].last}
NoOrphanRun ==
  \A r \in Requests : (r \in calls \/ RunOf(r) # {}) =>
    \/ intents[r].state = "SUBMITTED"
    \/ intents[r].state \in Unresolved /\ RunOf(r) \subseteq Candidates(r)

\* Two requests that were previewed against the same state never both run,
\* unless the scheduler accepted a call its caller had given up on.
InTime(r) == \E n \in RunOf(r) : ~runs[n].late
OneRunPerPreview ==
  \A r, q \in Requests : (r # q /\ InTime(r) /\ InTime(q)) => intents[r].last # intents[q].last

Outcome == [r \in Requests |->
  [state |-> CASE intents[r].state = "NONE" -> "none"
               [] intents[r].state = "PREPARED" -> "open"
               [] intents[r].state \in {"CANCELLED", "INVALIDATED"} -> "refused"
               [] intents[r].state \in Unresolved -> "unknown"
               [] intents[r].state = "SUBMITTED" -> "known",
   run |-> intents[r].instance]]
Abstract == INSTANCE OneShot WITH outcome <- Outcome, Runs <- Instances, NoRun <- NoInstance

\* The stored request is a one-shot confirmation: refused or used once, and
\* its outcome is learned at most once and never changes.
ImplementsOneShot == Abstract!Spec
===============================================================================
