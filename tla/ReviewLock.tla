------------------------------ MODULE ReviewLock ------------------------------
(***************************************************************************)
(* The single-machine storage lock of Change Review:                       *)
(* src/changeReview/store.ts, ReviewStore.exclusive and reclaimDeadOwner.  *)
(*                                                                         *)
(* Several extension hosts (operating-system processes) share one storage  *)
(* directory, and one host may run several callers (a panel click and an   *)
(* MCP request) at once.  A caller creates writer.lock exclusively and     *)
(* writes its host's pid into it.  A caller that finds the file already    *)
(* there may remove it, under the directory lock-recovery, if the pid in   *)
(* it names no running process.  Every await of the code is a step         *)
(* boundary, and a host may exit or crash at every one of them: also       *)
(* between the read of its pid and the probe, after it has given the lock  *)
(* up.  Two history variables, which no step of the code reads, record     *)
(* when that has happened.                                                 *)
(***************************************************************************)
EXTENDS Integers

CONSTANTS
  Callers,      \* concurrent calls of exclusive()
  Hosts,        \* extension host processes; a host stands for its pid
  Host,         \* Host[c]: the process that caller c runs in
  NoCaller,     \* the creator of a file that does not exist
  NoPid         \* the content of a lock file no pid was written to

ASSUME HostAssumption == Host \in [Callers -> Hosts]
ASSUME NoPidAssumption == NoPid \notin Hosts
ASSUME NoCallerAssumption == NoCaller \notin Callers

VARIABLES
  pc,        \* where each caller is
  writer,    \* writer.lock: its creator and the pid it holds
  recovery,  \* does the directory lock-recovery exist
  seen,      \* the pid a reclaimer read from writer.lock
  verdict,   \* TRUE: the reclaimer returns normally, so that its caller retries
  alive,     \* alive[h]: does process.kill(h, 0) find the process
  late,      \* history: the reclaimers whose pid was given up, and then died
  robbed     \* history: one of them took a running owner's file

vars == <<pc, writer, recovery, seen, verdict, alive, late, robbed>>

Absent == [by |-> NoCaller, pid |-> NoPid]

\* The places a caller can be: outside, before mkdir(lock-recovery), before
\* readFile(writer.lock), before kill(pid, 0), before unlink, before rmdir,
\* before the second open, before writeFile(pid), running fn, before the
\* final unlink.
Places == {"idle", "reclaim", "read", "probe", "unlink", "leave", "reopen",
           "opened", "running", "closing"}

Init ==
  /\ pc = [c \in Callers |-> "idle"]
  /\ writer = Absent
  /\ recovery = FALSE
  /\ seen = [c \in Callers |-> NoPid]
  /\ verdict = [c \in Callers |-> FALSE]
  /\ alive = [h \in Hosts |-> TRUE]
  /\ late = {}
  /\ robbed = FALSE

Goto(c, place) == pc' = [pc EXCEPT ![c] = place]
Runs(c, place) == alive[Host[c]] /\ pc[c] = place

\* open(writer.lock, 'wx') creates the file or fails with EEXIST.
Create(c) == writer' = [by |-> c, pid |-> NoPid] /\ Goto(c, "opened")

Open(c) ==
  /\ Runs(c, "idle")
  /\ \/ writer = Absent /\ Create(c)
     \/ writer # Absent /\ Goto(c, "reclaim") /\ UNCHANGED writer
  /\ UNCHANGED <<recovery, seen, verdict, alive>>

\* The second open, after a reclaim: an EEXIST now reaches the caller.
Reopen(c) ==
  /\ Runs(c, "reopen")
  /\ \/ writer = Absent /\ Create(c)
     \/ writer # Absent /\ Goto(c, "idle") /\ UNCHANGED writer
  /\ UNCHANGED <<recovery, seen, verdict, alive>>

\* Faulty: an existing lock-recovery directory is waited for.
EnterRecoveryWaits(c) ==
  /\ Runs(c, "reclaim") /\ ~recovery
  /\ Goto(c, "read")
  /\ recovery' = TRUE
  /\ UNCHANGED <<writer, seen, verdict, alive>>

\* mkdir(lock-recovery): its failure is the error "recovery in progress".
EnterRecovery(c) ==
  /\ Runs(c, "reclaim")
  /\ IF recovery THEN Goto(c, "idle") ELSE Goto(c, "read")
  /\ recovery' = TRUE
  /\ UNCHANGED <<writer, seen, verdict, alive>>

\* Faulty: a file without a pid is taken for a crash leftover.
ReadOwnerUnknownIsDead(c) ==
  /\ Runs(c, "read")
  /\ seen' = [seen EXCEPT ![c] = writer.pid]
  /\ verdict' = [verdict EXCEPT ![c] = writer = Absent]
  /\ Goto(c, IF writer = Absent THEN "leave" ELSE IF writer.pid = NoPid THEN "unlink" ELSE "probe")
  /\ UNCHANGED <<writer, recovery, alive>>

\* readFile(writer.lock): a missing file means that the lock is free, a file
\* without a pid belongs to an unknown owner and is never removed.
ReadOwner(c) ==
  /\ Runs(c, "read")
  /\ seen' = [seen EXCEPT ![c] = writer.pid]
  /\ verdict' = [verdict EXCEPT ![c] = writer = Absent]
  /\ Goto(c, IF writer.pid = NoPid THEN "leave" ELSE "probe")
  /\ UNCHANGED <<writer, recovery, alive>>

\* Faulty: the probe's answer is not looked at.
ProbeIgnored(c) ==
  /\ Runs(c, "probe")
  /\ Goto(c, "unlink")
  /\ UNCHANGED <<writer, recovery, seen, verdict, alive>>

\* process.kill(pid, 0): only ESRCH lets the reclaimer go on.
Probe(c) ==
  /\ Runs(c, "probe")
  /\ Goto(c, IF alive[seen[c]] THEN "leave" ELSE "unlink")
  /\ UNCHANGED <<writer, recovery, seen, verdict, alive>>

\* unlink(writer.lock): whatever file has that name now.
RemoveDeadLock(c) ==
  /\ Runs(c, "unlink")
  /\ writer' = Absent
  /\ verdict' = [verdict EXCEPT ![c] = writer # Absent]
  /\ Goto(c, "leave")
  /\ UNCHANGED <<recovery, seen, alive>>

\* The finally of reclaimDeadOwner, then its return or its error.
LeaveRecovery(c) ==
  /\ Runs(c, "leave")
  /\ recovery' = FALSE
  /\ seen' = [seen EXCEPT ![c] = NoPid]
  /\ verdict' = [verdict EXCEPT ![c] = FALSE]
  /\ Goto(c, IF verdict[c] THEN "reopen" ELSE "idle")
  /\ UNCHANGED <<writer, alive>>

\* Faulty: the file names the call instead of the process.
WriteCaller(c) ==
  /\ Runs(c, "opened")
  /\ writer' = IF writer.by = c THEN [by |-> c, pid |-> c] ELSE writer
  /\ Goto(c, "running")
  /\ UNCHANGED <<recovery, seen, verdict, alive>>

\* handle.writeFile(pid) and sync go to the file this caller created, which
\* may no longer be the one named writer.lock.
WritePid(c) ==
  /\ Runs(c, "opened")
  /\ writer' = IF writer.by = c THEN [by |-> c, pid |-> Host[c]] ELSE writer
  /\ Goto(c, "running")
  /\ UNCHANGED <<recovery, seen, verdict, alive>>

\* writeFile or sync fails: both stand before the try, so the file stays,
\* without a pid.
WritePidFails(c) ==
  /\ Runs(c, "opened")
  /\ Goto(c, "idle")
  /\ UNCHANGED <<writer, recovery, seen, verdict, alive>>

\* fn returns or throws, and the handle is closed.
Finish(c) ==
  /\ Runs(c, "running")
  /\ Goto(c, "closing")
  /\ UNCHANGED <<writer, recovery, seen, verdict, alive>>

\* The unlink of the finally: of the name, not of the file that was opened.
Release(c) ==
  /\ Runs(c, "closing")
  /\ writer' = Absent
  /\ Goto(c, "idle")
  /\ UNCHANGED <<recovery, seen, verdict, alive>>

\* A host exits or crashes: its callers vanish, its files stay.
Die(h) ==
  /\ alive[h]
  /\ alive' = [alive EXCEPT ![h] = FALSE]
  /\ pc' = [c \in Callers |-> IF Host[c] = h THEN "idle" ELSE pc[c]]
  /\ seen' = [c \in Callers |-> IF Host[c] = h THEN NoPid ELSE seen[c]]
  /\ verdict' = [c \in Callers |-> Host[c] # h /\ verdict[c]]
  /\ UNCHANGED <<writer, recovery>>

\* A process with this pid starts again.
Start(h) ==
  /\ ~alive[h]
  /\ alive' = [alive EXCEPT ![h] = TRUE]
  /\ UNCHANGED <<pc, writer, recovery, seen, verdict>>

\* The caller is between the creation of the lock file and its removal.
Owns(c) == pc[c] \in {"opened", "running", "closing"}

\* The exit race: the process whose pid a reclaimer has read dies when the
\* file no longer names it, because it has given the lock up meanwhile.
ExitsAfterRead(c) ==
  pc[c] = "probe" /\ alive[seen[c]] /\ ~alive'[seen[c]] /\ writer.pid # seen[c]

\* A reclaimer's unlink takes the file of a caller that is inside exclusive().
Robs(c) == pc[c] = "unlink" /\ pc'[c] = "leave" /\ \E d \in Callers : Owns(d)

\* What the history variables record of a step.  The harm of a robbery is over
\* when every call has come back.
History ==
  /\ late' = {c \in Callers : pc'[c] \in {"probe", "unlink"} /\ (c \in late \/ ExitsAfterRead(c))}
  /\ robbed' = /\ robbed \/ \E c \in late : Robs(c)
               /\ \E c \in Callers : pc'[c] # "idle"

CallerStep(c) ==
  \/ Open(c) /\ History
  \/ Reopen(c) /\ History
  \/ EnterRecovery(c) /\ History
  \/ ReadOwner(c) /\ History
  \/ Probe(c) /\ History
  \/ RemoveDeadLock(c) /\ History
  \/ LeaveRecovery(c) /\ History
  \/ WritePid(c) /\ History
  \/ WritePidFails(c) /\ History
  \/ Finish(c) /\ History
  \/ Release(c) /\ History
HostStep(h) ==
  \/ Die(h) /\ History
  \/ Start(h) /\ History

Next == (\E c \in Callers : CallerStep(c)) \/ (\E h \in Hosts : HostStep(h))

Spec == Init /\ [][Next]_vars

(***************************************************************************)
(* Fairness: an awaited file-system call returns, so that a caller which   *)
(* has entered exclusive() and whose host lives takes its next step.       *)
(* Nothing forces a call to begin, fn to take any particular time to end,  *)
(* or a host to live.                                                      *)
(***************************************************************************)
Progress(c) ==
  /\ \/ Reopen(c) \/ EnterRecovery(c) \/ ReadOwner(c) \/ Probe(c)
     \/ RemoveDeadLock(c) \/ LeaveRecovery(c) \/ WritePid(c) \/ Finish(c) \/ Release(c)
  /\ History

FairSpec == Spec /\ \A c \in Callers : WF_vars(Progress(c))

-------------------------------------------------------------------------------
(***************************************************************************)
(* Properties                                                              *)
(***************************************************************************)
TypeOK ==
  /\ pc \in [Callers -> Places]
  /\ writer \in [by : Callers \cup {NoCaller}, pid : Hosts \cup {NoPid}]
  /\ recovery \in BOOLEAN
  /\ seen \in [Callers -> Hosts \cup {NoPid}]
  /\ verdict \in [Callers -> BOOLEAN]
  /\ alive \in [Hosts -> BOOLEAN]
  /\ late \in SUBSET Callers
  /\ robbed \in BOOLEAN

Reclaiming(c) == pc[c] \in {"read", "probe", "unlink", "leave"}

\* Two callers never run inside exclusive() at once, whichever of their
\* hosts crashed, restarted or was taken for dead before, unless a late
\* reclaimer robbed an owner and the calls of that moment have not all ended.
MutualExclusion == robbed \/ \A c, d \in Callers : Owns(c) /\ Owns(d) => c = d

\* The comment of the class, "Never remove a live/unknown owner's lock", as far
\* as the code keeps it: a reclaimer removes the file of a caller that is inside
\* exclusive() only when the process whose pid it had read gave the lock up and
\* then exited, between the read and the probe.  No crash, restart, reuse of a
\* pid, half-written file or second reclaimer makes it do so.
OnlyExitRaceRobs == [][\A c \in Callers : Robs(c) => c \in late \/ robbed]_vars

\* Without the exception the code breaks the comment.
NeverRemoveLiveOwner == [][\A c \in Callers : ~Robs(c)]_vars

\* The owner's file is the one under the name writer.lock: nobody can remove
\* or replace it while its owner runs, and no later caller can open a second.
OwnerHasFile == \A c \in Callers : Owns(c) => writer.by = c

\* At most one caller judges the lock at a time, and the directory
\* lock-recovery stands while one does.
OneReclaimer ==
  \A c \in Callers : Reclaiming(c) =>
    recovery /\ \A d \in Callers : Reclaiming(d) => d = c

\* Seen from outside, exclusive() is a mutex: taking, returning from and dying
\* in it are the only changes of its holder, and it never passes from one
\* caller to another without being free in between, except that a late reclaimer
\* may break it, until every call has come back.
Holder == IF \E c \in Callers : Owns(c) THEN CHOOSE c \in Callers : Owns(c) ELSE NoCaller
Abstract == INSTANCE Mutex WITH holder <- Holder, broken <- robbed
ImplementsMutex == Abstract!Spec

\* Every entered call comes back to its caller, or its host dies: no sequence
\* of crashes and races makes a call wait for ever.  A lock that nobody can
\* reclaim is reported as an error, to every call that meets it.
EveryCallReturns == \A c \in Callers : pc[c] # "idle" ~> pc[c] = "idle"
===============================================================================
