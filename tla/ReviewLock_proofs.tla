--------------------------- MODULE ReviewLock_proofs ---------------------------
(***************************************************************************)
(* Proofs about the storage lock, for any number of callers and hosts that *)
(* exit, crash and restart at any step.  The invariant says of a reclaimer *)
(* that is late only that the history variable names it, and nothing while *)
(* the harm of a robbery lasts.                                            *)
(***************************************************************************)
EXTENDS ReviewLock, TLAPS

\* A caller inside exclusive() runs in a live host.
BusyIsAlive == \A c \in Callers : pc[c] # "idle" => alive[Host[c]]

\* The file of an owner carries its host's pid or, still, none.
OwnerPid == \A c \in Callers : Owns(c) => writer.pid \in {NoPid, Host[c]}

\* A pid judged dead is still the one in the file, and nobody owns the file,
\* unless the reclaimer is late.
ProbeIsCurrent ==
  \A c \in Callers :
    pc[c] = "probe" => seen[c] \in Hosts /\ (alive[seen[c]] \/ writer.pid = seen[c] \/ c \in late)
UnlinkIsSafe ==
  \A c \in Callers :
    pc[c] = "unlink" => c \in late \/ (writer.pid \in Hosts /\ \A d \in Callers : ~Owns(d))

AbsentHasNoPid == writer.by = NoCaller => writer.pid = NoPid

Undisturbed ==
  /\ OwnerHasFile
  /\ OwnerPid
  /\ OneReclaimer
  /\ ProbeIsCurrent
  /\ UnlinkIsSafe

IInv ==
  /\ TypeOK
  /\ BusyIsAlive
  /\ AbsentHasNoPid
  /\ robbed \/ Undisturbed

\* The types hold initially.
LEMMA InitTypeOK == Init => TypeOK
<1> SUFFICES ASSUME Init PROVE TypeOK
  OBVIOUS
<1>1. pc \in [Callers -> Places]
  BY DEF Init, Places
<1>2. writer \in [by : Callers \cup {NoCaller}, pid : Hosts \cup {NoPid}]
  BY DEF Init, Absent
<1>3. recovery \in BOOLEAN /\ verdict \in [Callers -> BOOLEAN] /\ alive \in [Hosts -> BOOLEAN]
  BY Zenon DEF Init
<1>4. seen \in [Callers -> Hosts \cup {NoPid}] /\ late \in SUBSET Callers /\ robbed \in BOOLEAN
  BY DEF Init
<1> QED
  BY <1>1, <1>2, <1>3, <1>4 DEF TypeOK

\* The history variables are kept in every step.
LEMMA HistoryKept == Next => History
  BY DEF Next, CallerStep, HostStep

\* Every variable keeps its type in every behaviour of the lock.
THEOREM Typing == Spec => []TypeOK
<1>1. Init => TypeOK
  BY InitTypeOK
<1>2. TypeOK /\ [Next]_vars => TypeOK'
  <2> SUFFICES ASSUME TypeOK, [Next]_vars PROVE TypeOK'
    OBVIOUS
  <2> DEFINE Core == /\ pc \in [Callers -> Places]
                     /\ writer \in [by : Callers \cup {NoCaller}, pid : Hosts \cup {NoPid}]
                     /\ recovery \in BOOLEAN
                     /\ seen \in [Callers -> Hosts \cup {NoPid}]
                     /\ verdict \in [Callers -> BOOLEAN]
                     /\ alive \in [Hosts -> BOOLEAN]
  <2>1. Core
    BY DEF TypeOK
  <2>2. CASE Next
    <3> USE HostAssumption DEF Places, Runs, Goto
    <3>1. ASSUME NEW c \in Callers, Open(c) PROVE Core'
      BY <2>1, <3>1 DEF Open, Create
    <3>2. ASSUME NEW c \in Callers, Reopen(c) PROVE Core'
      BY <2>1, <3>2 DEF Reopen, Create
    <3>3. ASSUME NEW c \in Callers, EnterRecovery(c) PROVE Core'
      BY <2>1, <3>3 DEF EnterRecovery
    <3>4. ASSUME NEW c \in Callers, ReadOwner(c) PROVE Core'
      BY <2>1, <3>4 DEF ReadOwner, Absent
    <3>5. ASSUME NEW c \in Callers, Probe(c) PROVE Core'
      BY <2>1, <3>5 DEF Probe
    <3>6. ASSUME NEW c \in Callers, RemoveDeadLock(c) PROVE Core'
      BY <2>1, <3>6 DEF RemoveDeadLock, Absent
    <3>7. ASSUME NEW c \in Callers, LeaveRecovery(c) PROVE Core'
      BY <2>1, <3>7 DEF LeaveRecovery
    <3>8. ASSUME NEW c \in Callers, WritePid(c) PROVE Core'
      BY <2>1, <3>8 DEF WritePid
    <3>9. ASSUME NEW c \in Callers, WritePidFails(c) PROVE Core'
      BY <2>1, <3>9 DEF WritePidFails
    <3>10. ASSUME NEW c \in Callers, Finish(c) PROVE Core'
      BY <2>1, <3>10 DEF Finish
    <3>11. ASSUME NEW c \in Callers, Release(c) PROVE Core'
      BY <2>1, <3>11 DEF Release, Absent
    <3>12. ASSUME NEW h \in Hosts, Die(h) PROVE Core'
      BY <2>1, <3>12 DEF Die
    <3>13. ASSUME NEW h \in Hosts, Start(h) PROVE Core'
      BY <2>1, <3>13 DEF Start
    <3>14. Core'
      BY <2>2, <3>1, <3>2, <3>3, <3>4, <3>5, <3>6, <3>7, <3>8, <3>9, <3>10, <3>11,
         <3>12, <3>13 DEF Next, CallerStep, HostStep
    <3>15. late' \in SUBSET Callers
      BY <2>2, HistoryKept DEF History
    <3>16. robbed' \in BOOLEAN
      BY <2>2, HistoryKept, Zenon DEF History
    <3> QED
      BY <3>14, <3>15, <3>16 DEF TypeOK
  <2>3. CASE UNCHANGED vars
    BY <2>3 DEF vars, TypeOK
  <2> QED
    BY <2>2, <2>3
<1> QED
  BY <1>1, <1>2, PTL DEF Spec

\* The strengthened invariant holds initially.
LEMMA InitIInv == Init => IInv
<1> SUFFICES ASSUME Init PROVE IInv
  OBVIOUS
<1>1. TypeOK
  BY InitTypeOK
<1>2. ~robbed /\ \A c \in Callers : pc[c] = "idle"
  BY DEF Init
<1>3. AbsentHasNoPid
  BY DEF Init, Absent, AbsentHasNoPid
<1> QED
  BY <1>1, <1>2, <1>3
  DEF IInv, Undisturbed, BusyIsAlive, OwnerHasFile, OwnerPid, OneReclaimer, ProbeIsCurrent,
      UnlinkIsSafe, Owns, Reclaiming

\* What holds whether or not an owner was robbed survives every step.
LEMMA NextAlways ==
  ASSUME TypeOK, BusyIsAlive, AbsentHasNoPid, [Next]_vars PROVE BusyIsAlive' /\ AbsentHasNoPid'
<1> USE HostAssumption, NoCallerAssumption, NoPidAssumption
    DEF TypeOK, Places, Runs, Goto, BusyIsAlive, AbsentHasNoPid
<1>1. ASSUME NEW c \in Callers, Open(c) PROVE BusyIsAlive' /\ AbsentHasNoPid'
  BY <1>1 DEF Open, Create, Absent
<1>2. ASSUME NEW c \in Callers, Reopen(c) PROVE BusyIsAlive' /\ AbsentHasNoPid'
  BY <1>2 DEF Reopen, Create, Absent
<1>3. ASSUME NEW c \in Callers, EnterRecovery(c) PROVE BusyIsAlive' /\ AbsentHasNoPid'
  BY <1>3 DEF EnterRecovery
<1>4. ASSUME NEW c \in Callers, ReadOwner(c) PROVE BusyIsAlive' /\ AbsentHasNoPid'
  BY <1>4 DEF ReadOwner, Absent
<1>5. ASSUME NEW c \in Callers, Probe(c) PROVE BusyIsAlive' /\ AbsentHasNoPid'
  BY <1>5 DEF Probe
<1>6. ASSUME NEW c \in Callers, RemoveDeadLock(c) PROVE BusyIsAlive' /\ AbsentHasNoPid'
  BY <1>6 DEF RemoveDeadLock, Absent
<1>7. ASSUME NEW c \in Callers, LeaveRecovery(c) PROVE BusyIsAlive' /\ AbsentHasNoPid'
  BY <1>7 DEF LeaveRecovery
<1>8. ASSUME NEW c \in Callers, WritePid(c) PROVE BusyIsAlive' /\ AbsentHasNoPid'
  BY <1>8 DEF WritePid
<1>9. ASSUME NEW c \in Callers, WritePidFails(c) PROVE BusyIsAlive' /\ AbsentHasNoPid'
  BY <1>9 DEF WritePidFails
<1>10. ASSUME NEW c \in Callers, Finish(c) PROVE BusyIsAlive' /\ AbsentHasNoPid'
  BY <1>10 DEF Finish
<1>11. ASSUME NEW c \in Callers, Release(c) PROVE BusyIsAlive' /\ AbsentHasNoPid'
  BY <1>11 DEF Release, Absent
<1>12. ASSUME NEW h \in Hosts, Die(h) PROVE BusyIsAlive' /\ AbsentHasNoPid'
  BY <1>12 DEF Die
<1>13. ASSUME NEW h \in Hosts, Start(h) PROVE BusyIsAlive' /\ AbsentHasNoPid'
  BY <1>13 DEF Start
<1>14. CASE UNCHANGED vars
  BY <1>14 DEF vars
<1> QED
  BY <1>1, <1>2, <1>3, <1>4, <1>5, <1>6, <1>7, <1>8, <1>9, <1>10, <1>11,
     <1>12, <1>13, <1>14 DEF Next, CallerStep, HostStep

\* When every call has come back, the lock is in order again.
LEMMA IdleIsUndisturbed == ASSUME \A c \in Callers : pc'[c] = "idle" PROVE Undisturbed'
  BY DEF Undisturbed, OwnerHasFile, OwnerPid, OneReclaimer, ProbeIsCurrent, UnlinkIsSafe, Owns, Reclaiming

\* A step that robs nobody leaves an undisturbed lock undisturbed: a process
\* that exits while a reclaimer holds a pid the file no longer names makes that
\* reclaimer late.
LEMMA NextUndisturbed ==
  ASSUME TypeOK, TypeOK', BusyIsAlive, AbsentHasNoPid, Undisturbed, Next, ~robbed'
  PROVE  Undisturbed' \/ \A c \in Callers : pc'[c] = "idle"
<1> SUFFICES ASSUME NEW d \in Callers, pc'[d] # "idle" PROVE Undisturbed'
  OBVIOUS
<1>l. \A c \in Callers : c \in late' <=> pc'[c] \in {"probe", "unlink"} /\ (c \in late \/ ExitsAfterRead(c))
  BY HistoryKept DEF History
<1>r. \A c \in Callers : c \in late /\ pc[c] = "unlink" /\ pc'[c] = "leave" => \A e \in Callers : ~Owns(e)
  BY HistoryKept DEF History, Robs
<1> USE HostAssumption, NoCallerAssumption, NoPidAssumption
    DEF TypeOK, Places, Runs, Goto, BusyIsAlive, OwnerHasFile, OwnerPid, Undisturbed,
        OneReclaimer, ProbeIsCurrent, UnlinkIsSafe, AbsentHasNoPid, Owns, Reclaiming
<1>1. ASSUME NEW c \in Callers, Open(c) PROVE Undisturbed'
  BY <1>l, <1>r, <1>1 DEF Open, Create, Absent
<1>2. ASSUME NEW c \in Callers, Reopen(c) PROVE Undisturbed'
  BY <1>l, <1>r, <1>2 DEF Reopen, Create, Absent
<1>3. ASSUME NEW c \in Callers, EnterRecovery(c) PROVE Undisturbed'
  BY <1>l, <1>r, <1>3 DEF EnterRecovery
<1>4. ASSUME NEW c \in Callers, ReadOwner(c) PROVE Undisturbed'
  BY <1>l, <1>r, <1>4 DEF ReadOwner, Absent
<1>5. ASSUME NEW c \in Callers, Probe(c) PROVE Undisturbed'
  BY <1>l, <1>r, <1>5 DEF Probe
<1>6. ASSUME NEW c \in Callers, RemoveDeadLock(c) PROVE Undisturbed'
  BY <1>l, <1>r, <1>6 DEF RemoveDeadLock, Absent
<1>7. ASSUME NEW c \in Callers, LeaveRecovery(c) PROVE Undisturbed'
  BY <1>l, <1>r, <1>7 DEF LeaveRecovery
<1>8. ASSUME NEW c \in Callers, WritePid(c) PROVE Undisturbed'
  BY <1>l, <1>r, <1>8 DEF WritePid
<1>9. ASSUME NEW c \in Callers, WritePidFails(c) PROVE Undisturbed'
  BY <1>l, <1>r, <1>9 DEF WritePidFails
<1>10. ASSUME NEW c \in Callers, Finish(c) PROVE Undisturbed'
  BY <1>l, <1>r, <1>10 DEF Finish
<1>11. ASSUME NEW c \in Callers, Release(c) PROVE Undisturbed'
  BY <1>l, <1>r, <1>11 DEF Release, Absent
<1>12. ASSUME NEW h \in Hosts, Die(h) PROVE Undisturbed'
  BY <1>l, <1>12 DEF Die, ExitsAfterRead
<1>13. ASSUME NEW h \in Hosts, Start(h) PROVE Undisturbed'
  BY <1>l, <1>13 DEF Start
<1> QED
  BY <1>1, <1>2, <1>3, <1>4, <1>5, <1>6, <1>7, <1>8, <1>9, <1>10, <1>11,
     <1>12, <1>13 DEF Next, CallerStep, HostStep

\* The strengthened invariant survives every step.
LEMMA NextIInv == ASSUME IInv, TypeOK', [Next]_vars PROVE IInv'
<1>1. BusyIsAlive' /\ AbsentHasNoPid'
  BY NextAlways DEF IInv
<1>2. CASE Next
  <2>1. CASE robbed /\ ~robbed'
    <3>1. \A c \in Callers : pc'[c] = "idle"
      BY <1>2, <2>1, HistoryKept DEF History
    <3> QED
      BY <3>1, <1>1, IdleIsUndisturbed DEF IInv
  <2>2. CASE ~robbed /\ ~robbed'
    <3>1. Undisturbed' \/ \A c \in Callers : pc'[c] = "idle"
      BY <1>2, <2>2, NextUndisturbed DEF IInv
    <3> QED
      BY <3>1, <1>1, IdleIsUndisturbed DEF IInv
  <2>3. CASE robbed'
    BY <1>1, <2>3 DEF IInv
  <2> QED
    BY <2>1, <2>2, <2>3
<1>3. CASE UNCHANGED vars
  BY <1>3, <1>1 DEF vars, IInv, Undisturbed, OwnerHasFile, OwnerPid, OneReclaimer,
                    ProbeIsCurrent, UnlinkIsSafe, Owns, Reclaiming
<1> QED
  BY <1>2, <1>3

\* The strengthened invariant holds in every behaviour.
LEMMA Inductive == Spec => []IInv
<1>1. Init => IInv
  BY InitIInv
<1>2. IInv /\ TypeOK' /\ [Next]_vars => IInv'
  BY NextIInv
<1> QED
  BY <1>1, <1>2, Typing, PTL DEF Spec

\* No two callers own the storage at once, for any number of callers and
\* hosts and any exits, crashes and restarts, until a late reclaimer robs an
\* owner, and again from the moment every call has come back.
THEOREM MutualExclusionHolds == Spec => []MutualExclusion
<1>1. IInv => MutualExclusion
  BY NoCallerAssumption DEF IInv, Undisturbed, OwnerHasFile, MutualExclusion
<1> QED
  BY <1>1, Inductive, PTL

\* A reclaimer's unlink takes away the file of a caller inside exclusive() only
\* if the process whose pid it read gave the lock up and then exited.
THEOREM OnlyExitRaceRobsHolds == Spec => OnlyExitRaceRobs
<1> DEFINE Safe == \A c \in Callers : Robs(c) => c \in late \/ robbed
<1>1. IInv => Safe
  BY DEF IInv, Undisturbed, UnlinkIsSafe, Robs
<1>2. IInv /\ [Next]_vars => [Safe]_vars
  BY <1>1
<1> QED
  BY <1>2, Inductive, PTL DEF Spec, OnlyExitRaceRobs

\* Only a free lock gets a new owner.
LEMMA NewOwnerFindsItFree ==
  ASSUME IInv, ~robbed, [Next]_vars, NEW e \in Callers, Owns(e)'
  PROVE  Owns(e) \/ \A d \in Callers : ~Owns(d)
<1> USE DEF IInv, Undisturbed, TypeOK, Runs, Goto, Owns
<1>1. ASSUME NEW c \in Callers, Open(c) \/ Reopen(c) PROVE Owns(e) \/ \A d \in Callers : ~Owns(d)
  BY <1>1, NoCallerAssumption DEF Open, Reopen, Create, Absent, OwnerHasFile
<1>2. ASSUME NEW c \in Callers, CallerStep(c), ~Open(c), ~Reopen(c) PROVE Owns(e)
  BY <1>2 DEF CallerStep, EnterRecovery, ReadOwner, Probe, RemoveDeadLock, LeaveRecovery,
              WritePid, WritePidFails, Finish, Release
<1>3. ASSUME NEW h \in Hosts, Die(h) \/ Start(h) PROVE Owns(e)
  BY <1>3 DEF Die, Start
<1>4. CASE UNCHANGED vars
  BY <1>4 DEF vars
<1> QED
  BY <1>1, <1>2, <1>3, <1>4 DEF Next, HostStep

\* A robbery happens while somebody owns the lock, and changes no owner.
LEMMA RobberyKeepsOwners ==
  ASSUME IInv, ~robbed, robbed', [Next]_vars
  PROVE  (\E d \in Callers : Owns(d)) /\ \A d \in Callers : Owns(d)' <=> Owns(d)
<1>1. Next
  BY DEF vars
<1>2. PICK c \in late : Robs(c)
  BY <1>1, HistoryKept DEF History
<1>3. c \in Callers /\ pc[c] = "unlink" /\ pc'[c] = "leave"
  BY <1>2 DEF IInv, TypeOK, Robs
<1> USE <1>3, HostAssumption DEF IInv, TypeOK, Goto, Runs, Owns
<1>4. ASSUME NEW d \in Callers, CallerStep(d) PROVE RemoveDeadLock(c)
  BY <1>4 DEF CallerStep, Open, Reopen, Create, EnterRecovery, ReadOwner, Probe, RemoveDeadLock,
              LeaveRecovery, WritePid, WritePidFails, Finish, Release
<1>5. ASSUME NEW h \in Hosts, Die(h) \/ Start(h) PROVE FALSE
  BY <1>5 DEF Die, Start
<1>6. RemoveDeadLock(c)
  BY <1>1, <1>4, <1>5 DEF Next, HostStep
<1> QED
  BY <1>2, <1>6 DEF RemoveDeadLock, Robs

\* exclusive() is a mutex that a late reclaimer may break: every step of the
\* callers and of their hosts is a step of Mutex or leaves it alone.
THEOREM ImplementsMutexHolds == Spec => ImplementsMutex
<1>1. Init => Abstract!Init
  BY DEF Init, Abstract!Init, Holder, Owns
<1>2. IInv => MutualExclusion
  BY NoCallerAssumption DEF IInv, Undisturbed, OwnerHasFile, MutualExclusion
<1>3. IInv /\ IInv' /\ [Next]_vars => [Abstract!Next]_<<Holder, robbed>>
  <2> SUFFICES ASSUME IInv, IInv', [Next]_vars PROVE [Abstract!Next]_<<Holder, robbed>>
    OBVIOUS
  <2>t. robbed \in BOOLEAN /\ robbed' \in BOOLEAN
    BY DEF IInv, TypeOK
  <2>1. ~robbed => \A c \in Callers : Owns(c) => Holder = c
    BY <1>2 DEF Holder, MutualExclusion
  <2>2. MutualExclusion'
    BY NoCallerAssumption DEF IInv, Undisturbed, OwnerHasFile, MutualExclusion
  <2>3. ~robbed' => \A c \in Callers : Owns(c)' => Holder' = c
    BY <2>2 DEF Holder, MutualExclusion
  <2>4. (\A c \in Callers : ~Owns(c)) => Holder = NoCaller
    BY DEF Holder
  <2>5. (\A c \in Callers : ~Owns(c)') => Holder' = NoCaller
    BY DEF Holder
  <2>6. ASSUME ~robbed, ~robbed', NEW e \in Callers, Owns(e)' PROVE [Abstract!Next]_<<Holder, robbed>>
    <3>1. CASE Owns(e)
      BY <2>6, <3>1, <2>1, <2>3, <2>t
    <3>2. CASE \A d \in Callers : ~Owns(d)
      <4>1. Holder = NoCaller /\ Holder' = e
        BY <2>6, <3>2, <2>3, <2>4
      <4> QED
        BY <4>1, <2>6 DEF Abstract!Next, Abstract!Acquire
    <3> QED
      BY <2>6, <3>1, <3>2, NewOwnerFindsItFree
  <2>7. ASSUME ~robbed, ~robbed', \A e \in Callers : ~Owns(e)' PROVE [Abstract!Next]_<<Holder, robbed>>
    <3>1. CASE \A d \in Callers : ~Owns(d)
      BY <2>7, <3>1, <2>4, <2>5, <2>t
    <3>2. ASSUME NEW d \in Callers, Owns(d) PROVE [Abstract!Next]_<<Holder, robbed>>
      <4>1. Holder # NoCaller /\ Holder' = NoCaller
        BY <2>7, <3>2, <2>1, <2>5, NoCallerAssumption
      <4> QED
        BY <4>1, <2>7 DEF Abstract!Next, Abstract!GiveUp
    <3> QED
      BY <3>1, <3>2
  <2>8. CASE ~robbed /\ robbed'
    <3>1. PICK d \in Callers : Owns(d)
      BY <2>8, RobberyKeepsOwners
    <3>2. Holder = d
      BY <2>8, <3>1, <2>1
    <3>3. \A c \in Callers : Owns(c)' <=> Owns(c)
      BY <2>8, RobberyKeepsOwners
    <3>4. \A c \in Callers : Owns(c)' <=> c = d
      BY <3>1, <3>3, <2>8, <1>2 DEF MutualExclusion
    <3>5. Holder' = d
      BY <3>4 DEF Holder
    <3> QED
      BY <2>8, <3>2, <3>5, NoCallerAssumption DEF Abstract!Next, Abstract!Break
  <2>9. CASE robbed /\ robbed'
    BY <2>9 DEF Abstract!Next, Abstract!WhileBroken
  <2>10. CASE robbed /\ ~robbed'
    <3>1. Next
      BY <2>10 DEF vars
    <3>2. \A c \in Callers : ~Owns(c)'
      BY <2>10, <3>1, HistoryKept DEF History, Owns
    <3> QED
      BY <2>10, <3>2, <2>5 DEF Abstract!Next, Abstract!Mend
  <2> QED
    BY <2>6, <2>7, <2>8, <2>9, <2>10
<1> QED
  BY <1>1, <1>3, Inductive, PTL DEF Spec, ImplementsMutex, Abstract!Spec
===============================================================================
