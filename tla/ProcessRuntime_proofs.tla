------------------------- MODULE ProcessRuntime_proofs -------------------------
(***************************************************************************)
(* Proofs about Process Scheduler submissions, for any number of windows,  *)
(* requests, native instances and changes.                                 *)
(***************************************************************************)
EXTENDS ProcessRuntime, FiniteSetTheorems, TLAPS

-------------------------------------------------------------------------------
(***************************************************************************)
(* The inductive invariant                                                 *)
(***************************************************************************)
\* Native instances are numbered without gaps.
Ordered == \A n \in Instances : runs[n].by # "unborn" <=> n <= Last

\* A request in one of these states has not reached the scheduler.
Untouched == {"NONE", "PREPARED", "CANCELLED", "INVALIDATED"}

\* What the record of a request says agrees with what was sent and started.
RequestOk(r) ==
  /\ intents[r].last <= Last
  /\ intents[r].instance # NoInstance => intents[r].state = "SUBMITTED"
  /\ intents[r].state \in Untouched => posts[r] = 0 /\ r \notin calls /\ RunOf(r) = {}
  /\ \A n \in RunOf(r) : n > intents[r].last
  /\ posts[r] <= 1

\* No other request that was previewed against the same state ran in time.
Alone(q) == \A r \in Requests \ {q} : InTime(r) => intents[r].last # intents[q].last

\* Where a window is determines what its request's record says.
WindowOk(w) ==
  /\ pc[w] # "idle" => job[w] \in Requests
  /\ pc[w] = "preparing" =>
       /\ intents[job[w]] = NoIntent /\ seen[w].last <= Last
       /\ \A v \in Windows \ {w} : job[v] # job[w]
  /\ pc[w] = "refreshing" => seen[w].instance # NoInstance
  /\ pc[w] \in {"confirming", "checking", "checked"} => intents[job[w]].state = "PREPARED"
  /\ pc[w] = "submitting" => intents[job[w]].state = "SUBMITTING" /\ posts[job[w]] = 0
  /\ pc[w] = "waiting" => intents[job[w]].state = "SUBMITTING"
  /\ pc[w] \in {"checked", "submitting", "waiting"} => Alone(job[w])

IInv ==
  /\ TypeOK
  /\ Ordered
  /\ \A r \in Requests : RequestOk(r)
  /\ \A w \in Windows : WindowOk(w)
  /\ OneRunPerPreview

-------------------------------------------------------------------------------
(***************************************************************************)
(* The numbers of native instances                                         *)
(***************************************************************************)
LEMMA LastType ==
  ASSUME TypeOK
  PROVE  /\ MaxRuns \in Nat /\ Last \in Nat /\ Last <= MaxRuns
         /\ Native \subseteq Instances
         /\ IsFiniteSet({n \in Instances : runs[n].by # "unborn"})
<1>1. MaxRuns \in Nat
  BY BoundAssumption
<1>2. IsFiniteSet(Instances) /\ Cardinality(Instances) = MaxRuns
  BY <1>1, FS_Interval DEF Instances
<1>3. {n \in Instances : runs[n].by # "unborn"} \in SUBSET Instances
  OBVIOUS
<1>4. /\ IsFiniteSet({n \in Instances : runs[n].by # "unborn"})
      /\ Last <= MaxRuns
  BY <1>2, <1>3, FS_Subset DEF Last
<1>5. Last \in Nat
  BY <1>4, FS_CardinalityType DEF Last
<1> QED
  BY <1>1, <1>4, <1>5 DEF Native, Instances

LEMMA NextNumber ==
  ASSUME NEW k \in Nat, NEW m \in Nat, k < m
  PROVE  /\ 1 .. (k + 1) = (1 .. k) \cup {k + 1} /\ k + 1 \notin 1 .. k
         /\ 1 .. k \subseteq 1 .. m /\ k + 1 \in 1 .. m
<1>1. \A n : n \in 1 .. (k + 1) <=> n \in (1 .. k) \cup {k + 1}
  OBVIOUS
<1> QED
  BY <1>1

\* A new run has the next number, and everybody else's runs stay.
LEMMA BornStep ==
  ASSUME TypeOK, Ordered, Last < MaxRuns,
         NEW by \in Requests \cup {"native"}, NEW late \in BOOLEAN, Born(by, late)
  PROVE  /\ runs' \in [Instances -> [by : Requests \cup {"native", "unborn"}, ended : BOOLEAN, late : BOOLEAN]]
         /\ Last' = Last + 1 /\ Ordered'
         /\ \A r \in Requests : RunOf(r)' = IF r = by THEN RunOf(r) \cup {Last + 1} ELSE RunOf(r)
         /\ \A r \in Requests : InTime(r)' => InTime(r) \/ (r = by /\ ~late)
<1> DEFINE Alive == {n \in Instances : runs[n].by # "unborn"}
           new == Last + 1
<1>1. /\ Last \in Nat /\ MaxRuns \in Nat /\ Last = Cardinality(Alive) /\ IsFiniteSet(Alive)
      /\ new \in Instances /\ Native \cup {new} = 1 .. new
      /\ new \notin Native /\ Native \subseteq Instances
  BY LastType, NextNumber DEF Last, Instances, Native
<1>2. runs' = [runs EXCEPT ![new] = [by |-> by, ended |-> FALSE, late |-> late]]
  BY DEF Born
<1>3. by # "unborn"
  BY NoneAssumption
<1>4. /\ runs' \in [Instances -> [by : Requests \cup {"native", "unborn"}, ended : BOOLEAN, late : BOOLEAN]]
      /\ runs'[new] = [by |-> by, ended |-> FALSE, late |-> late]
      /\ \A n \in Instances \ {new} : runs'[n] = runs[n]
  BY <1>1, <1>2 DEF TypeOK
<1>5. new \notin Alive
  <2>1. ~(new <= Last)
    BY <1>1
  <2> QED
    BY <1>1, <2>1 DEF Ordered
<1>6. {n \in Instances : runs'[n].by # "unborn"} = Alive \cup {new}
  <2>1. by # "unborn" /\ runs'[new].by = by
    BY <1>3, <1>4
  <2> HIDE DEF new
  <2> QED
    BY <1>1, <1>4, <2>1
<1>7. Last' = Last + 1
  BY <1>1, <1>5, <1>6, FS_AddElement DEF Last
<1>8. Ordered'
  <2> SUFFICES ASSUME NEW n \in Instances PROVE runs'[n].by # "unborn" <=> n <= Last + 1
    BY <1>7 DEF Ordered, Instances
  <2>1. CASE n = new
    BY <2>1, <1>1, <1>3, <1>4
  <2>2. CASE n # new
    <3>1. n \in Nat
      BY <1>1 DEF Instances
    <3>2. runs[n].by # "unborn" <=> n <= Last
      BY DEF Ordered
    <3> QED
      BY <2>2, <3>1, <3>2, <1>1, <1>4
  <2> QED
    BY <2>1, <2>2
<1>9. ASSUME NEW r \in Requests
      PROVE  RunOf(r)' = IF r = by THEN RunOf(r) \cup {new} ELSE RunOf(r)
  <2>1. Native' = Native \cup {new}
    BY <1>1, <1>7 DEF Native
  <2>2. runs'[new].by = by
    BY <1>4
  <2> HIDE DEF new
  <2> QED
    BY <1>1, <1>4, <2>1, <2>2 DEF RunOf
<1>10. ASSUME NEW r \in Requests, InTime(r)'
       PROVE  InTime(r) \/ (r = by /\ ~late)
  <2>1. PICK n \in RunOf(r)' : ~runs'[n].late
    BY <1>10 DEF InTime
  <2>2. RunOf(r) \subseteq Instances /\ new \notin RunOf(r)
    BY <1>1 DEF RunOf
  <2>3. CASE n = new
    BY <1>4, <1>9, <2>1, <2>2, <2>3
  <2>4. CASE n # new
    BY <1>4, <1>9, <2>1, <2>2, <2>4 DEF InTime
  <2> QED
    BY <2>3, <2>4
<1> QED
  BY <1>4, <1>7, <1>8, <1>9, <1>10

\* Without a step of the scheduler its runs are the same.
LEMMA SameRuns ==
  ASSUME runs' = runs
  PROVE  /\ Last' = Last /\ Native' = Native
         /\ \A r : RunOf(r)' = RunOf(r) /\ InTime(r)' = InTime(r)
  BY DEF Last, Native, RunOf, InTime

-------------------------------------------------------------------------------
(***************************************************************************)
(* A step of a window                                                      *)
(***************************************************************************)
IntentType ==
  [state : States, version : Nat, last : Nat, instance : Instances \cup {NoInstance}, ended : BOOLEAN]

\* The window goes somewhere, for a request that no window is preparing, and
\* has the lock exactly if it goes on inside submit.
Moved(w) ==
  \E p \in Places, q \in Requests \cup {NoRequest}, read \in ReadType :
    /\ Goto(w, p, q, read)
    /\ q \in Requests => q = job[w] \/ intents[q] # NoIntent \/ (\A v \in Windows : job[v] # q)
    /\ p \in Submits => lock \in {w, NoWindow} /\ lock' = w
    /\ p \notin Submits => lock' = IF lock = w THEN NoWindow ELSE lock

\* What may be stored: a baseline once, a result only with SUBMITTED, and
\* nothing that was sent counts as untouched again.
Recorded(r, intent) ==
  /\ intent.last = intents[r].last \/ (intents[r].state = "NONE" /\ intent.last <= Last)
  /\ intent.instance # NoInstance => intent.state = "SUBMITTED"
  /\ intent.state \in Untouched => intents[r].state \in Untouched

\* Records are stored inside the lock, and new ones by whoever prepares them.
Stored(w) ==
  \/ UNCHANGED intents
  \/ \E r \in Requests, intent \in IntentType :
       /\ Put(r, intent) /\ Recorded(r, intent)
       /\ lock \in {w, NoWindow}
       /\ intents[r] # NoIntent \/ (pc[w] = "preparing" /\ r = job[w])

Calm == UNCHANGED <<runs, changes, expired>>

LEMMA MovedTo ==
  ASSUME TypeOK, NEW w \in Windows, NEW p \in Places, NEW q \in Requests \cup {NoRequest}, NEW read \in ReadType,
         Goto(w, p, q, read)
  PROVE  /\ pc' \in [Windows -> Places] /\ job' \in [Windows -> Requests \cup {NoRequest}] /\ seen' \in [Windows -> ReadType]
         /\ pc'[w] = p /\ job'[w] = q /\ seen'[w] = read
         /\ \A v \in Windows \ {w} : pc'[v] = pc[v] /\ job'[v] = job[v] /\ seen'[v] = seen[v]
  BY DEF TypeOK, Goto

LEMMA PutTo ==
  ASSUME TypeOK, NEW r \in Requests, NEW intent \in IntentType, Put(r, intent)
  PROVE  /\ intents' \in [Requests -> IntentType] /\ intents'[r] = intent
         /\ \A q \in Requests \ {r} : intents'[q] = intents[q]
  BY DEF TypeOK, Put, IntentType

LEMMA MoveTyped ==
  ASSUME TypeOK, NEW w \in Windows, Moved(w), Stored(w), Calm,
         calls' \subseteq Requests, posts' \in [Requests -> Nat]
  PROVE  TypeOK'
<1>1. PICK p \in Places, q \in Requests \cup {NoRequest}, read \in ReadType :
        /\ Goto(w, p, q, read)
        /\ p \in Submits => lock \in {w, NoWindow} /\ lock' = w
        /\ p \notin Submits => lock' = IF lock = w THEN NoWindow ELSE lock
  BY DEF Moved
<1>2. intents' \in [Requests -> IntentType]
  BY PutTo DEF Stored, TypeOK, IntentType
<1>3. /\ pc' \in [Windows -> Places] /\ job' \in [Windows -> Requests \cup {NoRequest}] /\ seen' \in [Windows -> ReadType]
      /\ pc'[w] = p /\ \A v \in Windows \ {w} : pc'[v] = pc[v]
  BY <1>1, MovedTo
<1>4. lock' \in Windows \cup {NoWindow}
  BY <1>1 DEF TypeOK
<1>5. ASSUME NEW v \in Windows PROVE (lock' = v) = (pc'[v] \in Submits)
  <2>1. (lock = v) = (pc[v] \in Submits)
    BY DEF TypeOK
  <2>2. (lock = w) = (pc[w] \in Submits)
    BY DEF TypeOK
  <2>3. v # NoWindow /\ w # NoWindow
    BY NoneAssumption
  <2> QED
    BY <1>1, <1>3, <2>1, <2>2, <2>3
<1> QED
  BY <1>2, <1>3, <1>4, <1>5 DEF TypeOK, IntentType, Calm

\* Records stay right, whatever a window may store.
LEMMA MoveRequests ==
  ASSUME IInv, NEW w \in Windows, Stored(w), Calm, UNCHANGED <<calls, posts>>
  PROVE  (\A r \in Requests : RequestOk(r)') /\ OneRunPerPreview'
<1>1. /\ Last' = Last
      /\ \A r : RunOf(r)' = RunOf(r) /\ InTime(r)' = InTime(r)
  BY SameRuns DEF Calm
<1>2. CASE UNCHANGED intents
  BY <1>1, <1>2 DEF IInv, RequestOk, OneRunPerPreview
<1>3. ASSUME NEW r \in Requests, NEW intent \in IntentType, Put(r, intent), Recorded(r, intent)
      PROVE  (\A q \in Requests : RequestOk(q)') /\ OneRunPerPreview'
  <2>1. intents'[r] = intent /\ \A q \in Requests \ {r} : intents'[q] = intents[q]
    BY <1>3, PutTo DEF IInv
  <2>2. intent.last = intents[r].last \/ (RunOf(r) = {} /\ ~InTime(r) /\ intent.last <= Last)
    BY <1>3 DEF IInv, RequestOk, Recorded, Untouched, InTime
  <2>3. ASSUME NEW q \in Requests PROVE RequestOk(q)'
    <3>1. RequestOk(q)
      BY DEF IInv
    <3>2. CASE q # r
      BY <1>1, <2>1, <3>1, <3>2 DEF RequestOk
    <3>3. CASE q = r
      BY <1>1, <1>3, <2>1, <2>2, <3>1, <3>3 DEF RequestOk, Recorded
    <3> QED
      BY <3>2, <3>3
  <2>4. OneRunPerPreview'
    <3> SUFFICES ASSUME NEW p \in Requests, NEW q \in Requests, p # q, InTime(p), InTime(q)
                 PROVE  intents'[p].last # intents'[q].last
      BY <1>1 DEF OneRunPerPreview
    <3>1. intents'[p].last = intents[p].last /\ intents'[q].last = intents[q].last
      BY <2>1, <2>2
    <3> QED
      BY <3>1 DEF IInv, OneRunPerPreview
  <2> QED
    BY <2>3, <2>4
<1> QED
  BY <1>2, <1>3 DEF Stored

\* Other windows are where they were: those inside submit have the lock, and
\* nobody else stores a request that is being prepared.
LEMMA MoveOthers ==
  ASSUME IInv, NEW w \in Windows, Moved(w), Stored(w), Calm, UNCHANGED posts,
         NEW v \in Windows \ {w}
  PROVE  WindowOk(v)'
<1>1. PICK p \in Places, q \in Requests \cup {NoRequest}, read \in ReadType :
        /\ Goto(w, p, q, read)
        /\ q \in Requests => q = job[w] \/ intents[q] # NoIntent \/ (\A u \in Windows : job[u] # q)
        /\ p \in Submits => lock \in {w, NoWindow} /\ lock' = w
  BY DEF Moved
<1>2. /\ job'[w] = q
      /\ \A u \in Windows \ {w} : pc'[u] = pc[u] /\ job'[u] = job[u] /\ seen'[u] = seen[u]
  BY <1>1, MovedTo DEF IInv
<1>3. Last' = Last /\ \A r : InTime(r)' = InTime(r)
  BY SameRuns DEF Calm
<1>4. WindowOk(v)
  BY DEF IInv
<1>5. pc[v] = "preparing" => \A u \in Windows \ {v} : job'[u] # job[v]
  <2> SUFFICES ASSUME pc[v] = "preparing", NEW u \in Windows \ {v} PROVE job'[u] # job[v]
    OBVIOUS
  <2>1. job[v] \in Requests /\ intents[job[v]] = NoIntent /\ job[u] # job[v] /\ NoRequest \notin Requests
    BY <1>4, NoneAssumption DEF WindowOk
  <2>2. CASE u # w
    BY <1>2, <2>1, <2>2
  <2>3. CASE u = w
    BY <1>1, <1>2, <2>1, <2>3
  <2> QED
    BY <2>2, <2>3
<1>6. CASE UNCHANGED intents
  BY <1>2, <1>3, <1>4, <1>5, <1>6 DEF WindowOk, Alone
<1>7. ASSUME NEW r \in Requests, NEW intent \in IntentType,
             Put(r, intent), lock \in {w, NoWindow},
             intents[r] # NoIntent \/ (pc[w] = "preparing" /\ r = job[w])
      PROVE  WindowOk(v)'
  <2>1. intents'[r] = intent /\ \A u \in Requests \ {r} : intents'[u] = intents[u]
    BY <1>7, PutTo DEF IInv
  <2>2. pc[v] \notin Submits
    BY <1>7, NoneAssumption DEF IInv, TypeOK
  <2>3. pc[v] = "preparing" => r # job[v]
    BY <1>4, <1>7 DEF WindowOk
  <2> QED
    BY <1>2, <1>3, <1>4, <1>5, <2>1, <2>2, <2>3 DEF WindowOk, Submits
<1> QED
  BY <1>6, <1>7 DEF Stored

\* So only the window itself has to be looked at.
LEMMA MoveInductive ==
  ASSUME IInv, NEW w \in Windows, Moved(w), Stored(w), Outside, WindowOk(w)'
  PROVE  IInv'
<1>1. Calm /\ UNCHANGED <<calls, posts>>
  BY DEF Outside, Calm
<1>2. TypeOK'
  BY <1>1, MoveTyped DEF IInv, TypeOK
<1>3. Ordered'
  BY <1>1, SameRuns DEF IInv, Ordered, Calm
<1> QED
  BY <1>1, <1>2, <1>3, MoveRequests, MoveOthers DEF IInv

-------------------------------------------------------------------------------
(***************************************************************************)
(* The actions of a window                                                 *)
(***************************************************************************)
\* The window stays where it is.
LEMMA Stay ==
  ASSUME IInv, NEW w \in Windows, UNCHANGED <<lock, pc, job, seen>>
  PROVE  Moved(w)
<1>1. TypeOK
  BY DEF IInv
<1>2. /\ pc[w] \in Places /\ job[w] \in Requests \cup {NoRequest} /\ seen[w] \in ReadType
      /\ Goto(w, pc[w], job[w], seen[w])
  BY <1>1 DEF TypeOK, Goto
<1>3. (lock = w) = (pc[w] \in Submits)
  BY <1>1 DEF TypeOK
<1> QED
  BY <1>2, <1>3 DEF Moved

\* It goes on with its request inside submit.
LEMMA Advance ==
  ASSUME IInv, NEW w \in Windows, NEW from \in Submits, NEW to \in Submits, Step(w, from, to), UNCHANGED lock
  PROVE  /\ Moved(w) /\ pc[w] = from /\ pc'[w] = to /\ job'[w] = job[w] /\ job[w] \in Requests /\ lock = w
<1>1. TypeOK /\ WindowOk(w)
  BY DEF IInv
<1>2. pc[w] = from /\ from # "idle" /\ lock = w
  BY <1>1 DEF Step, TypeOK, Submits
<1>3. job[w] \in Requests
  BY <1>1, <1>2 DEF WindowOk
<1>4. /\ to \in Places /\ seen[w] \in ReadType
      /\ Goto(w, to, job[w], seen[w])
  BY <1>1 DEF TypeOK, Goto, Step, Places, Submits
<1>5. Moved(w)
  BY <1>2, <1>3, <1>4 DEF Moved
<1>6. pc'[w] = to /\ job'[w] = job[w]
  BY <1>1, <1>3, <1>4, MovedTo
<1> QED
  BY <1>2, <1>3, <1>5, <1>6

LEMMA NoReadType == NoRead \in ReadType /\ NoIntent \in IntentType
  BY DEF NoRead, ReadType, NoInstance, NoIntent, IntentType, States

\* It is done, inside submit or outside.
LEMMA Done ==
  ASSUME IInv, NEW w \in Windows, Goto(w, "idle", NoRequest, NoRead),
         lock' = IF lock = w THEN NoWindow ELSE lock
  PROVE  Moved(w) /\ WindowOk(w)'
<1>1. "idle" \in Places /\ "idle" \notin Submits /\ NoRead \in ReadType /\ NoRequest \notin Requests
  BY NoReadType, NoneAssumption DEF Places, Submits
<1>2. Moved(w)
  BY <1>1 DEF Moved
<1>3. pc'[w] = "idle"
  BY <1>1, MovedTo DEF IInv
<1> QED
  BY <1>2, <1>3 DEF WindowOk

LEMMA Left ==
  ASSUME IInv, NEW w \in Windows, pc[w] \in Submits, Leave(w)
  PROVE  Moved(w) /\ WindowOk(w)' /\ lock = w /\ job[w] \in Requests
<1>1. lock = w /\ pc[w] # "idle" /\ WindowOk(w)
  BY DEF IInv, TypeOK, Submits
<1>2. Moved(w) /\ WindowOk(w)'
  BY <1>1, Done DEF Leave
<1> QED
  BY <1>1, <1>2 DEF WindowOk

\* The record of a request changes its state only.
LEMMA StateOnly ==
  ASSUME TypeOK, NEW r \in Requests, NEW state \in States,
         intents[r].instance # NoInstance => state = "SUBMITTED",
         state \in Untouched => intents[r].state \in Untouched,
         Put(r, [intents[r] EXCEPT !.state = state])
  PROVE  \E intent \in IntentType :
           /\ Put(r, intent) /\ Recorded(r, intent)
           /\ intent.state = state /\ intent.instance = intents[r].instance
<1> DEFINE new == [state |-> state, version |-> intents[r].version, last |-> intents[r].last,
                   instance |-> intents[r].instance, ended |-> intents[r].ended]
<1>1. intents[r] \in IntentType
  BY DEF TypeOK, IntentType
<1>2. new = [intents[r] EXCEPT !.state = state] /\ new \in IntentType
  BY <1>1 DEF IntentType
<1>3. Recorded(r, new)
  BY DEF Recorded
<1> QED
  BY <1>2, <1>3

LEMMA PrepareReadInductive ==
  ASSUME IInv, NEW w \in Windows, NEW r \in Requests, PrepareRead(w, r)
  PROVE  IInv'
<1> DEFINE read == [NoRead EXCEPT !.version = changes, !.last = Last]
<1>1. TypeOK /\ Last \in Nat /\ changes \in Nat
  BY LastType, BoundAssumption DEF IInv, TypeOK
<1>2. read \in ReadType
  BY <1>1, NoReadType DEF ReadType
<1>3. read.last = Last
  BY NoReadType DEF ReadType
<1> HIDE DEF read
<1>4. /\ intents[r] = NoIntent /\ \A v \in Windows : job[v] # r
      /\ Goto(w, "preparing", r, read) /\ UNCHANGED <<intents, lock>> /\ Outside /\ pc[w] = "idle"
  BY DEF PrepareRead, read
<1>5. lock # w /\ "preparing" \in Places \ Submits
  BY <1>1, <1>4 DEF TypeOK, Submits, Places
<1>6. Moved(w)
  BY <1>2, <1>4, <1>5 DEF Moved
<1>7. /\ pc'[w] = "preparing" /\ job'[w] = r /\ seen'[w] = read
      /\ \A v \in Windows \ {w} : job'[v] = job[v]
  BY <1>1, <1>2, <1>4, <1>5, MovedTo
<1>8. Last' = Last
  BY <1>4, SameRuns DEF Outside
<1>9. WindowOk(w)'
  BY <1>1, <1>3, <1>4, <1>7, <1>8 DEF WindowOk
<1> QED
  BY <1>4, <1>6, <1>9, MoveInductive DEF Stored

LEMMA PrepareSaveInductive ==
  ASSUME IInv, NEW w \in Windows, PrepareSave(w)
  PROVE  IInv'
<1> DEFINE new == [NoIntent EXCEPT !.state = "PREPARED", !.version = seen[w].version, !.last = seen[w].last]
<1>1. TypeOK /\ WindowOk(w)
  BY DEF IInv
<1>2. /\ job[w] \in Requests /\ intents[job[w]] = NoIntent /\ seen[w].last <= Last
      /\ seen[w].last \in Nat /\ seen[w].version \in Nat
  BY <1>1 DEF PrepareSave, WindowOk, TypeOK, ReadType
<1>3. new \in IntentType
  BY <1>2, NoReadType DEF IntentType, States
<1>4. new.state = "PREPARED" /\ new.last = seen[w].last /\ new.instance = NoInstance
  <2>1. NoIntent.instance = NoInstance
    BY DEF NoIntent
  <2> QED
    BY <1>2, <2>1, NoReadType DEF IntentType
<1>5. Put(job[w], new)
  BY DEF PrepareSave
<1> HIDE DEF new
<1>6. Recorded(job[w], new)
  BY <1>2, <1>4 DEF Recorded, NoIntent, Untouched
<1>7. Stored(w)
  BY <1>2, <1>3, <1>5, <1>6 DEF Stored, PrepareSave
<1>8. Moved(w) /\ WindowOk(w)'
  BY Done, NoneAssumption DEF PrepareSave
<1> QED
  BY <1>7, <1>8, MoveInductive DEF PrepareSave

LEMMA SubmitBeginInductive ==
  ASSUME IInv, NEW w \in Windows, NEW r \in Requests, SubmitBegin(w, r)
  PROVE  IInv'
<1>1. /\ Goto(w, "confirming", r, NoRead) /\ "confirming" \in Places \cap Submits
      /\ NoRead \in ReadType /\ TypeOK
  BY NoReadType DEF SubmitBegin, Places, Submits, IInv
<1>2. pc'[w] = "confirming" /\ job'[w] = r
  BY <1>1, MovedTo
<1>3. Moved(w)
  BY <1>1 DEF Moved, SubmitBegin, NoIntent
<1>4. WindowOk(w)'
  BY <1>2 DEF WindowOk, SubmitBegin
<1> QED
  BY <1>3, <1>4, MoveInductive DEF SubmitBegin, Stored

\* A click refuses a request that is still to be submitted.
LEMMA RefuseInductive ==
  ASSUME IInv, NEW w \in Windows, NEW r \in Requests, NEW state \in {"CANCELLED", "INVALIDATED"},
         lock = NoWindow, intents[r].state = "PREPARED",
         Put(r, [intents[r] EXCEPT !.state = state]), UNCHANGED <<lock, pc, job, seen>>, Outside
  PROVE  IInv'
<1>1. TypeOK /\ RequestOk(r) /\ WindowOk(w) /\ Moved(w)
  BY Stay DEF IInv
<1>2. /\ state \in States /\ intents[r].instance = NoInstance
      /\ intents[r].state \in Untouched /\ intents[r] # NoIntent
  BY <1>1 DEF RequestOk, States, Untouched, NoIntent
<1>3. \E intent \in IntentType : Put(r, intent) /\ Recorded(r, intent)
  BY <1>1, <1>2, StateOnly
<1>4. Stored(w)
  BY <1>2, <1>3 DEF Stored
<1>5. pc[w] \notin Submits
  BY <1>1, NoneAssumption DEF TypeOK
<1>6. pc[w] = "preparing" => intents'[job[w]] = intents[job[w]]
  <2> SUFFICES ASSUME pc[w] = "preparing" PROVE intents'[job[w]] = intents[job[w]]
    OBVIOUS
  <2>1. job[w] \in Requests /\ job[w] # r
    BY <1>1, <1>2 DEF WindowOk
  <2> QED
    BY <1>1, <1>3, <2>1, PutTo
<1>7. Last' = Last
  BY SameRuns DEF Outside
<1>8. WindowOk(w)'
  BY <1>1, <1>5, <1>6, <1>7 DEF WindowOk, Submits
<1> QED
  BY <1>1, <1>4, <1>8, MoveInductive

LEMMA SubmitExpiredInductive ==
  ASSUME IInv, NEW w \in Windows, NEW r \in Requests, SubmitExpired(w, r)
  PROVE  IInv'
  BY RefuseInductive DEF SubmitExpired

LEMMA CancelInductive ==
  ASSUME IInv, NEW w \in Windows, NEW r \in Requests, Cancel(w, r)
  PROVE  IInv'
  BY RefuseInductive DEF Cancel

\* A submission ends with a state that the record may go to.
LEMMA EndInductive ==
  ASSUME IInv, NEW w \in Windows, pc[w] \in Submits,
         NEW state \in States, state \in Untouched => intents[job[w]].state \in Untouched,
         intents[job[w]].state \in {"PREPARED", "SUBMITTING"},
         End(w, state), Outside
  PROVE  IInv'
<1>1. TypeOK /\ Moved(w) /\ WindowOk(w)' /\ lock = w /\ job[w] \in Requests
  BY Left DEF End, IInv
<1>2. intents[job[w]].instance = NoInstance /\ intents[job[w]] # NoIntent
  BY <1>1 DEF IInv, RequestOk, NoIntent
<1>3. \E intent \in IntentType : Put(job[w], intent) /\ Recorded(job[w], intent)
  BY <1>1, <1>2, StateOnly DEF End
<1>4. Stored(w)
  BY <1>1, <1>2, <1>3 DEF Stored
<1> QED
  BY <1>1, <1>4, MoveInductive

LEMMA DeclineInductive ==
  ASSUME IInv, NEW w \in Windows, Decline(w)
  PROVE  IInv'
<1>1. pc[w] \in Submits /\ intents[job[w]].state = "PREPARED"
  BY DEF Decline, IInv, WindowOk, Submits
<1> QED
  BY <1>1, EndInductive DEF Decline, States, Untouched

LEMMA InvalidateInductive ==
  ASSUME IInv, NEW w \in Windows, Invalidate(w)
  PROVE  IInv'
<1>1. pc[w] \in Submits /\ intents[job[w]].state = "PREPARED"
  BY DEF Invalidate, IInv, WindowOk, Submits
<1> QED
  BY <1>1, EndInductive DEF Invalidate, States, Untouched

LEMMA UnansweredInductive ==
  ASSUME IInv, NEW w \in Windows, Unanswered(w)
  PROVE  IInv'
<1>1. pc[w] \in Submits /\ intents[job[w]].state = "SUBMITTING"
  BY DEF Unanswered, IInv, WindowOk, Submits
<1> QED
  BY <1>1, EndInductive DEF Unanswered, States, Untouched

LEMMA ThrowInductive ==
  ASSUME IInv, NEW w \in Windows, Throw(w)
  PROVE  IInv'
<1>1. Moved(w) /\ WindowOk(w)'
  BY Left DEF Throw, Submits
<1> QED
  BY <1>1, MoveInductive DEF Throw, Stored

LEMMA AgreeInductive ==
  ASSUME IInv, NEW w \in Windows, Agree(w)
  PROVE  IInv'
<1>1. "confirming" \in Submits /\ "checking" \in Submits
  BY DEF Submits
<1>2. Moved(w) /\ pc'[w] = "checking" /\ job'[w] = job[w] /\ pc[w] = "confirming" /\ job[w] \in Requests
  BY <1>1, Advance DEF Agree
<1>3. WindowOk(w)'
  BY <1>2 DEF Agree, IInv, WindowOk
<1> QED
  BY <1>2, <1>3, MoveInductive DEF Agree, Stored

\* The check of the baseline is what makes a request the only one of its
\* preview: a run that counts is newer than the preview it comes from, and the
\* baseline says there is no newer run.
LEMMA CheckBaselineInductive ==
  ASSUME IInv, NEW w \in Windows, CheckBaseline(w)
  PROVE  IInv'
<1>1. "checking" \in Submits /\ "checked" \in Submits
  BY DEF Submits
<1>2. Moved(w) /\ pc'[w] = "checked" /\ job'[w] = job[w] /\ pc[w] = "checking" /\ job[w] \in Requests
  BY <1>1, Advance DEF CheckBaseline
<1>3. intents[job[w]].last = Last
  BY DEF CheckBaseline, Current
<1>4. Alone(job[w])
  <2> SUFFICES ASSUME NEW r \in Requests \ {job[w]}, InTime(r)
               PROVE  intents[r].last # Last
    BY <1>3 DEF Alone
  <2>1. PICK n \in RunOf(r) : TRUE
    BY DEF InTime
  <2>2. n > intents[r].last /\ n <= Last
    BY <2>1, LastType DEF IInv, RequestOk, RunOf, Native
  <2>3. n \in Nat /\ Last \in Nat /\ intents[r].last \in Nat
    BY <2>1, LastType DEF IInv, TypeOK, RunOf, Native
  <2> QED
    BY <2>2, <2>3
<1>5. \A r : InTime(r)' = InTime(r)
  BY SameRuns DEF CheckBaseline, Outside
<1>6. WindowOk(w)'
  BY <1>2, <1>4, <1>5 DEF CheckBaseline, IInv, WindowOk, Alone
<1> QED
  BY <1>2, <1>6, MoveInductive DEF CheckBaseline, Stored

LEMMA SubmittingInductive ==
  ASSUME IInv, NEW w \in Windows, Submitting(w)
  PROVE  IInv'
<1>1. "checked" \in Submits /\ "submitting" \in Submits
  BY DEF Submits
<1>2. /\ Moved(w) /\ pc'[w] = "submitting" /\ job'[w] = job[w] /\ pc[w] = "checked"
      /\ job[w] \in Requests /\ lock = w
  BY <1>1, Advance DEF Submitting
<1>3. TypeOK /\ intents[job[w]].state = "PREPARED" /\ RequestOk(job[w]) /\ Alone(job[w])
  BY <1>2 DEF IInv, WindowOk
<1>4. intents[job[w]].instance = NoInstance /\ posts[job[w]] = 0 /\ intents[job[w]] # NoIntent
  BY <1>3 DEF RequestOk, Untouched, NoIntent
<1>5. \E intent \in IntentType : Put(job[w], intent) /\ Recorded(job[w], intent) /\ intent.state = "SUBMITTING"
  BY <1>2, <1>3, <1>4, StateOnly DEF Submitting, States, Untouched
<1>6. PICK intent \in IntentType : Put(job[w], intent) /\ Recorded(job[w], intent) /\ intent.state = "SUBMITTING"
  BY <1>5
<1>7. intents'[job[w]] = intent /\ \A r \in Requests \ {job[w]} : intents'[r] = intents[r]
  BY <1>2, <1>3, <1>6, PutTo
<1>8. Stored(w)
  BY <1>2, <1>4, <1>6 DEF Stored
<1>9. Alone(job[w])'
  <2>1. \A r : InTime(r)' = InTime(r)
    BY SameRuns DEF Submitting, Outside
  <2>2. intent.last = intents[job[w]].last
    BY <1>3, <1>6 DEF Recorded
  <2> QED
    BY <1>2, <1>3, <1>7, <2>1, <2>2 DEF Alone
<1>10. WindowOk(w)'
  BY <1>2, <1>4, <1>6, <1>7, <1>9 DEF WindowOk, Submitting, Outside
<1> QED
  BY <1>2, <1>8, <1>10, MoveInductive DEF Submitting

\* The run that an answer or the developer names is stored with the request.
LEMMA NamedIntent ==
  ASSUME IInv, NEW r \in Requests, NEW n \in Instances, NEW ended \in BOOLEAN, intents[r].state \in Unresolved,
         NEW intent \in {[intents[r] EXCEPT !.state = "SUBMITTED", !.instance = n],
                         [intents[r] EXCEPT !.state = "SUBMITTED", !.instance = n, !.ended = ended]}
  PROVE  intent \in IntentType /\ Recorded(r, intent) /\ intents[r] # NoIntent
<1>1. intents[r] \in IntentType
  BY DEF IInv, TypeOK, IntentType
<1>2. intent \in IntentType /\ intent.state = "SUBMITTED" /\ intent.last = intents[r].last
  BY <1>1 DEF IntentType, States
<1> QED
  BY <1>2 DEF Recorded, Untouched, NoIntent, Unresolved

LEMMA AnsweredInductive ==
  ASSUME IInv, NEW w \in Windows, Answered(w)
  PROVE  IInv'
<1>1. pc[w] \in Submits /\ intents[job[w]].state = "SUBMITTING"
  BY DEF Answered, IInv, WindowOk, Submits
<1>2. Moved(w) /\ WindowOk(w)' /\ lock = w /\ job[w] \in Requests
  BY <1>1, Left DEF Answered
<1>3. PICK n \in RunOf(job[w]) : Put(job[w], [intents[job[w]] EXCEPT !.state = "SUBMITTED", !.instance = n])
  BY DEF Answered
<1>4. n \in Instances
  BY <1>3, LastType DEF IInv, RunOf
<1>5. Stored(w)
  BY <1>1, <1>2, <1>3, <1>4, NamedIntent DEF Stored, Unresolved
<1> QED
  BY <1>2, <1>5, MoveInductive DEF Answered

LEMMA ReconcileInductive ==
  ASSUME IInv, NEW w \in Windows, NEW r \in Requests, NEW n \in Instances, Reconcile(w, r, n)
  PROVE  IInv'
<1> DEFINE new == [intents[r] EXCEPT !.state = "SUBMITTED", !.instance = n, !.ended = runs[n].ended]
<1>1. TypeOK /\ WindowOk(w) /\ Moved(w)
  BY Stay DEF IInv, Reconcile
<1>2. runs[n].ended \in BOOLEAN
  BY <1>1 DEF TypeOK
<1>3. new \in IntentType /\ Recorded(r, new) /\ intents[r] # NoIntent
  BY <1>2, NamedIntent DEF Reconcile
<1>4. Put(r, new) /\ lock = NoWindow
  BY DEF Reconcile
<1> HIDE DEF new
<1>5. Stored(w)
  BY <1>3, <1>4 DEF Stored
<1>6. WindowOk(w)'
  BY <1>1 DEF Reconcile, WindowOk
<1> QED
  BY <1>1, <1>5, <1>6, MoveInductive DEF Reconcile

LEMMA StatusReadInductive ==
  ASSUME IInv, NEW w \in Windows, NEW r \in Requests, StatusRead(w, r)
  PROVE  IInv'
<1> DEFINE n == intents[r].instance
           read == [NoRead EXCEPT !.instance = n, !.ended = runs[n].ended]
<1>1. TypeOK
  BY DEF IInv
<1>2. n # NoInstance /\ n \in Instances /\ runs[n].ended \in BOOLEAN
  BY <1>1 DEF TypeOK, StatusRead
<1>3. read \in ReadType /\ read.instance = n
  BY <1>2, NoReadType DEF ReadType
<1>4. Goto(w, "refreshing", r, read) /\ UNCHANGED <<intents, lock>> /\ Outside /\ pc[w] = "idle"
  BY DEF StatusRead
<1> HIDE DEF read
<1>5. lock # w /\ "refreshing" \in Places \ Submits /\ intents[r] # NoIntent
  BY <1>1, <1>2, <1>4 DEF TypeOK, Submits, Places, NoIntent
<1>6. Moved(w)
  BY <1>3, <1>4, <1>5 DEF Moved
<1>7. pc'[w] = "refreshing" /\ job'[w] = r /\ seen'[w] = read
  BY <1>1, <1>3, <1>4, <1>5, MovedTo
<1>8. WindowOk(w)'
  BY <1>2, <1>3, <1>7 DEF WindowOk
<1> QED
  BY <1>4, <1>6, <1>8, MoveInductive DEF Stored

LEMMA StatusSaveInductive ==
  ASSUME IInv, NEW w \in Windows, StatusSave(w)
  PROVE  IInv'
<1> DEFINE r == job[w]
           new == [intents[r] EXCEPT !.ended = seen[w].ended]
<1>1. TypeOK /\ WindowOk(w)
  BY DEF IInv
<1>2. r \in Requests /\ seen[w].instance # NoInstance /\ intents[r].instance = seen[w].instance
      /\ intents[r] \in IntentType /\ seen[w].ended \in BOOLEAN
  BY <1>1 DEF StatusSave, WindowOk, TypeOK, IntentType, ReadType
<1>3. /\ new \in IntentType /\ new.last = intents[r].last /\ new.state = intents[r].state
      /\ new.instance = intents[r].instance
  BY <1>2 DEF IntentType
<1>4. Put(r, new) /\ lock = NoWindow
  BY DEF StatusSave
<1> HIDE DEF new
<1>5. Recorded(r, new)
  BY <1>2, <1>3 DEF Recorded, IInv, RequestOk
<1>6. intents[r] # NoIntent
  BY <1>2 DEF NoIntent
<1>7. Stored(w)
  BY <1>2, <1>3, <1>4, <1>5, <1>6 DEF Stored
<1>8. Moved(w) /\ WindowOk(w)'
  BY <1>4, Done, NoneAssumption DEF StatusSave
<1> QED
  BY <1>7, <1>8, MoveInductive DEF StatusSave

LEMMA GiveUpInductive ==
  ASSUME IInv, NEW w \in Windows, GiveUp(w)
  PROVE  IInv'
<1>1. lock # w /\ UNCHANGED lock
  BY DEF GiveUp, IInv, TypeOK, Submits
<1>2. Moved(w) /\ WindowOk(w)'
  BY <1>1, Done DEF GiveUp
<1> QED
  BY <1>2, MoveInductive DEF GiveUp, Stored

LEMMA CrashInductive ==
  ASSUME IInv, NEW w \in Windows, Crash(w)
  PROVE  IInv'
<1>1. Moved(w) /\ WindowOk(w)'
  BY Done DEF Crash
<1> QED
  BY <1>1, MoveInductive DEF Crash, Stored

\* The only step that sends a call: the record said so before.
LEMMA ScheduleInductive ==
  ASSUME IInv, NEW w \in Windows, Schedule(w)
  PROVE  IInv'
<1>1. "submitting" \in Submits /\ "waiting" \in Submits
  BY DEF Submits
<1>2. /\ Moved(w) /\ pc'[w] = "waiting" /\ job'[w] = job[w] /\ pc[w] = "submitting"
      /\ job[w] \in Requests /\ lock = w
  BY <1>1, Advance DEF Schedule
<1>3. TypeOK /\ WindowOk(w)
  BY DEF IInv
<1>4. /\ intents' = intents /\ Calm /\ calls' = calls \cup {job[w]}
      /\ posts' \in [Requests -> Nat] /\ posts'[job[w]] = 1
      /\ \A r \in Requests \ {job[w]} : posts'[r] = posts[r]
  BY <1>2, <1>3 DEF Schedule, Calm, TypeOK, WindowOk
<1>5. TypeOK'
  BY <1>2, <1>3, <1>4, MoveTyped DEF Stored, TypeOK
<1>6. Last' = Last /\ \A r : RunOf(r)' = RunOf(r) /\ InTime(r)' = InTime(r)
  BY <1>4, SameRuns DEF Calm
<1>7. Ordered'
  BY <1>4, <1>6 DEF IInv, Ordered, Calm
<1>8. ASSUME NEW r \in Requests PROVE RequestOk(r)'
  <2>1. RequestOk(r) /\ intents[job[w]].state = "SUBMITTING"
    BY <1>2, <1>3 DEF IInv, WindowOk
  <2>2. CASE r = job[w]
    BY <1>4, <1>6, <2>1, <2>2 DEF RequestOk, Untouched
  <2>3. CASE r # job[w]
    BY <1>4, <1>6, <2>1, <2>3 DEF RequestOk
  <2> QED
    BY <2>2, <2>3
<1>9. ASSUME NEW v \in Windows PROVE WindowOk(v)'
  <2>1. WindowOk(v)
    BY DEF IInv
  <2>2. CASE v = w
    BY <1>2, <1>3, <1>4, <1>6, <2>2 DEF WindowOk, Alone
  <2>3. CASE v # w
    <3>1. pc[v] \notin Submits
      BY <1>2, <1>3, <2>3 DEF TypeOK
    <3>2. pc'[v] = pc[v] /\ job' = job /\ seen' = seen
      BY <1>3, <2>3 DEF Schedule, Step, TypeOK
    <3> QED
      BY <1>4, <1>6, <2>1, <3>1, <3>2 DEF WindowOk, Submits
  <2> QED
    BY <2>2, <2>3
<1>10. OneRunPerPreview'
  BY <1>4, <1>6 DEF IInv, OneRunPerPreview
<1> QED
  BY <1>5, <1>7, <1>8, <1>9, <1>10 DEF IInv

-------------------------------------------------------------------------------
(***************************************************************************)
(* The actions of the native side                                          *)
(***************************************************************************)
Bystanders == UNCHANGED <<intents, lock, pc, job, seen>>

\* A new run, whoever asked for it: the windows are where they were, and a run
\* that counts belongs to the one window that waits inside the lock.
LEMMA BornInductive ==
  ASSUME IInv, Last < MaxRuns, NEW by \in Requests \cup {"native"}, NEW late \in BOOLEAN, Born(by, late),
         by \in Requests => by \in calls /\ (late \/ Awaited(by)),
         calls' \subseteq calls, Bystanders, UNCHANGED <<changes, expired, posts>>
  PROVE  IInv'
<1>1. /\ runs' \in [Instances -> [by : Requests \cup {"native", "unborn"}, ended : BOOLEAN, late : BOOLEAN]]
      /\ Last' = Last + 1 /\ Ordered'
      /\ \A r \in Requests : RunOf(r)' = IF r = by THEN RunOf(r) \cup {Last + 1} ELSE RunOf(r)
      /\ \A r \in Requests : InTime(r)' => InTime(r) \/ (r = by /\ ~late)
  BY BornStep DEF IInv
<1>2. TypeOK /\ Last \in Nat
  BY LastType DEF IInv
<1>3. TypeOK'
  BY <1>1, <1>2 DEF TypeOK, Bystanders
<1>4. ASSUME NEW r \in Requests PROVE RequestOk(r)'
  <2>1. RequestOk(r) /\ intents[r].last \in Nat
    BY <1>2 DEF IInv, TypeOK
  <2>2. CASE r = by
    BY <1>1, <1>2, <2>1, <2>2 DEF RequestOk, Bystanders
  <2>3. CASE r # by
    BY <1>1, <1>2, <2>1, <2>3 DEF RequestOk, Bystanders
  <2> QED
    BY <2>2, <2>3
\* Whoever counts now has a window that waits for it, alone.
<1>5. ASSUME NEW q \in Requests, InTime(q)', ~InTime(q)
      PROVE  q = by /\ \E u \in Windows : pc[u] = "waiting" /\ job[u] = q /\ lock = u /\ Alone(q)
  <2>1. q = by /\ Awaited(q)
    BY <1>1, <1>5
  <2>2. PICK u \in Windows : pc[u] = "waiting" /\ job[u] = q
    BY <2>1 DEF Awaited
  <2>3. lock = u /\ Alone(q)
    BY <1>2, <2>2 DEF TypeOK, Submits, IInv, WindowOk
  <2> QED
    BY <2>1, <2>2, <2>3
<1>6. ASSUME NEW v \in Windows PROVE WindowOk(v)'
  <2>1. WindowOk(v)
    BY DEF IInv
  <2>2. pc[v] = "preparing" => seen[v].last <= Last + 1
    BY <1>2, <2>1 DEF WindowOk, TypeOK, ReadType
  <2>3. ASSUME pc[v] \in {"checked", "submitting", "waiting"} PROVE Alone(job[v])'
    <3> SUFFICES ASSUME NEW q \in Requests \ {job[v]}, InTime(q)'
                 PROVE  intents[q].last # intents[job[v]].last
      BY DEF Alone, Bystanders
    <3>1. lock = v /\ Alone(job[v])
      BY <1>2, <2>1, <2>3 DEF WindowOk, TypeOK, Submits
    <3>2. InTime(q)
      BY <1>5, <3>1
    <3> QED
      BY <3>1, <3>2 DEF Alone
  <2> QED
    BY <1>1, <2>1, <2>2, <2>3 DEF WindowOk, Bystanders
<1>7. OneRunPerPreview'
  <2> SUFFICES ASSUME NEW p \in Requests, NEW q \in Requests, p # q, InTime(p)', InTime(q)'
               PROVE  intents[p].last # intents[q].last
    BY DEF OneRunPerPreview, Bystanders
  <2>1. CASE InTime(p) /\ InTime(q)
    BY <2>1 DEF IInv, OneRunPerPreview
  <2>2. CASE ~InTime(p)
    <3>1. p = by /\ Alone(p) /\ InTime(q)
      BY <1>5, <2>2
    <3> QED
      BY <3>1 DEF Alone
  <2>3. CASE ~InTime(q)
    <3>1. q = by /\ Alone(q) /\ InTime(p)
      BY <1>5, <2>3
    <3> QED
      BY <3>1 DEF Alone
  <2> QED
    BY <2>1, <2>2, <2>3
<1> QED
  BY <1>1, <1>3, <1>4, <1>6, <1>7 DEF IInv

\* The scheduler takes a call up: its request was sent, and is not untouched.
LEMMA AcceptInductive ==
  ASSUME IInv, NEW r \in Requests, Accept(r)
  PROVE  IInv'
<1>1. (~Awaited(r)) \in BOOLEAN
  BY DEF Awaited
<1> QED
  BY <1>1, BornInductive DEF Accept, Bystanders

LEMMA NativeRunInductive ==
  ASSUME IInv, NativeRun
  PROVE  IInv'
  BY BornInductive, NoneAssumption DEF NativeRun, Bystanders

\* Nothing that the invariant speaks of grows.
LEMMA QuietInductive ==
  ASSUME IInv, Bystanders, UNCHANGED posts, calls' \subseteq calls,
         changes' \in 0 .. MaxChanges, expired' \subseteq Requests,
         runs' \in [Instances -> [by : Requests \cup {"native", "unborn"}, ended : BOOLEAN, late : BOOLEAN]],
         \A n \in Instances : runs'[n].by = runs[n].by /\ runs'[n].late = runs[n].late
  PROVE  IInv'
<1>1. TypeOK' /\ Native \subseteq Instances
  BY LastType DEF IInv, TypeOK, Bystanders
<1>2. {n \in Instances : runs'[n].by # "unborn"} = {n \in Instances : runs[n].by # "unborn"}
  OBVIOUS
<1>3. Last' = Last
  BY <1>2 DEF Last
<1>4. Native' = Native
  BY <1>3 DEF Native
<1>5. \A r : RunOf(r)' = RunOf(r)
  BY <1>1, <1>4 DEF RunOf
<1>6. \A r : InTime(r)' <=> InTime(r)
  <2> SUFFICES ASSUME NEW r PROVE InTime(r)' <=> InTime(r)
    OBVIOUS
  <2>1. RunOf(r)' = RunOf(r) /\ RunOf(r) \subseteq Instances
    BY <1>1, <1>5 DEF RunOf
  <2> QED
    BY <2>1 DEF InTime
<1>7. Ordered'
  BY <1>3 DEF IInv, Ordered
<1>8. \A r \in Requests : RequestOk(r)'
  BY <1>3, <1>5 DEF IInv, RequestOk, Bystanders
<1>9. \A w \in Windows : WindowOk(w)'
  BY <1>3, <1>6 DEF IInv, WindowOk, Alone, Bystanders
<1>10. OneRunPerPreview'
  BY <1>6 DEF IInv, OneRunPerPreview, Bystanders
<1> QED
  BY <1>1, <1>7, <1>8, <1>9, <1>10 DEF IInv

LEMMA RefusedInductive ==
  ASSUME IInv, NEW r \in Requests, Refuse(r)
  PROVE  IInv'
  BY QuietInductive DEF Refuse, Bystanders, IInv, TypeOK

LEMMA ExpireInductive ==
  ASSUME IInv, NEW r \in Requests, Expire(r)
  PROVE  IInv'
<1>1. expired' \subseteq Requests
  BY DEF Expire, IInv, TypeOK
<1> QED
  BY <1>1, QuietInductive DEF Expire, Bystanders, IInv, TypeOK

LEMMA NativeChangeInductive ==
  ASSUME IInv, NativeChange
  PROVE  IInv'
<1>1. changes' \in 0 .. MaxChanges
  BY BoundAssumption DEF NativeChange, IInv, TypeOK
<1> QED
  BY <1>1, QuietInductive DEF NativeChange, Bystanders, IInv, TypeOK

LEMMA NativeEndInductive ==
  ASSUME IInv, NEW n \in Instances, NativeEnd(n)
  PROVE  IInv'
<1>1. /\ runs' \in [Instances -> [by : Requests \cup {"native", "unborn"}, ended : BOOLEAN, late : BOOLEAN]]
      /\ \A m \in Instances : runs'[m].by = runs[m].by /\ runs'[m].late = runs[m].late
  <2>1. runs[n] \in [by : Requests \cup {"native", "unborn"}, ended : BOOLEAN, late : BOOLEAN]
    BY DEF IInv, TypeOK
  <2>2. runs' = [runs EXCEPT ![n] = [runs[n] EXCEPT !.ended = TRUE]]
    BY DEF NativeEnd
  <2> QED
    BY <2>1, <2>2 DEF IInv, TypeOK
<1> QED
  BY <1>1, QuietInductive DEF NativeEnd, Bystanders, IInv, TypeOK

-------------------------------------------------------------------------------
(***************************************************************************)
(* The invariant is inductive                                              *)
(***************************************************************************)
LEMMA InitInductive == Init => IInv
<1> SUFFICES ASSUME Init PROVE IInv
  OBVIOUS
<1>1. NoIntent \in IntentType /\ NoRead \in ReadType /\ MaxChanges \in Nat
  BY NoReadType, BoundAssumption
<1>2. TypeOK
  BY <1>1, NoneAssumption DEF Init, TypeOK, IntentType, Places, Submits
<1>3. {n \in Instances : runs[n].by # "unborn"} = {}
  BY DEF Init
<1>4. Last = 0
  BY <1>3, FS_EmptySet DEF Last
<1>5. Native = {}
  BY <1>4 DEF Native
<1>6. Ordered
  BY <1>3, <1>4 DEF Ordered, Instances
<1>7. \A r : RunOf(r) = {} /\ ~InTime(r)
  BY <1>5 DEF RunOf, InTime
<1>8. \A r \in Requests : RequestOk(r)
  BY <1>4, <1>7 DEF Init, RequestOk, NoIntent
<1>9. \A w \in Windows : WindowOk(w)
  BY DEF Init, WindowOk
<1>10. OneRunPerPreview
  BY <1>7 DEF OneRunPerPreview
<1> QED
  BY <1>2, <1>6, <1>8, <1>9, <1>10 DEF IInv

LEMMA NextInductive == IInv /\ [Next]_vars => IInv'
<1> SUFFICES ASSUME IInv, [Next]_vars PROVE IInv'
  OBVIOUS
<1>1. CASE UNCHANGED vars
  BY <1>1, QuietInductive DEF vars, Bystanders, IInv, TypeOK
<1>2. CASE Scheduler
  BY <1>2, AcceptInductive, RefusedInductive, ExpireInductive, NativeRunInductive,
     NativeChangeInductive, NativeEndInductive DEF Scheduler
<1>3. ASSUME NEW w \in Windows, Prepare(w) PROVE IInv'
  BY <1>3, PrepareReadInductive, PrepareSaveInductive DEF Prepare
<1>4. ASSUME NEW w \in Windows, Submit(w) PROVE IInv'
  BY <1>4, SubmitBeginInductive, SubmitExpiredInductive, DeclineInductive, AgreeInductive,
     InvalidateInductive, CheckBaselineInductive, ThrowInductive, SubmittingInductive,
     ScheduleInductive, AnsweredInductive, UnansweredInductive DEF Submit
<1>5. ASSUME NEW w \in Windows, Monitor(w) PROVE IInv'
  BY <1>5, StatusReadInductive, CancelInductive, ReconcileInductive, StatusSaveInductive,
     GiveUpInductive DEF Monitor
<1> QED
  BY <1>1, <1>2, <1>3, <1>4, <1>5, CrashInductive DEF Next

\* Every reachable state satisfies the invariant of the records, the posts
\* and the windows.
THEOREM Inductive == Spec => []IInv
  BY InitInductive, NextInductive, PTL DEF Spec

\* Every variable keeps its type, and a window holds the lock exactly while it
\* is inside submit.
THEOREM Typing == Spec => []TypeOK
<1>1. IInv => TypeOK
  BY DEF IInv
<1> QED
  BY <1>1, Inductive, PTL

\* The scheduling call of a request is sent at most once, through lost answers,
\* crashes before and after the call, other windows and reconciliations.
THEOREM PostedOnceHolds == Spec => []PostedOnce
<1>1. IInv => PostedOnce
  BY DEF IInv, RequestOk, PostedOnce
<1> QED
  BY <1>1, Inductive, PTL

\* A run that the scheduler started or may still start is never hidden behind
\* a request that looks cancelled, invalidated or still to be submitted.
THEOREM NoOrphanRunHolds == Spec => []NoOrphanRun
<1>1. IInv => NoOrphanRun
  <2> SUFFICES ASSUME IInv, NEW r \in Requests, r \in calls \/ RunOf(r) # {}
               PROVE  \/ intents[r].state = "SUBMITTED"
                      \/ intents[r].state \in Unresolved /\ RunOf(r) \subseteq Candidates(r)
    BY DEF NoOrphanRun
  <2>1. intents[r].state \in States \ Untouched /\ \A n \in RunOf(r) : n > intents[r].last
    BY DEF IInv, TypeOK, RequestOk
  <2>2. RunOf(r) \subseteq Candidates(r)
    BY <2>1 DEF RunOf, Candidates
  <2> QED
    BY <2>1, <2>2 DEF States, Untouched, Unresolved
<1> QED
  BY <1>1, Inductive, PTL

\* Requests that were previewed against the same state never both run, unless
\* the scheduler accepted a call that its caller had given up on.
THEOREM OneRunPerPreviewHolds == Spec => []OneRunPerPreview
<1>1. IInv => OneRunPerPreview
  BY DEF IInv
<1> QED
  BY <1>1, Inductive, PTL

-------------------------------------------------------------------------------
(***************************************************************************)
(* A stored request is a one-shot confirmation                             *)
(***************************************************************************)
Shown(state) ==
  CASE state = "NONE" -> "none"
    [] state = "PREPARED" -> "open"
    [] state \in {"CANCELLED", "INVALIDATED"} -> "refused"
    [] state \in Unresolved -> "unknown"
    [] state = "SUBMITTED" -> "known"
View(intent) == [state |-> Shown(intent.state), run |-> intent.instance]

\* An abstract step of one request: its new record shows what Move asks for.
LEMMA PutMaps ==
  ASSUME IInv, NEW r \in Requests, NEW intent \in IntentType, Put(r, intent)
  PROVE  /\ Outcome[r] = View(intents[r])
         /\ Outcome' = [Outcome EXCEPT ![r] = View(intent)]
<1>1. Outcome = [q \in Requests |-> View(intents[q])]
  BY DEF Outcome, View, Shown
<1>2. Outcome' = [q \in Requests |-> View(intents'[q])]
  BY DEF Outcome, View, Shown
<1>3. intents'[r] = intent /\ \A q \in Requests \ {r} : intents'[q] = intents[q]
  BY PutTo DEF IInv
<1>4. ASSUME NEW q \in Requests PROVE Outcome'[q] = [Outcome EXCEPT ![r] = View(intent)][q]
  BY <1>1, <1>2, <1>3
<1>5. Outcome' = [q \in Requests |-> Outcome'[q]]
  BY <1>2
<1>6. [Outcome EXCEPT ![r] = View(intent)] = [q \in Requests |-> [Outcome EXCEPT ![r] = View(intent)][q]]
  BY <1>1
<1> HIDE DEF View
<1> QED
  BY <1>1, <1>4, <1>5, <1>6

LEMMA SameOutcome ==
  ASSUME UNCHANGED intents
  PROVE  [Abstract!Next]_Outcome
  BY DEF Outcome

LEMMA PutMoves ==
  ASSUME IInv, NEW r \in Requests, NEW intent \in IntentType, Put(r, intent)
  PROVE  Abstract!Move(r, Shown(intents[r].state), Shown(intent.state), intent.instance)
<1>1. Outcome[r] = View(intents[r]) /\ Outcome' = [Outcome EXCEPT ![r] = View(intent)]
  BY PutMaps
<1>2. Outcome[r].state = Shown(intents[r].state)
  BY <1>1 DEF View
<1>3. Outcome' = [Outcome EXCEPT ![r] = [state |-> Shown(intent.state), run |-> intent.instance]]
  BY <1>1 DEF View
<1> QED
  BY <1>2, <1>3 DEF Abstract!Move

\* How each pair of states that a step may join shows in the abstract one.
LEMMA ShownAs ==
  /\ Shown("NONE") = "none" /\ Shown("PREPARED") = "open" /\ Shown("SUBMITTED") = "known"
  /\ \A state \in {"CANCELLED", "INVALIDATED"} : Shown(state) = "refused"
  /\ \A state \in Unresolved : Shown(state) = "unknown"
  BY DEF Shown, Unresolved

\* A step that changes nothing but the state of a prepared or sent request.
LEMMA StateMaps ==
  ASSUME IInv, NEW r \in Requests, NEW state \in {"CANCELLED", "INVALIDATED", "SUBMITTING", "UNCERTAIN"},
         IF state = "UNCERTAIN" THEN intents[r].state = "SUBMITTING" ELSE intents[r].state = "PREPARED",
         Put(r, [intents[r] EXCEPT !.state = state])
  PROVE  [Abstract!Next]_Outcome
<1>1. TypeOK /\ intents[r].instance = NoInstance
  BY DEF IInv, RequestOk
<1>2. \E intent \in IntentType : Put(r, intent) /\ intent.state = state /\ intent.instance = NoInstance
  <2>1. state \in States /\ (state \in Untouched => intents[r].state \in Untouched)
    BY DEF States, Untouched
  <2>2. \E intent \in IntentType :
          /\ Put(r, intent) /\ Recorded(r, intent)
          /\ intent.state = state /\ intent.instance = intents[r].instance
    BY <1>1, <2>1, StateOnly
  <2> QED
    BY <1>1, <2>2
<1>3. PICK intent \in IntentType : Put(r, intent) /\ intent.state = state /\ intent.instance = NoInstance
  BY <1>2
<1>4. Abstract!Move(r, Shown(intents[r].state), Shown(state), NoInstance)
  BY <1>3, PutMoves
<1>5. CASE state = "UNCERTAIN"
  <2>1. Outcome[r] = View(intents[r]) /\ Outcome' = [Outcome EXCEPT ![r] = View(intent)]
    BY <1>3, PutMaps
  <2>2. View(intent) = View(intents[r])
    BY <1>1, <1>3, <1>5, ShownAs DEF View, Unresolved
  <2>3. Outcome = [q \in Requests |-> Outcome[q]]
    BY DEF Outcome
  <2> HIDE DEF Outcome
  <2>4. Outcome' = Outcome
    BY <2>1, <2>2, <2>3
  <2> QED
    BY <2>4
<1>6. CASE state = "SUBMITTING"
  <2>1. Abstract!Use(r)
    BY <1>4, <1>6, ShownAs DEF Abstract!Use, Unresolved
  <2> QED
    BY <2>1 DEF Abstract!Next
<1>7. CASE state \in {"CANCELLED", "INVALIDATED"}
  <2>1. Abstract!Refuse(r)
    BY <1>4, <1>7, ShownAs DEF Abstract!Refuse
  <2> QED
    BY <2>1 DEF Abstract!Next
<1> QED
  BY <1>5, <1>6, <1>7

LEMMA PrepareSaveMaps ==
  ASSUME IInv, NEW w \in Windows, PrepareSave(w)
  PROVE  [Abstract!Next]_Outcome
<1> DEFINE new == [NoIntent EXCEPT !.state = "PREPARED", !.version = seen[w].version, !.last = seen[w].last]
<1>1. /\ job[w] \in Requests /\ intents[job[w]].state = "NONE"
      /\ seen[w].last \in Nat /\ seen[w].version \in Nat
  BY DEF IInv, PrepareSave, WindowOk, TypeOK, ReadType, NoIntent
<1>2. new \in IntentType /\ new.state = "PREPARED" /\ Put(job[w], new)
  BY <1>1, NoReadType DEF IntentType, States, PrepareSave
<1>3. new.instance = NoInstance
  <2>1. NoIntent.instance = NoInstance
    BY DEF NoIntent
  <2> QED
    BY <2>1, NoReadType DEF IntentType
<1> HIDE DEF new
<1>4. Abstract!Make(job[w])
  BY <1>1, <1>2, <1>3, PutMoves, ShownAs DEF Abstract!Make
<1> QED
  BY <1>1, <1>4 DEF Abstract!Next

\* An answer or a link names the run.
LEMMA NamedMaps ==
  ASSUME IInv, NEW r \in Requests, NEW n \in Instances, NEW ended \in BOOLEAN, intents[r].state \in Unresolved,
         NEW intent \in {[intents[r] EXCEPT !.state = "SUBMITTED", !.instance = n],
                         [intents[r] EXCEPT !.state = "SUBMITTED", !.instance = n, !.ended = ended]},
         Put(r, intent)
  PROVE  [Abstract!Next]_Outcome
<1>1. intents[r] \in IntentType
  BY DEF IInv, TypeOK, IntentType
<1>2. intent \in IntentType /\ intent.state = "SUBMITTED" /\ intent.instance = n
  BY <1>1 DEF IntentType, States
<1>3. Abstract!Move(r, "unknown", "known", n)
  BY <1>2, PutMoves, ShownAs
<1> QED
  BY <1>3 DEF Abstract!Next, Abstract!Learn

LEMMA StatusSaveMaps ==
  ASSUME IInv, NEW w \in Windows, StatusSave(w)
  PROVE  [Abstract!Next]_Outcome
<1> DEFINE r == job[w]
           new == [intents[r] EXCEPT !.ended = seen[w].ended]
<1>1. r \in Requests /\ intents[r] \in IntentType /\ seen[w].ended \in BOOLEAN
  BY DEF IInv, WindowOk, StatusSave, TypeOK, IntentType, ReadType
<1>2. /\ new \in IntentType /\ new.state = intents[r].state /\ new.instance = intents[r].instance
      /\ Put(r, new)
  BY <1>1 DEF IntentType, StatusSave
<1> HIDE DEF new
<1>3. Outcome[r] = View(intents[r]) /\ Outcome' = [Outcome EXCEPT ![r] = View(new)] /\ View(new) = View(intents[r])
  BY <1>1, <1>2, PutMaps DEF View
<1>4. Outcome = [q \in Requests |-> Outcome[q]]
  BY DEF Outcome
<1> HIDE DEF Outcome
<1>5. Outcome' = Outcome
  BY <1>3, <1>4
<1> QED
  BY <1>5

\* A stored request is refused or used once, and its outcome is learned at most
\* once and never changes: every step is a step of OneShot or leaves it alone.
THEOREM ImplementsOneShotHolds == Spec => ImplementsOneShot
<1>1. Init => Abstract!Init
  <2> SUFFICES ASSUME Init PROVE Outcome = [r \in Requests |-> [state |-> "none", run |-> NoInstance]]
    BY DEF Abstract!Init
  <2>1. Outcome = [r \in Requests |-> View(intents[r])]
    BY DEF Outcome, View, Shown
  <2>2. \A r \in Requests : View(intents[r]) = [state |-> "none", run |-> NoInstance]
    BY ShownAs DEF Init, NoIntent, View
  <2> QED
    BY <2>1, <2>2
<1>2. IInv /\ [Next]_vars => [Abstract!Next]_Outcome
  <2> SUFFICES ASSUME IInv, [Next]_vars PROVE [Abstract!Next]_Outcome
    OBVIOUS
  <2>1. CASE UNCHANGED vars
    BY <2>1, SameOutcome DEF vars
  <2>2. CASE Scheduler
    BY <2>2, SameOutcome DEF Scheduler, Accept, Refuse, Expire, NativeRun, NativeChange, NativeEnd
  <2>3. ASSUME NEW w \in Windows, Prepare(w) PROVE [Abstract!Next]_Outcome
    BY <2>3, PrepareSaveMaps, SameOutcome DEF Prepare, PrepareRead
  <2>4. ASSUME NEW w \in Windows, Submit(w) PROVE [Abstract!Next]_Outcome
    <3>1. ASSUME NEW r \in Requests, SubmitBegin(w, r) \/ SubmitExpired(w, r)
          PROVE  [Abstract!Next]_Outcome
      BY <3>1, StateMaps, SameOutcome DEF SubmitBegin, SubmitExpired
    <3>2. CASE Agree(w) \/ CheckBaseline(w) \/ Throw(w) \/ Schedule(w)
      BY <3>2, SameOutcome DEF Agree, CheckBaseline, Throw, Schedule
    <3>3. CASE Decline(w) \/ Invalidate(w) \/ Submitting(w) \/ Unanswered(w)
      <4>1. job[w] \in Requests
        BY <3>3 DEF IInv, WindowOk, Decline, Invalidate, Submitting, Unanswered, Step
      <4>2. IF pc[w] = "waiting" THEN intents[job[w]].state = "SUBMITTING" ELSE intents[job[w]].state = "PREPARED"
        BY <3>3 DEF IInv, WindowOk, Decline, Invalidate, Submitting, Unanswered, Step
      <4> QED
        BY <3>3, <4>1, <4>2, StateMaps DEF Decline, Invalidate, Submitting, Unanswered, End, Step
    <3>4. CASE Answered(w)
      <4>1. job[w] \in Requests /\ intents[job[w]].state \in Unresolved
        BY <3>4 DEF Answered, IInv, WindowOk, Unresolved
      <4>2. PICK n \in RunOf(job[w]) : Put(job[w], [intents[job[w]] EXCEPT !.state = "SUBMITTED", !.instance = n])
        BY <3>4 DEF Answered
      <4>3. n \in Instances
        BY <4>2, LastType DEF IInv, RunOf
      <4> QED
        BY <4>1, <4>2, <4>3, NamedMaps
    <3> QED
      BY <2>4, <3>1, <3>2, <3>3, <3>4 DEF Submit
  <2>5. ASSUME NEW w \in Windows, Monitor(w) PROVE [Abstract!Next]_Outcome
    <3>1. ASSUME NEW r \in Requests, StatusRead(w, r) \/ Cancel(w, r) PROVE [Abstract!Next]_Outcome
      BY <3>1, StateMaps, SameOutcome DEF StatusRead, Cancel
    <3>2. ASSUME NEW r \in Requests, NEW n \in Instances, Reconcile(w, r, n) PROVE [Abstract!Next]_Outcome
      <4>1. runs[n].ended \in BOOLEAN
        BY DEF IInv, TypeOK
      <4> QED
        BY <3>2, <4>1, NamedMaps DEF Reconcile
    <3>3. CASE GiveUp(w)
      BY <3>3, SameOutcome DEF GiveUp
    <3> QED
      BY <2>5, <3>1, <3>2, <3>3, StatusSaveMaps DEF Monitor
  <2>6. ASSUME NEW w \in Windows, Crash(w) PROVE [Abstract!Next]_Outcome
    BY <2>6, SameOutcome DEF Crash
  <2> QED
    BY <2>1, <2>2, <2>3, <2>4, <2>5, <2>6 DEF Next
<1> QED
  BY <1>1, <1>2, Inductive, PTL DEF Spec, ImplementsOneShot, Abstract!Spec
===============================================================================
