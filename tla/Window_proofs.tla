----------------------------- MODULE Window_proofs -----------------------------
(***************************************************************************)
(* Proofs about three parts of a VS Code window that share no state: its   *)
(* live connections, the build request it edits, and the diagnostics it    *)
(* shows as PeopleCode is typed.                                           *)
(*                                                                         *)
(* Their specifications are Spec, RequestSpec and LiveSpec; each has an    *)
(* inductive invariant of its own.                                         *)
(***************************************************************************)
EXTENDS Connections, BuildRequest, LiveValidation, FiniteSetTheorems, SequenceTheorems,
        WellFoundedInduction, TLAPS

(***************************************************************************)
(* The connections, for any callers, connections and providers.            *)
(*                                                                         *)
(* What carries it: a connect still has to disconnect every other one that *)
(* is registered, as long as connects take turns; and as long as calls do, *)
(* what is open is registered or held by the one call under way.           *)
(***************************************************************************)
\* What a caller holds at each place of its call.
TaskOk(c) ==
  \/ task[c] = Idle
  \/ /\ task[c].pc = "opening" /\ task[c].id \in Connections /\ task[c].provider \in Providers
     /\ task[c].closing = NoProvider /\ task[c].todo = {}
  \/ /\ task[c].pc = "closing" /\ task[c].id \in Connections /\ task[c].provider \in Providers
     /\ task[c].closing \in Providers /\ life[task[c].provider] \in {"open", "closed"}
  \/ /\ task[c].pc = "disconnecting" /\ task[c].id \in Connections /\ task[c].provider = NoProvider
     /\ task[c].closing \in Providers /\ task[c].todo = {}

Registered(id) == providers[id] # NoProvider

\* While a connect closes the others, nothing else is registered than its own
\* connection and those it still has to disconnect.
Left(c) ==
  task[c].pc = "closing" =>
    \A id \in Connections : Registered(id) => id = task[c].id \/ \E other \in task[c].todo : other[1] = id

\* As long as no two connects have overlapped, one is under way at most, and
\* one connection is registered at most.
InTurn ==
  "connects" \notin overlapped =>
    /\ \A c, d \in Callers : Connecting(c) /\ Connecting(d) => c = d
    /\ \A a, b \in Connections : Registered(a) /\ Registered(b) => a = b
    /\ \A c \in Callers : Left(c)

\* What the one call under way knows is still so: its connection is not up yet,
\* and what it is to close is what is registered.
Held(c) ==
  /\ task[c].pc = "opening" => life[task[c].provider] = "opening"
  /\ Connecting(c) =>
       /\ ~Connected(task[c].id)
       /\ \A other \in task[c].todo : other[2] = providers[other[1]]
  /\ Disconnecting(c) => task[c].closing = providers[task[c].id]

\* As long as no calls have overlapped, one is under way at most, and what is
\* open is owned, but for what a connect could not close.
Alone ==
  overlapped = {} =>
    /\ \A c, d \in Callers : task[c] # Idle /\ task[d] # Idle => c = d
    /\ \A c \in Callers : Held(c)
    /\ \A p \in Providers \ unclosed : life[p] = "open" => Owned(p)

\* Inductive.
IInv ==
  /\ TypeOK
  /\ \A c \in Callers : TaskOk(c)
  /\ TargetIsLive
  /\ InTurn
  /\ Alone

-------------------------------------------------------------------------------
\* What has been connected is open or closed from then on.
Settled(p) == life[p] \in {"open", "closed"}

\* The task of one caller is set, those of the others stay.
LEMMA OneTask ==
  ASSUME TypeOK, NEW c \in Callers, NEW t, task' = [task EXCEPT ![c] = t]
  PROVE  /\ task'[c] = t
         /\ \A d \in Callers : d # c => task'[d] = task[d]
  BY DEF TypeOK

\* The life of one provider is set, those of the others stay.
LEMMA OneLife ==
  ASSUME TypeOK, NEW p \in Providers, NEW v \in {"unborn", "opening", "open", "closed"},
         life' = [life EXCEPT ![p] = v]
  PROVE  /\ life' \in [Providers -> {"unborn", "opening", "open", "closed"}]
         /\ life'[p] = v
         /\ \A q \in Providers : q # p => life'[q] = life[q]
  BY DEF TypeOK

\* One connection is unregistered, the others stay.
LEMMA Unregistered ==
  ASSUME TypeOK, NEW gone \in Connections, providers' = [providers EXCEPT ![gone] = NoProvider]
  PROVE  /\ providers' \in [Connections -> MaybeProvider]
         /\ providers'[gone] = NoProvider
         /\ \A id \in Connections : id # gone => providers'[id] = providers[id]
  BY DEF TypeOK, MaybeProvider

\* The task of a caller keeps its shape while nothing it holds unsettles.
LEMMA TaskStays ==
  ASSUME NEW c \in Callers, TaskOk(c), task'[c] = task[c],
         \A p \in Providers : Settled(p) => Settled(p)'
  PROVE  TaskOk(c)'
  BY DEF TaskOk, Idle, Settled

\* A caller that has returned holds nothing.
LEMMA IdleOk ==
  ASSUME NEW c \in Callers, task'[c] = Idle
  PROVE  TaskOk(c)'
  BY DEF TaskOk, Idle

\* A caller that is not idle has one of three program counters.
LEMMA Busy ==
  ASSUME NEW c \in Callers, TaskOk(c)
  PROVE  /\ task[c] = Idle <=> task[c].pc = "idle"
         /\ task[c] # Idle <=> Connecting(c) \/ Disconnecting(c)
  BY DEF TaskOk, Idle, Connecting, Disconnecting

\* At most one registered connection, as a cardinality.
LEMMA AtMostOne ==
  ASSUME \A a, b \in Connections : Registered(a) /\ Registered(b) => a = b
  PROVE  OneActive
<1> DEFINE S == {id \in Connections : providers[id] # NoProvider}
<1>1. CASE S = {}
  BY <1>1, FS_EmptySet DEF OneActive
<1>2. CASE S # {}
  <2>1. PICK a \in S : TRUE
    BY <1>2
  <2>2. S = {a}
    BY <2>1 DEF Registered
  <2>3. Cardinality(S) = 1
    BY <2>2, FS_Singleton, Zenon
  <2>4. Cardinality(S) <= 1
    BY <2>3
  <2> QED
    BY <2>4 DEF OneActive
<1> QED
  BY <1>1, <1>2

-------------------------------------------------------------------------------
\* A call starts: with overlapped calls on record the rest says nothing, and
\* otherwise it starts alone.
LEMMA Starting ==
  ASSUME NEW c \in Callers, NEW call \in {"connects", "disconnects"}, Start(c, call), TypeOK,
         \A d \in Callers : TaskOk(d)
  PROVE  /\ overlapped \subseteq overlapped' /\ overlapped' \subseteq {"connects", "disconnects"}
         /\ "connects" \notin overlapped' /\ call = "connects" => \A d \in Callers : ~Connecting(d)
         /\ overlapped' = {} => \A d \in Callers : task[d] = Idle
<1>1. overlapped' = overlapped \cup
       {kind \in {"connects", "disconnects"} :
          IF kind = "connects" THEN call = kind /\ \E other \in Callers : Connecting(other)
          ELSE \E other \in Callers : Disconnecting(other) \/ (call = kind /\ task[other] # Idle)}
  BY DEF Start
<1>2. overlapped \subseteq {"connects", "disconnects"}
  BY DEF TypeOK
<1>3. "connects" \notin overlapped' /\ call = "connects" => \A d \in Callers : ~Connecting(d)
  BY <1>1
<1>4. "disconnects" \notin overlapped' =>
        \A d \in Callers : ~Disconnecting(d) /\ (call = "disconnects" => task[d] = Idle)
  BY <1>1
<1>5. overlapped' = {} => \A d \in Callers : task[d] = Idle
  BY <1>3, <1>4, Busy
<1> QED
  BY <1>1, <1>2, <1>3, <1>5

\* A connect starts with a provider of its own.
LEMMA ConnectStep ==
  ASSUME IInv, NEW c \in Callers, NEW id \in Connections, Connect(c, id)
  PROVE  IInv'
<1>1. PICK p \in Providers :
        /\ life[p] = "unborn" /\ life' = [life EXCEPT ![p] = "opening"]
        /\ task' = [task EXCEPT ![c] = [Idle EXCEPT !.pc = "opening", !.id = id, !.provider = p]]
  BY DEF Connect
<1>2. /\ Start(c, "connects") /\ ~Connected(id) /\ providers' = providers /\ selected' = selected
      /\ task[c] = Idle /\ unclosed' = unclosed
  BY DEF Connect, Start
<1>3. TypeOK /\ (\A d \in Callers : TaskOk(d)) /\ TargetIsLive /\ InTurn /\ Alone
  BY DEF IInv
<1> DEFINE new == [Idle EXCEPT !.pc = "opening", !.id = id, !.provider = p]
<1>4. task' = [task EXCEPT ![c] = new]
  BY <1>1
<1>5. new.pc = "opening" /\ new.id = id /\ new.provider = p /\ new.closing = NoProvider /\ new.todo = {}
  BY DEF Idle
<1> HIDE DEF new
<1>6. /\ task'[c] = new
      /\ \A d \in Callers : d # c => task'[d] = task[d]
  BY <1>3, <1>4, OneTask
<1>7. /\ life' \in [Providers -> {"unborn", "opening", "open", "closed"}]
      /\ life'[p] = "opening"
      /\ \A q \in Providers : q # p => life'[q] = life[q]
  BY <1>1, <1>3, OneLife
<1>8. /\ overlapped \subseteq overlapped' /\ overlapped' \subseteq {"connects", "disconnects"}
      /\ "connects" \notin overlapped' => \A d \in Callers : ~Connecting(d)
      /\ overlapped' = {} => \A d \in Callers : task[d] = Idle
  BY <1>2, <1>3, Starting
<1>9. \A q \in Providers : Settled(q) => Settled(q)'
  BY <1>1, <1>7 DEF Settled
<1>10. TypeOK'
  <2>1. new \in [pc : {"idle", "opening", "closing", "disconnecting"}, id : MaybeConnection,
                 provider : MaybeProvider, closing : MaybeProvider, todo : SUBSET (Connections \X Providers)]
    BY <1>1 DEF new, Idle, MaybeConnection, MaybeProvider
  <2>2. task' \in [Callers -> [pc : {"idle", "opening", "closing", "disconnecting"}, id : MaybeConnection,
                 provider : MaybeProvider, closing : MaybeProvider, todo : SUBSET (Connections \X Providers)]]
    BY <2>1, <1>3, <1>4 DEF TypeOK
  <2>3. \A o \in Connections : providers[o] # NoProvider => life'[providers[o]] \in {"open", "closed"}
    BY <1>3, <1>9 DEF TypeOK, Settled, MaybeProvider
  <2> QED
    BY <2>2, <2>3, <1>2, <1>3, <1>7, <1>8 DEF TypeOK
<1>11. ASSUME NEW d \in Callers PROVE TaskOk(d)'
  <2>1. CASE d = c
    BY <2>1, <1>1, <1>5, <1>6 DEF TaskOk
  <2>2. CASE d # c
    BY <2>2, <1>3, <1>6, <1>9, TaskStays
  <2> QED
    BY <2>1, <2>2
<1>12. TargetIsLive'
  BY <1>2, <1>3, <1>6 DEF TargetIsLive, Idle
<1>13. InTurn'
  <2> SUFFICES ASSUME "connects" \notin overlapped' PROVE InTurn'
    BY DEF InTurn
  <2>1. \A d \in Callers : d # c => ~Connecting(d)'
    BY <1>6, <1>8 DEF Connecting
  <2>2. \A d, e \in Callers : Connecting(d)' /\ Connecting(e)' => d = e
    BY <2>1
  <2>3. \A a, b \in Connections : Registered(a)' /\ Registered(b)' => a = b
    BY <1>2, <1>3, <1>8 DEF InTurn, Registered
  <2>4. \A d \in Callers : Left(d)'
    BY <2>1, <1>5, <1>6 DEF Left, Connecting
  <2> QED
    BY <2>2, <2>3, <2>4 DEF InTurn
<1>14. Alone'
  <2> SUFFICES ASSUME overlapped' = {} PROVE Alone'
    BY DEF Alone
  <2>1. \A d \in Callers : d # c => task'[d] = Idle
    BY <1>6, <1>8
  <2>2. \A d, e \in Callers : task'[d] # Idle /\ task'[e] # Idle => d = e
    BY <2>1
  <2>3. ~(providers[id] # NoProvider /\ life'[providers[id]] = "open")
    BY <1>2, <1>3, <1>7 DEF Connected, TypeOK, MaybeProvider
  <2>4. Held(c)'
    BY <2>3, <1>2, <1>5, <1>6, <1>7 DEF Held, Connecting, Disconnecting, Connected
  <2>5. \A d \in Callers : Held(d)'
    BY <2>1, <2>4 DEF Held, Connecting, Disconnecting, Idle
  <2>6. ASSUME NEW q \in Providers \ unclosed', life'[q] = "open" PROVE Owned(q)'
    <3>1. life[q] = "open" /\ overlapped = {} /\ q \in Providers \ unclosed
      BY <2>6, <1>2, <1>7, <1>8
    <3>2. Owned(q)
      BY <3>1, <1>3 DEF Alone
    <3>3. NoProvider \notin Providers
      BY NoneAssumption
    <3>4. \E o \in Connections : providers[o] = q
      BY <3>2, <3>3, <1>8 DEF Owned, Idle
    <3> QED
      BY <3>4, <1>2 DEF Owned
  <2> QED
    BY <2>2, <2>5, <2>6 DEF Alone
<1> QED
  BY <1>10, <1>11, <1>12, <1>13, <1>14 DEF IInv

\* Connects keep taking turns when a call that is not one of them (any more)
\* sets its task and registers nothing.
LEMMA TurnsStay ==
  ASSUME InTurn, overlapped \subseteq overlapped', NEW c \in Callers, ~Connecting(c)',
         \A d \in Callers : d # c => task'[d] = task[d],
         \A id \in Connections : Registered(id)' => Registered(id)
  PROVE  InTurn'
<1> SUFFICES ASSUME "connects" \notin overlapped' PROVE InTurn'
  BY DEF InTurn
<1>1. \A d \in Callers : Connecting(d)' => Connecting(d) /\ task'[d] = task[d]
  BY DEF Connecting
<1>2. \A d, e \in Callers : Connecting(d)' /\ Connecting(e)' => d = e
  BY <1>1 DEF InTurn
<1>3. \A a, b \in Connections : Registered(a)' /\ Registered(b)' => a = b
  BY DEF InTurn
<1>4. ASSUME NEW d \in Callers PROVE Left(d)'
  <2>1. CASE Connecting(d)'
    <3>1. task'[d] = task[d] /\ Left(d)
      BY <1>1, <2>1 DEF InTurn
    <3> QED
      BY <3>1 DEF Left
  <2>2. CASE ~Connecting(d)'
    BY <2>2 DEF Left, Connecting
  <2> QED
    BY <2>1, <2>2
<1> QED
  BY <1>2, <1>3, <1>4 DEF InTurn

\* A call that ends leaves nobody busy when it was alone.
LEMMA AllIdle ==
  ASSUME Alone, overlapped = {}, NEW c \in Callers, task[c] # Idle, task'[c] = Idle,
         \A d \in Callers : d # c => task'[d] = task[d]
  PROVE  /\ \A d \in Callers : d # c => task[d] = Idle
         /\ \A d, e \in Callers : task'[d] # Idle /\ task'[e] # Idle => d = e
         /\ \A d \in Callers : Held(d)'
<1>1. \A d \in Callers : d # c => task[d] = Idle
  BY DEF Alone
<1>2. \A d \in Callers : task'[d] = Idle
  BY <1>1
<1>3. \A d \in Callers : Held(d)'
  BY <1>2 DEF Held, Connecting, Disconnecting, Idle
<1> QED
  BY <1>1, <1>2, <1>3

\* Who holds a provider when one call is under way: its connection or that call.
LEMMA OwnedAlone ==
  ASSUME Alone, overlapped = {}, NEW c \in Callers, \A d \in Callers : d # c => task[d] = Idle,
         NEW p \in Providers \ unclosed, life[p] = "open"
  PROVE  \/ \E id \in Connections : providers[id] = p
         \/ p \in {task[c].provider, task[c].closing} \cup {other[2] : other \in task[c].todo}
<1>1. Owned(p)
  BY DEF Alone
<1>2. p # NoProvider
  BY NoneAssumption
<1>3. \A d \in Callers : d # c => p \notin {task[d].provider, task[d].closing} \cup {other[2] : other \in task[d].todo}
  BY <1>2 DEF Idle
<1> QED
  BY <1>1, <1>3 DEF Owned

\* The types that a step of one caller and one provider leaves.
LEMMA TypesStay ==
  ASSUME TypeOK, \A d \in Callers : TaskOk(d), NEW c \in Callers, NEW t, TaskOk(c)',
         task' = [task EXCEPT ![c] = t],
         t \in [pc : {"idle", "opening", "closing", "disconnecting"}, id : MaybeConnection,
                provider : MaybeProvider, closing : MaybeProvider, todo : SUBSET (Connections \X Providers)],
         life' \in [Providers -> {"unborn", "opening", "open", "closed"}],
         \A p \in Providers : Settled(p) => Settled(p)',
         providers' \in [Connections -> MaybeProvider], selected' \in MaybeConnection,
         \A id \in Connections : providers'[id] = providers[id] \/ providers'[id] = NoProvider
                               \/ life'[providers'[id]] \in {"open", "closed"},
         overlapped' \subseteq {"connects", "disconnects"}, unclosed' \subseteq Providers
  PROVE  TypeOK' /\ (\A d \in Callers : TaskOk(d))'
<1>1. task' \in [Callers -> [pc : {"idle", "opening", "closing", "disconnecting"}, id : MaybeConnection,
                 provider : MaybeProvider, closing : MaybeProvider, todo : SUBSET (Connections \X Providers)]]
  BY DEF TypeOK
<1>2. ASSUME NEW id \in Connections, providers'[id] # NoProvider
      PROVE  life'[providers'[id]] \in {"open", "closed"}
  <2>1. CASE providers'[id] = providers[id]
    <3>1. providers[id] \in Providers /\ Settled(providers[id])
      BY <1>2, <2>1 DEF TypeOK, MaybeProvider, Settled
    <3> QED
      BY <3>1, <2>1 DEF Settled
  <2> QED
    BY <1>2, <2>1
<1>3. TypeOK'
  BY <1>1, <1>2 DEF TypeOK
<1>4. ASSUME NEW d \in Callers PROVE TaskOk(d)'
  <2>1. CASE d # c
    <3>1. task'[d] = task[d]
      BY <2>1, OneTask
    <3> QED
      BY <3>1, TaskStays
  <2> QED
    BY <2>1
<1> QED
  BY <1>3, <1>4

\* The task of a caller that does nothing has the type of a task.
IdleType == Idle \in [pc : {"idle", "opening", "closing", "disconnecting"}, id : MaybeConnection,
                provider : MaybeProvider, closing : MaybeProvider, todo : SUBSET (Connections \X Providers)]

LEMMA IdleTyped == IdleType
  BY DEF IdleType, Idle, MaybeConnection, MaybeProvider

-------------------------------------------------------------------------------
\* A provider that did not connect is closed, and nobody had it but the call.
LEMMA ConnectFailsStep ==
  ASSUME IInv, NEW c \in Callers, ConnectFails(c)
  PROVE  IInv'
<1>1. TypeOK /\ (\A d \in Callers : TaskOk(d)) /\ TargetIsLive /\ InTurn /\ Alone
  BY DEF IInv
<1>2. /\ task[c].pc = "opening"
      /\ life' = [life EXCEPT ![task[c].provider] = "closed"]
      /\ task' = [task EXCEPT ![c] = Idle]
      /\ providers' = providers /\ selected' = selected /\ overlapped' = overlapped /\ unclosed' = unclosed
  BY DEF ConnectFails
<1>3. task[c].provider \in Providers /\ task[c].closing = NoProvider /\ task[c].todo = {} /\ task[c] # Idle
  BY <1>1, <1>2 DEF TaskOk, Idle
<1>4. task'[c] = Idle /\ \A d \in Callers : d # c => task'[d] = task[d]
  BY <1>1, <1>2, OneTask
<1>5. /\ life' \in [Providers -> {"unborn", "opening", "open", "closed"}]
      /\ life'[task[c].provider] = "closed"
      /\ \A q \in Providers : q # task[c].provider => life'[q] = life[q]
  BY <1>1, <1>2, <1>3, OneLife
<1>6. \A q \in Providers : Settled(q) => Settled(q)'
  BY <1>5 DEF Settled
<1>7. TypeOK' /\ (\A d \in Callers : TaskOk(d))'
  <2>1. TaskOk(c)'
    BY <1>4, IdleOk
  <2>2. providers' \in [Connections -> MaybeProvider] /\ selected' \in MaybeConnection
        /\ overlapped' \subseteq {"connects", "disconnects"} /\ unclosed' \subseteq Providers
    BY <1>1, <1>2 DEF TypeOK
  <2> QED
    BY <2>1, <2>2, <1>1, <1>2, <1>5, <1>6, IdleTyped, TypesStay DEF IdleType
<1>8. TargetIsLive'
  BY <1>1, <1>2, <1>4 DEF TargetIsLive
<1>9. InTurn'
  <2>1. ~Connecting(c)'
    BY <1>4 DEF Connecting, Idle
  <2> QED
    BY <2>1, <1>1, <1>2, <1>4, TurnsStay DEF Registered
<1>10. Alone'
  <2> SUFFICES ASSUME overlapped' = {} PROVE Alone'
    BY DEF Alone
  <2>1. /\ \A d \in Callers : d # c => task[d] = Idle
        /\ \A d, e \in Callers : task'[d] # Idle /\ task'[e] # Idle => d = e
        /\ \A d \in Callers : Held(d)'
    BY <1>1, <1>2, <1>3, <1>4, AllIdle
  <2>2. ASSUME NEW q \in Providers \ unclosed', life'[q] = "open" PROVE Owned(q)'
    <3>1. life[q] = "open" /\ q # task[c].provider
      BY <2>2, <1>5
    <3>2. \/ \E id \in Connections : providers[id] = q
          \/ q \in {task[c].provider, task[c].closing} \cup {other[2] : other \in task[c].todo}
      BY <3>1, <2>1, <1>1, <1>2, OwnedAlone
    <3>3. \E id \in Connections : providers[id] = q
      BY <3>1, <3>2, <1>3, NoneAssumption
    <3> QED
      BY <3>3, <1>2 DEF Owned
  <2> QED
    BY <2>1, <2>2 DEF Alone
<1> QED
  BY <1>7, <1>8, <1>9, <1>10 DEF IInv

\* A disconnect holds the provider it found registered.
LEMMA DisconnectStep ==
  ASSUME IInv, NEW c \in Callers, NEW id \in Connections, Disconnect(c, id)
  PROVE  IInv'
<1>1. TypeOK /\ (\A d \in Callers : TaskOk(d)) /\ TargetIsLive /\ InTurn /\ Alone
  BY DEF IInv
<1> DEFINE new == [Idle EXCEPT !.pc = "disconnecting", !.id = id, !.closing = providers[id]]
<1>2. /\ Start(c, "disconnects") /\ task[c] = Idle /\ providers[id] # NoProvider
      /\ task' = [task EXCEPT ![c] = new]
      /\ providers' = providers /\ selected' = selected /\ life' = life /\ unclosed' = unclosed
  BY DEF Disconnect, Start
<1>3. providers[id] \in Providers
  BY <1>1, <1>2 DEF TypeOK, MaybeProvider
<1>4. new \in [pc : {"idle", "opening", "closing", "disconnecting"}, id : MaybeConnection,
                provider : MaybeProvider, closing : MaybeProvider, todo : SUBSET (Connections \X Providers)]
  BY <1>3 DEF Idle, MaybeConnection, MaybeProvider
<1>5. /\ new.pc = "disconnecting" /\ new.id = id /\ new.provider = NoProvider
      /\ new.closing = providers[id] /\ new.todo = {}
  BY DEF Idle
<1> HIDE DEF new
<1>6. task'[c] = new /\ \A d \in Callers : d # c => task'[d] = task[d]
  BY <1>1, <1>2, OneTask
<1>7. /\ overlapped \subseteq overlapped' /\ overlapped' \subseteq {"connects", "disconnects"}
      /\ overlapped' = {} => \A d \in Callers : task[d] = Idle
  BY <1>1, <1>2, Starting
<1>8. TypeOK' /\ (\A d \in Callers : TaskOk(d))'
  <2>1. TaskOk(c)'
    BY <1>3, <1>5, <1>6 DEF TaskOk
  <2>2. /\ providers' \in [Connections -> MaybeProvider] /\ selected' \in MaybeConnection
        /\ unclosed' \subseteq Providers
        /\ life' \in [Providers -> {"unborn", "opening", "open", "closed"}]
        /\ \A q \in Providers : Settled(q) => Settled(q)'
    BY <1>1, <1>2 DEF TypeOK, Settled
  <2> QED
    BY <2>1, <2>2, <1>1, <1>2, <1>4, <1>7, TypesStay
<1>9. TargetIsLive'
  BY <1>1, <1>2, <1>6 DEF TargetIsLive, Idle
<1>10. InTurn'
  <2>1. ~Connecting(c)'
    BY <1>5, <1>6 DEF Connecting
  <2> QED
    BY <2>1, <1>1, <1>2, <1>6, <1>7, TurnsStay DEF Registered
<1>11. Alone'
  <2> SUFFICES ASSUME overlapped' = {} PROVE Alone'
    BY DEF Alone
  <2>1. \A d \in Callers : d # c => task'[d] = Idle
    BY <1>6, <1>7
  <2>2. \A d, e \in Callers : task'[d] # Idle /\ task'[e] # Idle => d = e
    BY <2>1
  <2>3. Held(c)'
    BY <1>2, <1>5, <1>6 DEF Held, Connecting, Disconnecting
  <2>4. \A d \in Callers : Held(d)'
    BY <2>1, <2>3 DEF Held, Connecting, Disconnecting, Idle
  <2>5. ASSUME NEW q \in Providers \ unclosed', life'[q] = "open" PROVE Owned(q)'
    <3>1. Owned(q)
      BY <2>5, <1>1, <1>2, <1>7 DEF Alone
    <3>2. \E o \in Connections : providers[o] = q
      BY <3>1, <1>7, NoneAssumption DEF Owned, Idle
    <3> QED
      BY <3>2, <1>2 DEF Owned
  <2> QED
    BY <2>2, <2>4, <2>5 DEF Alone
<1> QED
  BY <1>8, <1>9, <1>10, <1>11 DEF IInv

\* A disconnect that fails leaves its provider registered.
LEMMA DisconnectFailsStep ==
  ASSUME IInv, NEW c \in Callers, DisconnectFails(c)
  PROVE  IInv'
<1>1. TypeOK /\ (\A d \in Callers : TaskOk(d)) /\ TargetIsLive /\ InTurn /\ Alone
  BY DEF IInv
<1>2. /\ task[c].pc = "disconnecting" /\ task' = [task EXCEPT ![c] = Idle]
      /\ providers' = providers /\ selected' = selected /\ life' = life /\ overlapped' = overlapped
      /\ unclosed' = unclosed
  BY DEF DisconnectFails
<1>3. task[c].id \in Connections /\ task[c].provider = NoProvider /\ task[c].todo = {} /\ task[c] # Idle
  BY <1>1, <1>2 DEF TaskOk, Idle
<1>4. task'[c] = Idle /\ \A d \in Callers : d # c => task'[d] = task[d]
  BY <1>1, <1>2, OneTask
<1>5. TypeOK' /\ (\A d \in Callers : TaskOk(d))'
  <2>1. TaskOk(c)'
    BY <1>4, IdleOk
  <2>2. /\ providers' \in [Connections -> MaybeProvider] /\ selected' \in MaybeConnection
        /\ life' \in [Providers -> {"unborn", "opening", "open", "closed"}]
        /\ overlapped' \subseteq {"connects", "disconnects"} /\ unclosed' \subseteq Providers
        /\ \A q \in Providers : Settled(q) => Settled(q)'
    BY <1>1, <1>2 DEF TypeOK, Settled
  <2> QED
    BY <2>1, <2>2, <1>1, <1>2, IdleTyped, TypesStay DEF IdleType
<1>6. TargetIsLive'
  BY <1>1, <1>2, <1>4 DEF TargetIsLive
<1>7. InTurn'
  <2>1. ~Connecting(c)'
    BY <1>4 DEF Connecting, Idle
  <2> QED
    BY <2>1, <1>1, <1>2, <1>4, TurnsStay DEF Registered
<1>8. Alone'
  <2> SUFFICES ASSUME overlapped' = {} PROVE Alone'
    BY DEF Alone
  <2>1. /\ \A d \in Callers : d # c => task[d] = Idle
        /\ \A d, e \in Callers : task'[d] # Idle /\ task'[e] # Idle => d = e
        /\ \A d \in Callers : Held(d)'
    BY <1>1, <1>2, <1>3, <1>4, AllIdle
  <2>2. ASSUME NEW q \in Providers \ unclosed', life'[q] = "open" PROVE Owned(q)'
    <3>1. \/ \E id \in Connections : providers[id] = q
          \/ q \in {task[c].provider, task[c].closing} \cup {other[2] : other \in task[c].todo}
      BY <2>1, <2>2, <1>1, <1>2, OwnedAlone
    <3>2. task[c].closing = providers[task[c].id]
      BY <1>1, <1>2 DEF Alone, Held, Disconnecting
    <3>3. \E id \in Connections : providers[id] = q
      BY <3>1, <3>2, <1>3, NoneAssumption
    <3> QED
      BY <3>3, <1>2 DEF Owned
  <2> QED
    BY <2>1, <2>2 DEF Alone
<1> QED
  BY <1>5, <1>6, <1>7, <1>8 DEF IInv

\* A disconnect that succeeds: the target moves to a connection that is up.
LEMMA DisconnectedStep ==
  ASSUME IInv, NEW c \in Callers, Disconnected(c)
  PROVE  IInv'
<1>1. TypeOK /\ (\A d \in Callers : TaskOk(d)) /\ TargetIsLive /\ InTurn /\ Alone
  BY DEF IInv
<1> DEFINE gone == task[c].id
           up == {other \in Connections \ {gone} : providers[other] # NoProvider /\ life'[providers[other]] = "open"}
<1>2. /\ task[c].pc = "disconnecting" /\ task' = [task EXCEPT ![c] = Idle]
      /\ life' = [life EXCEPT ![task[c].closing] = "closed"]
      /\ providers' = [providers EXCEPT ![gone] = NoProvider]
      /\ selected' \in Fallback(gone, up) /\ overlapped' = overlapped /\ unclosed' = unclosed
  BY DEF Disconnected
<1>3. /\ gone \in Connections /\ task[c].provider = NoProvider /\ task[c].todo = {} /\ task[c] # Idle
      /\ task[c].closing \in Providers
  BY <1>1, <1>2 DEF TaskOk, Idle
<1>4. task'[c] = Idle /\ \A d \in Callers : d # c => task'[d] = task[d]
  BY <1>1, <1>2, OneTask
<1>5. /\ life' \in [Providers -> {"unborn", "opening", "open", "closed"}]
      /\ life'[task[c].closing] = "closed"
      /\ \A q \in Providers : q # task[c].closing => life'[q] = life[q]
  BY <1>1, <1>2, <1>3, OneLife
<1>6. \A q \in Providers : Settled(q) => Settled(q)'
  BY <1>5 DEF Settled
<1>7. /\ providers' \in [Connections -> MaybeProvider]
      /\ providers'[gone] = NoProvider
      /\ \A id \in Connections : id # gone => providers'[id] = providers[id]
  BY <1>1, <1>2, <1>3, Unregistered
<1>8. \/ selected # gone /\ selected' = selected
      \/ selected' \in Connections \ {gone} /\ providers[selected'] # NoProvider
      \/ selected' = NoConnection
  BY <1>2 DEF Fallback
<1>9. TypeOK' /\ (\A d \in Callers : TaskOk(d))'
  <2>1. TaskOk(c)'
    BY <1>4, IdleOk
  <2>2. selected' \in MaybeConnection /\ overlapped' \subseteq {"connects", "disconnects"}
        /\ unclosed' \subseteq Providers
    BY <1>1, <1>2, <1>8 DEF TypeOK, MaybeConnection
  <2>3. \A id \in Connections : providers'[id] = providers[id] \/ providers'[id] = NoProvider
    BY <1>7
  <2> QED
    BY <2>1, <2>2, <2>3, <1>1, <1>2, <1>5, <1>6, <1>7, IdleTyped, TypesStay DEF IdleType
<1>10. TargetIsLive'
  <2> SUFFICES ASSUME selected' # NoConnection
               PROVE  providers'[selected'] # NoProvider \/ \E d \in Callers : task'[d].pc = "closing"
    BY DEF TargetIsLive
  <2>1. CASE selected # gone /\ selected' = selected
    <3>1. selected \in Connections /\ providers'[selected] = providers[selected]
      BY <2>1, <1>1, <1>7 DEF TypeOK, MaybeConnection
    <3>2. CASE providers[selected] # NoProvider
      BY <2>1, <3>1, <3>2
    <3>3. CASE \E d \in Callers : task[d].pc = "closing"
      BY <3>3, <1>2, <1>4
    <3> QED
      BY <2>1, <3>2, <3>3, <1>1 DEF TargetIsLive
  <2>2. CASE selected' \in Connections \ {gone} /\ providers[selected'] # NoProvider
    BY <2>2, <1>7
  <2> QED
    BY <2>1, <2>2, <1>8
<1>11. InTurn'
  <2>1. ~Connecting(c)'
    BY <1>4 DEF Connecting, Idle
  <2>2. \A id \in Connections : Registered(id)' => Registered(id)
    BY <1>7 DEF Registered
  <2> QED
    BY <2>1, <2>2, <1>1, <1>2, <1>4, TurnsStay
<1>12. Alone'
  <2> SUFFICES ASSUME overlapped' = {} PROVE Alone'
    BY DEF Alone
  <2>1. /\ \A d \in Callers : d # c => task[d] = Idle
        /\ \A d, e \in Callers : task'[d] # Idle /\ task'[e] # Idle => d = e
        /\ \A d \in Callers : Held(d)'
    BY <1>1, <1>2, <1>3, <1>4, AllIdle
  <2>2. ASSUME NEW q \in Providers \ unclosed', life'[q] = "open" PROVE Owned(q)'
    <3>1. life[q] = "open" /\ q # task[c].closing /\ q # NoProvider
      BY <2>2, <1>5, NoneAssumption
    <3>2. \/ \E id \in Connections : providers[id] = q
          \/ q \in {task[c].provider, task[c].closing} \cup {other[2] : other \in task[c].todo}
      BY <3>1, <2>1, <1>1, <1>2, OwnedAlone
    <3>3. PICK id \in Connections : providers[id] = q
      BY <3>1, <3>2, <1>3
    <3>4. task[c].closing = providers[gone]
      BY <1>1, <1>2 DEF Alone, Held, Disconnecting
    <3>5. providers'[id] = q
      BY <3>1, <3>3, <3>4, <1>7
    <3> QED
      BY <3>5 DEF Owned
  <2> QED
    BY <2>1, <2>2 DEF Alone
<1> QED
  BY <1>9, <1>10, <1>11, <1>12 DEF IInv

-------------------------------------------------------------------------------
\* What a connect finds when it goes on with the others it has to disconnect:
\* in turn, nobody else is registered; alone, it or they hold what is open.
Onward(c, todo) ==
  /\ todo \in SUBSET (Connections \X Providers)
  /\ "connects" \notin overlapped =>
       \A id \in Connections : Registered(id) => id = task[c].id \/ \E other \in todo : other[1] = id
  /\ overlapped = {} =>
       /\ ~(Registered(task[c].id) /\ life'[providers[task[c].id]] = "open")
       /\ \A other \in todo : other[2] = providers[other[1]]
       /\ \A p \in Providers \ unclosed' : life'[p] = "open" =>
            \/ \E id \in Connections : providers[id] = p
            \/ p = task[c].provider \/ \E other \in todo : other[2] = p

\* Its provider becomes the one registered.
LEMMA ActivateStep ==
  ASSUME IInv, NEW c \in Callers, NEW todo, Connecting(c), Onward(c, todo), Activate(c, todo),
         life' \in [Providers -> {"unborn", "opening", "open", "closed"}],
         life'[task[c].provider] \in {"open", "closed"},
         \A p \in Providers : Settled(p) => Settled(p)',
         overlapped' = overlapped, unclosed' \subseteq Providers
  PROVE  IInv'
<1>1. TypeOK /\ (\A d \in Callers : TaskOk(d)) /\ TargetIsLive /\ InTurn /\ Alone
  BY DEF IInv
<1> DEFINE id == task[c].id
<1>2. /\ todo = {} /\ task' = [task EXCEPT ![c] = Idle] /\ selected' = id
      /\ providers' = [providers EXCEPT ![id] = task[c].provider]
  BY DEF Activate
<1>3. id \in Connections /\ task[c].provider \in Providers /\ task[c] # Idle
  BY <1>1 DEF TaskOk, Idle, Connecting
<1>4. task'[c] = Idle /\ \A d \in Callers : d # c => task'[d] = task[d]
  BY <1>1, <1>2, OneTask
<1>5. /\ providers' \in [Connections -> MaybeProvider]
      /\ providers'[id] = task[c].provider
      /\ \A o \in Connections : o # id => providers'[o] = providers[o]
  BY <1>1, <1>2, <1>3 DEF TypeOK, MaybeProvider
<1>6. TypeOK' /\ (\A d \in Callers : TaskOk(d))'
  <2>1. TaskOk(c)'
    BY <1>4, IdleOk
  <2>2. selected' \in MaybeConnection /\ overlapped' \subseteq {"connects", "disconnects"}
    BY <1>1, <1>2, <1>3 DEF TypeOK, MaybeConnection
  <2>3. \A o \in Connections : providers'[o] = providers[o] \/ life'[providers'[o]] \in {"open", "closed"}
    BY <1>5
  <2> QED
    BY <2>1, <2>2, <2>3, <1>1, <1>2, <1>5, IdleTyped, TypesStay DEF IdleType
<1>7. TargetIsLive'
  BY <1>2, <1>3, <1>5, NoneAssumption DEF TargetIsLive
<1>8. InTurn'
  <2> SUFFICES ASSUME "connects" \notin overlapped' PROVE InTurn'
    BY DEF InTurn
  <2>1. \A d \in Callers : ~Connecting(d)'
    <3>1. \A d \in Callers : d # c => ~Connecting(d)
      BY <1>1 DEF InTurn
    <3> QED
      BY <3>1, <1>4 DEF Connecting, Idle
  <2>2. \A o \in Connections : Registered(o)' => o = id
    BY <1>2, <1>5 DEF Onward, Registered
  <2>3. \A d \in Callers : Left(d)'
    BY <2>1 DEF Left, Connecting
  <2> QED
    BY <2>1, <2>2, <2>3 DEF InTurn
<1>9. Alone'
  <2> SUFFICES ASSUME overlapped' = {} PROVE Alone'
    BY DEF Alone
  <2>1. /\ \A d, e \in Callers : task'[d] # Idle /\ task'[e] # Idle => d = e
        /\ \A d \in Callers : Held(d)'
    BY <1>1, <1>3, <1>4, AllIdle
  <2>2. ASSUME NEW q \in Providers \ unclosed', life'[q] = "open" PROVE Owned(q)'
    <3>1. \/ \E o \in Connections : providers[o] = q
          \/ q = task[c].provider
      BY <2>2, <1>2 DEF Onward
    <3>2. CASE q = task[c].provider
      BY <3>2, <1>3, <1>5 DEF Owned
    <3>3. CASE \E o \in Connections : providers[o] = q
      <4>1. PICK o \in Connections : providers[o] = q
        BY <3>3
      <4>2. o # id
        BY <4>1, <2>2, NoneAssumption DEF Onward, Registered
      <4> QED
        BY <4>1, <4>2, <1>5 DEF Owned
    <3> QED
      BY <3>1, <3>2, <3>3
  <2> QED
    BY <2>1, <2>2 DEF Alone
<1> QED
  BY <1>6, <1>7, <1>8, <1>9 DEF IInv

\* One of the others is unregistered and about to be closed.
LEMMA DeactivateStep ==
  ASSUME IInv, NEW c \in Callers, NEW todo, Connecting(c), Onward(c, todo), Deactivate(c, todo),
         life' \in [Providers -> {"unborn", "opening", "open", "closed"}],
         life'[task[c].provider] \in {"open", "closed"},
         \A p \in Providers : Settled(p) => Settled(p)',
         overlapped' = overlapped, unclosed' \subseteq Providers
  PROVE  IInv'
<1>1. TypeOK /\ (\A d \in Callers : TaskOk(d)) /\ TargetIsLive /\ InTurn /\ Alone
  BY DEF IInv
<1>2. PICK other \in todo :
        /\ providers' = [providers EXCEPT ![other[1]] = NoProvider]
        /\ task' = [task EXCEPT ![c].pc = "closing", ![c].closing = other[2], ![c].todo = todo \ {other}]
        /\ selected' = selected
  BY DEF Deactivate
<1> DEFINE new == [task[c] EXCEPT !.pc = "closing", !.closing = other[2], !.todo = todo \ {other}]
<1>3. other[1] \in Connections /\ other[2] \in Providers /\ other = <<other[1], other[2]>>
  BY <1>2 DEF Onward
<1>4. task[c].id \in Connections /\ task[c].provider \in Providers
  BY <1>1 DEF TaskOk, Idle, Connecting
<1>5. /\ new \in [pc : {"idle", "opening", "closing", "disconnecting"}, id : MaybeConnection,
                provider : MaybeProvider, closing : MaybeProvider, todo : SUBSET (Connections \X Providers)]
      /\ new.pc = "closing" /\ new.id = task[c].id /\ new.provider = task[c].provider
      /\ new.closing = other[2] /\ new.todo = todo \ {other}
  <2>1. todo \ {other} \in SUBSET (Connections \X Providers) /\ other[2] \in MaybeProvider
    BY <1>3 DEF Onward, MaybeProvider
  <2>2. task[c] \in [pc : {"idle", "opening", "closing", "disconnecting"}, id : MaybeConnection,
                provider : MaybeProvider, closing : MaybeProvider, todo : SUBSET (Connections \X Providers)]
    BY <1>1 DEF TypeOK
  <2> QED
    BY <2>1, <2>2
<1>6. task' = [task EXCEPT ![c] = new]
  BY <1>2
<1> HIDE DEF new
<1>7. task'[c] = new /\ \A d \in Callers : d # c => task'[d] = task[d]
  BY <1>1, <1>6, OneTask
<1>8. /\ providers' \in [Connections -> MaybeProvider]
      /\ providers'[other[1]] = NoProvider
      /\ \A id \in Connections : id # other[1] => providers'[id] = providers[id]
  BY <1>1, <1>2, <1>3, Unregistered
<1>9. TypeOK' /\ (\A d \in Callers : TaskOk(d))'
  <2>1. TaskOk(c)'
    BY <1>3, <1>4, <1>5, <1>7 DEF TaskOk
  <2>2. selected' \in MaybeConnection /\ overlapped' \subseteq {"connects", "disconnects"}
    BY <1>1, <1>2 DEF TypeOK
  <2>3. \A id \in Connections : providers'[id] = providers[id] \/ providers'[id] = NoProvider
    BY <1>8
  <2> QED
    BY <2>1, <2>2, <2>3, <1>1, <1>5, <1>6, <1>8, TypesStay
<1>10. TargetIsLive'
  BY <1>5, <1>7 DEF TargetIsLive
<1>11. InTurn'
  <2> SUFFICES ASSUME "connects" \notin overlapped' PROVE InTurn'
    BY DEF InTurn
  <2>1. \A d \in Callers : d # c => ~Connecting(d)'
    <3>1. \A d \in Callers : d # c => ~Connecting(d)
      BY <1>1 DEF InTurn
    <3> QED
      BY <3>1, <1>7 DEF Connecting
  <2>2. \A id \in Connections : Registered(id)' => Registered(id) /\ id # other[1]
    BY <1>8 DEF Registered
  <2>3. \A a, b \in Connections : Registered(a)' /\ Registered(b)' => a = b
    BY <2>2, <1>1 DEF InTurn
  <2>4. ASSUME NEW id \in Connections, Registered(id)'
        PROVE  id = new.id \/ \E o \in new.todo : o[1] = id
    <3>1. id = task[c].id \/ \E o \in todo : o[1] = id
      BY <2>2, <2>4 DEF Onward
    <3> QED
      BY <3>1, <2>2, <2>4, <1>5
  <2>5. \A d \in Callers : Left(d)'
    BY <2>1, <2>4, <1>7 DEF Left, Connecting
  <2> QED
    BY <2>1, <2>3, <2>5 DEF InTurn
<1>12. Alone'
  <2> SUFFICES ASSUME overlapped' = {} PROVE Alone'
    BY DEF Alone
  <2>1. \A d \in Callers : d # c => task[d] = Idle
    <3>1. task[c] # Idle
      BY <1>1, Busy
    <3> QED
      BY <3>1, <1>1 DEF Alone
  <2>2. \A d, e \in Callers : task'[d] # Idle /\ task'[e] # Idle => d = e
    BY <2>1, <1>7
  <2>3. /\ task'[c].id = task[c].id
        /\ ~(providers'[task[c].id] # NoProvider /\ life'[providers'[task[c].id]] = "open")
    BY <1>4, <1>5, <1>7, <1>8 DEF Onward, Registered
  <2>4. ASSUME NEW o \in new.todo PROVE o[2] = providers'[o[1]]
    <3>1. o \in todo /\ o # other /\ o[1] \in Connections /\ o = <<o[1], o[2]>>
      BY <1>5 DEF Onward
    <3>2. o[2] = providers[o[1]] /\ other[2] = providers[other[1]]
      BY <3>1, <1>2 DEF Onward
    <3>3. o[1] # other[1]
      BY <3>1, <3>2, <1>3
    <3> QED
      BY <3>1, <3>2, <3>3, <1>8
  <2>5. Held(c)'
    BY <2>3, <2>4, <1>5, <1>7 DEF Held, Connecting, Disconnecting, Connected
  <2>6. \A d \in Callers : Held(d)'
    BY <2>1, <2>5, <1>7 DEF Held, Connecting, Disconnecting, Idle
  <2>7. ASSUME NEW q \in Providers \ unclosed', life'[q] = "open" PROVE Owned(q)'
    <3>1. \/ \E id \in Connections : providers[id] = q
          \/ q = task[c].provider \/ \E o \in todo : o[2] = q
      BY <2>7 DEF Onward
    <3>2. CASE q = task[c].provider
      BY <3>2, <1>5, <1>7 DEF Owned
    <3>3. CASE \E o \in todo : o[2] = q
      <4>1. q = new.closing \/ \E o \in new.todo : o[2] = q
        BY <3>3, <1>5
      <4> QED
        BY <4>1, <1>7 DEF Owned
    <3>4. CASE \E id \in Connections : providers[id] = q
      <4>1. PICK id \in Connections : providers[id] = q
        BY <3>4
      <4>2. CASE id = other[1]
        <5>1. q = new.closing
          BY <4>1, <4>2, <1>2, <1>5 DEF Onward
        <5> QED
          BY <5>1, <1>7 DEF Owned
      <4>3. CASE id # other[1]
        BY <4>1, <4>3, <1>8 DEF Owned
      <4> QED
        BY <4>2, <4>3
    <3> QED
      BY <3>1, <3>2, <3>3, <3>4
  <2> QED
    BY <2>2, <2>6, <2>7 DEF Alone
<1> QED
  BY <1>9, <1>10, <1>11, <1>12 DEF IInv

\* A connect that has connected goes on to the others, as they are then.
LEMMA OpenedStep ==
  ASSUME IInv, NEW c \in Callers, Opened(c)
  PROVE  IInv'
<1>1. TypeOK /\ (\A d \in Callers : TaskOk(d)) /\ TargetIsLive /\ InTurn /\ Alone
  BY DEF IInv
<1> DEFINE id == task[c].id
           p == task[c].provider
           todo == Others(id)
<1>2. /\ task[c].pc = "opening" /\ life' = [life EXCEPT ![p] = "open"]
      /\ Activate(c, todo) \/ Deactivate(c, todo)
      /\ overlapped' = overlapped /\ unclosed' = unclosed
  BY DEF Opened, Proceed
<1>3. /\ id \in Connections /\ p \in Providers /\ task[c].closing = NoProvider /\ task[c].todo = {}
      /\ Connecting(c) /\ task[c] # Idle
  BY <1>1, <1>2 DEF TaskOk, Idle, Connecting
<1>4. /\ life' \in [Providers -> {"unborn", "opening", "open", "closed"}]
      /\ life'[p] = "open"
      /\ \A q \in Providers : q # p => life'[q] = life[q]
  BY <1>1, <1>2, <1>3, OneLife
<1>5. \A q \in Providers : Settled(q) => Settled(q)'
  BY <1>4 DEF Settled
<1>6. todo = {<<other, providers[other]>> : other \in {o \in Connections \ {id} : providers[o] # NoProvider}}
  BY DEF Others
<1>7. Onward(c, todo)
  <2> HIDE DEF todo
  <2>1. todo \in SUBSET (Connections \X Providers)
    BY <1>1, <1>6 DEF TypeOK, MaybeProvider
  <2>2. \A o \in Connections : Registered(o) => o = id \/ \E other \in todo : other[1] = o
    <3>1. ASSUME NEW o \in Connections, Registered(o), o # id PROVE \E other \in todo : other[1] = o
      <4>1. <<o, providers[o]>> \in todo
        BY <1>6, <3>1 DEF Registered
      <4> QED
        BY <4>1
    <3> QED
      BY <3>1
  <2>3. \A other \in todo : other[2] = providers[other[1]]
    BY <1>6
  <2>4. ASSUME overlapped = {}
        PROVE  /\ ~(Registered(id) /\ life'[providers[id]] = "open")
               /\ \A q \in Providers \ unclosed' : life'[q] = "open" =>
                    (\E o \in Connections : providers[o] = q) \/ q = p
    <3>1. /\ life[p] = "opening" /\ ~Connected(id)
          /\ \A d \in Callers : d # c => task[d] = Idle
      BY <2>4, <1>1, <1>2, <1>3 DEF Alone, Held
    <3>2. ~(Registered(id) /\ life'[providers[id]] = "open")
      <4> SUFFICES ASSUME Registered(id), life'[providers[id]] = "open" PROVE FALSE
        OBVIOUS
      <4>1. providers[id] \in Providers /\ life[providers[id]] \in {"open", "closed"}
        BY <1>1, <1>3 DEF Registered, TypeOK, MaybeProvider
      <4>2. providers[id] # p
        BY <4>1, <3>1
      <4>3. life[providers[id]] = "open"
        BY <4>1, <4>2, <1>4
      <4> QED
        BY <4>3, <3>1 DEF Connected, Registered
    <3>3. ASSUME NEW q \in Providers \ unclosed', life'[q] = "open", q # p
          PROVE  \E o \in Connections : providers[o] = q
      <4>1. life[q] = "open" /\ q \in Providers \ unclosed
        BY <3>3, <1>2, <1>4
      <4>2. \/ \E o \in Connections : providers[o] = q
            \/ q \in {task[c].provider, task[c].closing} \cup {other[2] : other \in task[c].todo}
        BY <4>1, <3>1, <2>4, <1>1, OwnedAlone
      <4> QED
        BY <4>2, <3>3, <1>3, NoneAssumption
    <3> QED
      BY <3>2, <3>3
  <2> QED
    BY <2>1, <2>2, <2>3, <2>4 DEF Onward
<1> HIDE DEF todo
<1>8. life'[p] \in {"open", "closed"}
  BY <1>4
<1> QED
  BY <1>1, <1>2, <1>3, <1>4, <1>5, <1>7, <1>8, ActivateStep, DeactivateStep DEF TypeOK

\* A connect has closed one of the others, or has failed to.
LEMMA ClosedStep ==
  ASSUME IInv, NEW c \in Callers, Closed(c) \/ CloseFails(c)
  PROVE  IInv'
<1>1. TypeOK /\ (\A d \in Callers : TaskOk(d)) /\ TargetIsLive /\ InTurn /\ Alone
  BY DEF IInv
<1> DEFINE id == task[c].id
           p == task[c].closing
           todo == task[c].todo
<1>2. /\ task[c].pc = "closing"
      /\ \/ life' = [life EXCEPT ![p] = "closed"] /\ unclosed' = unclosed
         \/ life' = life /\ unclosed' = unclosed \cup {p}
      /\ Activate(c, todo) \/ Deactivate(c, todo)
      /\ overlapped' = overlapped
  BY DEF Closed, CloseFails, Proceed
<1>3. /\ id \in Connections /\ task[c].provider \in Providers /\ p \in Providers
      /\ life[task[c].provider] \in {"open", "closed"}
      /\ Connecting(c) /\ task[c] # Idle
  BY <1>1, <1>2 DEF TaskOk, Idle, Connecting
<1>4. /\ life' \in [Providers -> {"unborn", "opening", "open", "closed"}]
      /\ \A q \in Providers : life'[q] = life[q] \/ life'[q] = "closed"
      /\ unclosed' \subseteq Providers
      /\ \A q \in Providers \ unclosed' : life'[q] = "open" => q # p /\ q \notin unclosed
  <2>1. CASE life' = [life EXCEPT ![p] = "closed"] /\ unclosed' = unclosed
    <3>1. /\ life' \in [Providers -> {"unborn", "opening", "open", "closed"}]
          /\ life'[p] = "closed"
          /\ \A q \in Providers : q # p => life'[q] = life[q]
      BY <2>1, <1>1, <1>3, OneLife
    <3> QED
      BY <3>1, <2>1, <1>1 DEF TypeOK
  <2>2. CASE life' = life /\ unclosed' = unclosed \cup {p}
    BY <2>2, <1>1, <1>3 DEF TypeOK
  <2> QED
    BY <2>1, <2>2, <1>2
<1>5. \A q \in Providers : Settled(q) => Settled(q)'
  BY <1>4 DEF Settled
<1>6. life'[task[c].provider] \in {"open", "closed"}
  BY <1>3, <1>5 DEF Settled
<1>7. Onward(c, todo)
  <2>1. todo \in SUBSET (Connections \X Providers)
    BY <1>1 DEF TypeOK
  <2>2. "connects" \notin overlapped =>
          \A o \in Connections : Registered(o) => o = id \/ \E other \in todo : other[1] = o
    BY <1>1, <1>2 DEF InTurn, Left
  <2>3. ASSUME overlapped = {}
        PROVE  /\ ~(Registered(id) /\ life'[providers[id]] = "open")
               /\ \A other \in todo : other[2] = providers[other[1]]
               /\ \A q \in Providers \ unclosed' : life'[q] = "open" =>
                    \/ \E o \in Connections : providers[o] = q
                    \/ q = task[c].provider \/ \E other \in todo : other[2] = q
    <3>1. /\ ~Connected(id) /\ \A other \in todo : other[2] = providers[other[1]]
          /\ \A d \in Callers : d # c => task[d] = Idle
      BY <2>3, <1>1, <1>2, <1>3 DEF Alone, Held
    <3>2. ~(Registered(id) /\ life'[providers[id]] = "open")
      <4> SUFFICES ASSUME Registered(id), life'[providers[id]] = "open" PROVE FALSE
        OBVIOUS
      <4>1. providers[id] \in Providers
        BY <1>1, <1>3 DEF Registered, TypeOK, MaybeProvider
      <4>2. life[providers[id]] = "open"
        BY <4>1, <1>4
      <4> QED
        BY <4>2, <3>1 DEF Connected, Registered
    <3>3. ASSUME NEW q \in Providers \ unclosed', life'[q] = "open"
          PROVE  \/ \E o \in Connections : providers[o] = q
                 \/ q = task[c].provider \/ \E other \in todo : other[2] = q
      <4>1. life[q] = "open" /\ q # p /\ q \in Providers \ unclosed
        BY <3>3, <1>4
      <4>2. \/ \E o \in Connections : providers[o] = q
            \/ q \in {task[c].provider, task[c].closing} \cup {other[2] : other \in task[c].todo}
        BY <4>1, <3>1, <2>3, <1>1, OwnedAlone
      <4> QED
        BY <4>1, <4>2
    <3> QED
      BY <3>1, <3>2, <3>3
  <2> QED
    BY <2>1, <2>2, <2>3 DEF Onward
<1> HIDE DEF todo
<1> QED
  BY <1>2, <1>3, <1>4, <1>5, <1>6, <1>7, ActivateStep, DeactivateStep

\* The target is selected among what is connected.
LEMMA SelectStep ==
  ASSUME IInv, NEW id \in Connections, Select(id)
  PROVE  IInv'
<1>1. /\ providers[id] # NoProvider /\ selected' = id
      /\ providers' = providers /\ life' = life /\ task' = task /\ overlapped' = overlapped /\ unclosed' = unclosed
  BY DEF Select, Connected
<1>2. TypeOK'
  BY <1>1 DEF IInv, TypeOK, MaybeConnection
<1>3. TargetIsLive'
  BY <1>1 DEF TargetIsLive
<1>4. InTurn' /\ (\A d \in Callers : TaskOk(d))'
  BY <1>1 DEF IInv, InTurn, Left, Registered, Connecting, TaskOk
<1>5. Alone'
  <2>1. Alone
    BY DEF IInv
  <2> QED
    BY <2>1, <1>1 DEF Alone, Held, Owned, Connecting, Disconnecting, Connected
<1> QED
  BY <1>2, <1>3, <1>4, <1>5 DEF IInv

-------------------------------------------------------------------------------
LEMMA InitInductive == Init => IInv
<1> SUFFICES ASSUME Init PROVE IInv
  OBVIOUS
<1>1. TypeOK
  BY IdleTyped DEF Init, TypeOK, IdleType, MaybeConnection, MaybeProvider
<1>2. \A c \in Callers : task[c] = Idle
  BY DEF Init
<1>3. \A c \in Callers : TaskOk(c)
  BY <1>2 DEF TaskOk
<1>4. TargetIsLive
  BY DEF Init, TargetIsLive
<1>5. InTurn
  BY <1>2 DEF Init, InTurn, Connecting, Registered, Left, Idle
<1>6. Alone
  BY <1>2 DEF Init, Alone, Connecting, Disconnecting, Held, Idle
<1> QED
  BY <1>1, <1>3, <1>4, <1>5, <1>6 DEF IInv

LEMMA NextInductive == IInv /\ [Next]_vars => IInv'
<1> SUFFICES ASSUME IInv, [Next]_vars PROVE IInv'
  OBVIOUS
<1>1. CASE UNCHANGED vars
  <2>1. TypeOK /\ (\A d \in Callers : TaskOk(d)) /\ TargetIsLive /\ InTurn /\ Alone
    BY DEF IInv
  <2>2. TypeOK' /\ (\A d \in Callers : TaskOk(d))' /\ TargetIsLive' /\ InTurn'
    BY <1>1, <2>1 DEF vars, TypeOK, TaskOk, TargetIsLive, InTurn, Left, Registered, Connecting
  <2>3. Alone'
    BY <1>1, <2>1 DEF vars, Alone, Held, Owned, Connecting, Disconnecting, Connected
  <2> QED
    BY <2>2, <2>3 DEF IInv
<1>2. CASE \E c \in Callers, id \in Connections : Connect(c, id) \/ Disconnect(c, id)
  BY <1>2, ConnectStep, DisconnectStep
<1>3. CASE \E c \in Callers : ConnectFails(c) \/ Opened(c) \/ Closed(c) \/ CloseFails(c)
  BY <1>3, ConnectFailsStep, OpenedStep, ClosedStep
<1>4. CASE \E c \in Callers : Disconnected(c) \/ DisconnectFails(c)
  BY <1>4, DisconnectedStep, DisconnectFailsStep
<1>5. CASE \E id \in Connections : Select(id)
  BY <1>5, SelectStep
<1> QED
  BY <1>1, <1>2, <1>3, <1>4, <1>5 DEF Next

\* The invariant the proofs rest on holds however connects, disconnects and
\* their failures overlap (Workspace.connect and disconnect).
THEOREM Inductive == Spec => []IInv
  BY InitInductive, NextInductive, PTL DEF Spec

\* Types, and that a provider is registered only once it has connected
\* (Workspace.providers).
THEOREM Typed == Spec => []TypeOK
  BY Inductive, PTL DEF IInv

\* The target of commands is registered, or a connect is about to replace it,
\* however calls overlap and fail (the end of connect and of disconnect).
THEOREM TargetIsLiveHolds == Spec => []TargetIsLive
  BY Inductive, PTL DEF IInv

\* Connecting one environment leaves no other registered, as long as no two
\* connects overlap, whatever disconnects do meanwhile (the loop over the
\* others in connect).
THEOREM OneActiveInTurnHolds == Spec => []OneActiveInTurn
<1>1. IInv => OneActiveInTurn
  BY AtMostOne DEF IInv, InTurn, OneActiveInTurn
<1> QED
  BY <1>1, Inductive, PTL

\* As long as calls do not overlap, no open provider is lost but one that a
\* connect could not close: it is registered, or a call holds it that will
\* register or close it.
THEOREM LiveProvidersAreOwnedHolds == Spec => []LiveProvidersAreOwned
<1>1. IInv => LiveProvidersAreOwned
  BY DEF IInv, Alone, LiveProvidersAreOwned
<1> QED
  BY <1>1, Inductive, PTL

-------------------------------------------------------------------------------
(***************************************************************************)
(* The build request, edited in any number of windows, for any inputs,     *)
(* questions, specs and objects and any number of revisions.               *)
(*                                                                         *)
(* What carries it: a window has one change under way, made from the       *)
(* record as it still is unless another window has replaced it since; a    *)
(* new spec or a new input gets a number that no approval has; and, until  *)
(* an overtaken copy puts another spec in the record, a page that shows    *)
(* the record's revision shows its body.                                   *)
(***************************************************************************)

\* The request with its numbers, without the bounds of the model.
RecordType ==
  [inputs : Nat, entered : SUBSET Inputs, questions : [Questions -> Answers],
   spec : [revision : Nat, body : Bodies, basedOn : Nat, seen : SUBSET Inputs],
   approval : [revision : Nat, body : Bodies, inputs : Nat, shown : Bodies],
   progress : [Objects -> {"PENDING", "BUILT"}]]

\* Types, with a copy of the record for each role and window.
Typing ==
  /\ request \in RecordType /\ exists \in BOOLEAN
  /\ copy \in [Windows -> [Roles -> RecordType]]
  /\ page \in [Windows -> [revision : Nat, body : Bodies]]
  /\ read \in [Windows -> (SUBSET Inputs) \cup {Unread}]
  /\ rewound \in BOOLEAN

\* A record's approval is for no later spec or input than the record has.
Sound(r) ==
  /\ r.inputs >= 1
  /\ r.approval.revision <= r.spec.revision /\ r.approval.inputs <= r.inputs
  /\ r.spec.revision = 0 => r.spec.body = NoBody

\* A record's approval is for the body that was shown.
Honest(r) == r.approval.shown = r.approval.body

\* What a change may make of the record it read.
Follows(r, old) ==
  /\ old.entered \subseteq r.entered
  /\ r.spec = old.spec \/ r.spec.revision = old.spec.revision + 1
  /\ Approved(r) /\ ~Approved(old) => r.approval # old.approval

\* One change is under way in a window, made from the record as it is unless
\* another window has replaced that.
Queued ==
  /\ \A w \in Windows, role \in Roles :
       copy[w][role] # NoCopy =>
         Sound(copy[w][role]) /\ (w \in overtaken \/ Follows(copy[w][role], request))
  /\ \A w \in Windows, r, s \in Roles :
       copy[w][r] # NoCopy /\ copy[w][s] # NoCopy => r = s

\* A page that shows the revision of the record shows its body.
Shown ==
  \A w \in Windows :
    /\ page[w].revision <= request.spec.revision
    /\ page[w].revision = request.spec.revision => page[w].body = request.spec.body

\* Until two specs have had one revision, approvals are for what was shown.
AsShown ==
  ~rewound =>
    /\ Honest(request) /\ Shown
    /\ \A w \in Windows, role \in Roles : copy[w][role] # NoCopy => Honest(copy[w][role])

\* Inductive, whatever the windows do.
RequestIInv == Typing /\ Sound(request) /\ Queued /\ AsShown

-------------------------------------------------------------------------------
\* What a record, a spec and an approval are at first.
LEMMA InitialRecord ==
  /\ NewRequest \in RecordType /\ NoCopy \in RecordType
  /\ NewRequest.inputs = 1 /\ NewRequest.spec = NoSpec /\ NewRequest.approval = NoApproval
  /\ NoSpec.revision = 0 /\ NoSpec.body = NoBody
  /\ NoApproval.revision = 0 /\ NoApproval.inputs = 0 /\ NoApproval.shown = NoApproval.body
  BY DEF NewRequest, NoCopy, RecordType, NoSpec, NoApproval, Bodies, Answers

\* A change that is sound and follows the record may wait for its write.
LEMMA ChangeStep ==
  ASSUME RequestIInv, NEW w \in Windows, NEW role \in Roles, NEW r \in RecordType,
         Change(w, role, r), Sound(r), Follows(r, request), rewound \/ Honest(r)
  PROVE  RequestIInv'
<1>1. /\ Turn(w, role) /\ copy' = [copy EXCEPT ![w][role] = r]
      /\ request' = request /\ exists' = exists /\ page' = page /\ read' = read
      /\ overtaken' = overtaken /\ rewound' = rewound
  BY DEF Change, history
<1>2. Typing /\ Sound(request) /\ Queued /\ AsShown
  BY DEF RequestIInv
<1>3. copy \in [Windows -> [Roles -> RecordType]]
  BY <1>2 DEF Typing
<1>4. /\ copy' \in [Windows -> [Roles -> RecordType]]
      /\ copy'[w][role] = r
      /\ \A s \in Roles : s # role => copy'[w][s] = copy[w][s]
      /\ \A v \in Windows : v # w => copy'[v] = copy[v]
  BY <1>1, <1>3
<1>5. \A s \in Roles : copy[w][s] = NoCopy
  BY <1>1 DEF Turn
<1>6. ASSUME NEW v \in Windows, NEW s \in Roles, copy'[v][s] # NoCopy
      PROVE  (v = w /\ s = role) \/ (v # w /\ copy'[v][s] = copy[v][s])
  BY <1>4, <1>5, <1>6
<1>7. Queued'
  <2>1. ASSUME NEW v \in Windows, NEW s \in Roles, copy'[v][s] # NoCopy
        PROVE  Sound(copy'[v][s]) /\ (v \in overtaken' \/ Follows(copy'[v][s], request'))
    <3>1. CASE v = w /\ s = role
      BY <3>1, <1>1, <1>4
    <3>2. CASE v # w /\ copy'[v][s] = copy[v][s]
      BY <3>2, <2>1, <1>1, <1>2 DEF Queued
    <3> QED
      BY <3>1, <3>2, <2>1, <1>6
  <2>2. ASSUME NEW v \in Windows, NEW s \in Roles, NEW t \in Roles, copy'[v][s] # NoCopy, copy'[v][t] # NoCopy
        PROVE  s = t
    BY <2>2, <1>2, <1>6 DEF Queued
  <2> QED
    BY <2>1, <2>2 DEF Queued, Sound, Follows, Approved
<1>8. Typing' /\ Sound(request)'
  BY <1>1, <1>2, <1>4 DEF Typing, Sound
<1>9. ASSUME ~rewound
      PROVE  /\ Honest(request)' /\ Shown'
             /\ \A v \in Windows, s \in Roles : copy'[v][s] # NoCopy => Honest(copy'[v][s])
  <2>1. Honest(request)' /\ Shown'
    BY <1>1, <1>2, <1>9 DEF AsShown, Honest, Shown
  <2>2. ASSUME NEW v \in Windows, NEW s \in Roles, copy'[v][s] # NoCopy
        PROVE  Honest(copy'[v][s])
    <3>1. CASE v = w /\ s = role
      BY <3>1, <1>4, <1>9
    <3>2. CASE v # w /\ copy'[v][s] = copy[v][s]
      BY <3>2, <2>2, <1>2, <1>9 DEF AsShown
    <3> QED
      BY <3>1, <3>2, <2>2, <1>6
  <2> QED
    BY <2>1, <2>2
<1>10. AsShown'
  BY <1>1, <1>9 DEF AsShown, Honest
<1> QED
  BY <1>7, <1>8, <1>10 DEF RequestIInv

\* A change that leaves spec, approval and inputs alone.
LEMMA QuietChange ==
  ASSUME RequestIInv, NEW r \in RecordType,
         r.inputs = request.inputs, r.entered = request.entered,
         r.spec = request.spec, r.approval = request.approval
  PROVE  Sound(r) /\ Follows(r, request) /\ (rewound \/ Honest(r))
<1>1. Sound(request) /\ (rewound \/ Honest(request))
  BY DEF RequestIInv, AsShown
<1> QED
  BY <1>1 DEF Sound, Follows, Approved, Honest

LEMMA AskStep ==
  ASSUME RequestIInv, NEW w \in Windows, NEW q \in Questions, Ask(w, q)
  PROVE  RequestIInv'
<1> DEFINE r == [request EXCEPT !.questions[q] = "open"]
<1>1. request \in RecordType
  BY DEF RequestIInv, Typing
<1>2. /\ r \in RecordType /\ r.inputs = request.inputs /\ r.entered = request.entered
      /\ r.spec = request.spec /\ r.approval = request.approval
  BY <1>1 DEF RecordType, Answers
<1>3. Change(w, "agent", r) /\ "agent" \in Roles
  BY DEF Ask, Roles
<1> HIDE DEF r
<1> QED
  BY <1>2, <1>3, QuietChange, ChangeStep

LEMMA ReportStep ==
  ASSUME RequestIInv, NEW w \in Windows, NEW o \in Objects, Report(w, o)
  PROVE  RequestIInv'
<1> DEFINE r == [request EXCEPT !.progress[o] = "BUILT"]
<1>1. request \in RecordType
  BY DEF RequestIInv, Typing
<1>2. /\ r \in RecordType /\ r.inputs = request.inputs /\ r.entered = request.entered
      /\ r.spec = request.spec /\ r.approval = request.approval
  BY <1>1 DEF RecordType
<1>3. Change(w, "agent", r) /\ "agent" \in Roles
  BY DEF Report, Roles
<1> HIDE DEF r
<1> QED
  BY <1>2, <1>3, QuietChange, ChangeStep

LEMMA AnnotateStep ==
  ASSUME RequestIInv, NEW w \in Windows, Annotate(w)
  PROVE  RequestIInv'
<1>1. request \in RecordType
  BY DEF RequestIInv, Typing
<1>2. Change(w, "developer", request) /\ "developer" \in Roles
  BY DEF Annotate, Roles
<1> QED
  BY <1>1, <1>2, QuietChange, ChangeStep

\* A spec gets a revision that no approval has.
LEMMA ProposeSpecStep ==
  ASSUME RequestIInv, NEW w \in Windows, NEW body \in Specs, ProposeSpec(w, body)
  PROVE  RequestIInv'
<1> DEFINE spec == [revision |-> request.spec.revision + 1, body |-> body, basedOn |-> request.inputs, seen |-> read[w]]
           r == [request EXCEPT !.spec = spec]
<1>1. /\ request \in RecordType /\ read[w] \in (SUBSET Inputs) \cup {Unread}
      /\ Sound(request) /\ (rewound \/ Honest(request))
  BY DEF RequestIInv, Typing, AsShown
<1>2. Change(w, "agent", r) /\ read[w] # Unread /\ "agent" \in Roles
  BY DEF ProposeSpec, NextRevision, Roles
<1>3. spec \in [revision : Nat, body : Bodies, basedOn : Nat, seen : SUBSET Inputs] /\ spec.revision = request.spec.revision + 1
  <2>1. request.spec.revision \in Nat /\ request.inputs \in Nat
    BY <1>1 DEF RecordType
  <2>2. request.spec.revision + 1 \in Nat /\ body \in Bodies /\ read[w] \in SUBSET Inputs
    BY <2>1, <1>1, <1>2 DEF Bodies
  <2> QED
    BY <2>1, <2>2
<1> HIDE DEF spec
<1>4. /\ r \in RecordType /\ r.inputs = request.inputs /\ r.entered = request.entered
      /\ r.spec = spec /\ r.approval = request.approval
  BY <1>1, <1>3 DEF RecordType
<1> HIDE DEF r
<1>5. request.spec.revision \in Nat /\ request.approval.revision \in Nat
  BY <1>1 DEF RecordType
<1>6. Sound(r)
  BY <1>1, <1>3, <1>4, <1>5 DEF Sound
<1>7. ~Approved(r)
  BY <1>1, <1>3, <1>4, <1>5 DEF Approved, Sound
<1>8. Follows(r, request) /\ (rewound \/ Honest(r))
  BY <1>1, <1>3, <1>4, <1>7 DEF Follows, Honest
<1> QED
  BY <1>2, <1>4, <1>6, <1>8, ChangeStep

\* A new input gets a number that no approval has.
LEMMA InputChange ==
  ASSUME RequestIInv, NEW r \in RecordType, r.inputs = request.inputs + 1, request.entered \subseteq r.entered,
         r.spec = request.spec, r.approval = request.approval
  PROVE  Sound(r) /\ Follows(r, request) /\ (rewound \/ Honest(r))
<1>1. Sound(request) /\ (rewound \/ Honest(request)) /\ request \in RecordType
  BY DEF RequestIInv, Typing, AsShown
<1>2. request.inputs \in Nat /\ request.approval.inputs \in Nat
  BY <1>1 DEF RecordType
<1>3. Sound(r)
  BY <1>1, <1>2 DEF Sound
<1>4. ~Approved(r)
  BY <1>1, <1>2 DEF Approved, Sound
<1> QED
  BY <1>1, <1>3, <1>4 DEF Follows, Honest

LEMMA NewInput ==
  ASSUME RequestIInv, NEW i \in Inputs
  PROVE  /\ WithInput(request, i) \in RecordType
         /\ WithInput(request, i).inputs = request.inputs + 1
         /\ request.entered \subseteq WithInput(request, i).entered
         /\ WithInput(request, i).spec = request.spec /\ WithInput(request, i).approval = request.approval
<1>1. request \in RecordType
  BY DEF RequestIInv, Typing
<1>2. request.inputs + 1 \in Nat /\ request.entered \cup {i} \in SUBSET Inputs
  BY <1>1 DEF RecordType
<1>3. WithInput(request, i) = [request EXCEPT !.inputs = request.inputs + 1, !.entered = request.entered \cup {i}]
  BY DEF WithInput
<1> QED
  BY <1>1, <1>2, <1>3 DEF RecordType

LEMMA EditStep ==
  ASSUME RequestIInv, NEW w \in Windows, NEW i \in Inputs, Edit(w, i)
  PROVE  RequestIInv'
<1>1. Change(w, "developer", WithInput(request, i)) /\ "developer" \in Roles
  BY DEF Edit, Roles
<1>2. /\ Sound(WithInput(request, i)) /\ Follows(WithInput(request, i), request)
      /\ rewound \/ Honest(WithInput(request, i))
  BY NewInput, InputChange
<1> QED
  BY <1>1, <1>2, NewInput, ChangeStep

LEMMA AnswerStep ==
  ASSUME RequestIInv, NEW w \in Windows, NEW q \in Questions, NEW i \in Inputs,
         NEW answer \in {"open", "answered"}, Answer(w, q, i, answer)
  PROVE  RequestIInv'
<1> DEFINE entered == WithInput(request, i)
           r == [entered EXCEPT !.questions[q] = answer]
<1>1. /\ entered \in RecordType /\ entered.inputs = request.inputs + 1 /\ request.entered \subseteq entered.entered
      /\ entered.spec = request.spec /\ entered.approval = request.approval
  BY NewInput
<1>2. Change(w, "developer", r) /\ "developer" \in Roles
  BY DEF Answer, Roles
<1> HIDE DEF entered
<1>3. /\ r \in RecordType /\ r.inputs = request.inputs + 1 /\ request.entered \subseteq r.entered
      /\ r.spec = request.spec /\ r.approval = request.approval
  BY <1>1 DEF RecordType, Answers
<1> HIDE DEF r
<1> QED
  BY <1>2, <1>3, InputChange, ChangeStep

\* What is approved has the revision the page shows, and was not approved
\* before.
LEMMA ApproveStep ==
  ASSUME RequestIInv, NEW w \in Windows, Approve(w)
  PROVE  RequestIInv'
<1> DEFINE approval == [revision |-> request.spec.revision, body |-> request.spec.body, inputs |-> request.inputs, shown |-> page[w].body]
           r == [request EXCEPT !.approval = approval]
<1>1. request \in RecordType /\ page[w] \in [revision : Nat, body : Bodies] /\ Sound(request) /\ (rewound \/ Shown)
  BY DEF RequestIInv, Typing, AsShown
<1>2. /\ Change(w, "developer", r) /\ ~ApprovalBlocked(request) /\ request.spec.revision = page[w].revision
      /\ "developer" \in Roles
  BY DEF Approve, Roles
<1>3. /\ request.spec.revision \in Nat /\ request.spec.body \in Bodies /\ request.inputs \in Nat /\ page[w].body \in Bodies
      /\ rewound \/ request.spec.body = page[w].body
  BY <1>1, <1>2 DEF RecordType, Shown
<1>4. /\ approval \in [revision : Nat, body : Bodies, inputs : Nat, shown : Bodies]
      /\ approval.revision = request.spec.revision /\ approval.body = request.spec.body
      /\ approval.inputs = request.inputs /\ (rewound \/ approval.shown = approval.body)
  BY <1>3
<1> HIDE DEF approval
<1>5. /\ r \in RecordType /\ r.inputs = request.inputs /\ r.entered = request.entered
      /\ r.spec = request.spec /\ r.approval = approval
  BY <1>1, <1>4 DEF RecordType
<1> HIDE DEF r
<1>6. Sound(r)
  BY <1>1, <1>3, <1>4, <1>5 DEF Sound
<1>7. ~Approved(request) /\ request.spec.basedOn = request.inputs
  BY <1>2 DEF ApprovalBlocked
<1>8. approval # request.approval
  <2> SUFFICES ASSUME approval = request.approval PROVE FALSE
    OBVIOUS
  <2>1. approval # NoApproval
    BY <1>1, <1>3, <1>4, InitialRecord DEF Sound
  <2> QED
    BY <2>1, <1>4, <1>7 DEF Approved
<1>9. Follows(r, request) /\ (rewound \/ Honest(r))
  BY <1>4, <1>5, <1>8 DEF Follows, Honest
<1> QED
  BY <1>2, <1>5, <1>6, <1>9, ChangeStep

LEMMA RequestChangesStep ==
  ASSUME RequestIInv, NEW w \in Windows, RequestChanges(w)
  PROVE  RequestIInv'
<1> DEFINE r == [request EXCEPT !.approval = NoApproval]
<1>1. request \in RecordType /\ Sound(request)
  BY DEF RequestIInv, Typing
<1>2. Change(w, "developer", r) /\ "developer" \in Roles
  BY DEF RequestChanges, Roles
<1>3. NoApproval \in [revision : Nat, body : Bodies, inputs : Nat, shown : Bodies]
  BY DEF NoApproval, Bodies
<1>4. /\ r \in RecordType /\ r.inputs = request.inputs /\ r.entered = request.entered
      /\ r.spec = request.spec /\ r.approval = NoApproval
  BY <1>1, <1>3 DEF RecordType
<1> HIDE DEF r
<1>5. request.spec.revision \in Nat /\ request.inputs \in Nat
  BY <1>1 DEF RecordType
<1>6. Sound(r)
  BY <1>1, <1>4, <1>5, InitialRecord DEF Sound
<1>7. Follows(r, request) /\ Honest(r)
  BY <1>4, InitialRecord DEF Follows, Approved, Honest
<1> QED
  BY <1>2, <1>4, <1>6, <1>7, ChangeStep

-------------------------------------------------------------------------------
\* A write puts the change in the record's place, and overtakes the changes
\* that wait in other windows.
LEMMA WriteStep ==
  ASSUME RequestIInv, NEW w \in Windows, NEW role \in Roles, Write(w, role)
  PROVE  RequestIInv'
<1>1. /\ copy[w][role] # NoCopy /\ request' = IF exists THEN copy[w][role] ELSE request
      /\ copy' = [copy EXCEPT ![w][role] = NoCopy]
      /\ overtaken' = (IF exists THEN overtaken \cup {v \in Windows : Changing(v) # {}} ELSE overtaken) \ {w}
      /\ rewound' = (rewound \/ (w \in overtaken /\ request'.spec # request.spec))
      /\ exists' = exists /\ page' = page /\ read' = read
  BY DEF Write
<1>2. Typing /\ Sound(request) /\ Queued /\ AsShown
  BY DEF RequestIInv
<1>3. copy \in [Windows -> [Roles -> RecordType]] /\ request \in RecordType
  BY <1>2 DEF Typing
<1>4. /\ copy' \in [Windows -> [Roles -> RecordType]]
      /\ copy'[w][role] = NoCopy
      /\ \A s \in Roles : s # role => copy'[w][s] = copy[w][s]
      /\ \A v \in Windows : v # w => copy'[v] = copy[v]
  BY <1>1, <1>3, InitialRecord
<1>5. /\ Sound(copy[w][role]) /\ copy[w][role] \in RecordType
      /\ w \in overtaken \/ Follows(copy[w][role], request)
  BY <1>1, <1>2, <1>3 DEF Queued
<1>6. request' = request \/ request' = copy[w][role]
  BY <1>1
<1>7. ASSUME NEW v \in Windows, NEW s \in Roles, copy'[v][s] # NoCopy
      PROVE  v # w /\ copy'[v][s] = copy[v][s]
  <2>1. v # w
    <3> SUFFICES ASSUME v = w PROVE FALSE
      OBVIOUS
    <3>1. s # role /\ copy[w][s] # NoCopy
      BY <1>4, <1>7
    <3> QED
      BY <3>1, <1>1, <1>2 DEF Queued
  <2> QED
    BY <2>1, <1>4
<1>8. ASSUME NEW v \in Windows, NEW s \in Roles, copy'[v][s] # NoCopy
      PROVE  Sound(copy'[v][s]) /\ (v \in overtaken' \/ Follows(copy'[v][s], request'))
  <2>1. v # w /\ copy'[v][s] = copy[v][s] /\ copy[v][s] # NoCopy
    BY <1>7, <1>8
  <2>2. Sound(copy[v][s]) /\ (v \in overtaken \/ Follows(copy[v][s], request))
    BY <2>1, <1>2 DEF Queued
  <2>3. CASE exists
    <3>1. Changing(v) # {}
      BY <2>1 DEF Changing
    <3> QED
      BY <3>1, <2>1, <2>2, <2>3, <1>1
  <2>4. CASE ~exists
    BY <2>1, <2>2, <2>4, <1>1
  <2> QED
    BY <2>3, <2>4
<1>9. Queued'
  <2>1. ASSUME NEW v \in Windows, NEW s \in Roles, NEW t \in Roles, copy'[v][s] # NoCopy, copy'[v][t] # NoCopy
        PROVE  s = t
    BY <2>1, <1>2, <1>7 DEF Queued
  <2> QED
    BY <2>1, <1>8 DEF Queued, Sound, Follows, Approved
<1>10. Typing' /\ Sound(request)'
  <2>1. rewound' \in BOOLEAN
    BY <1>1, Zenon
  <2> QED
    BY <2>1, <1>1, <1>2, <1>3, <1>4, <1>5, <1>6 DEF Typing, Sound
<1>11. ASSUME ~(rewound')
       PROVE  /\ ~rewound
              /\ request'.spec = request.spec \/ request'.spec.revision = request.spec.revision + 1
  <2>1. ~rewound /\ (w \in overtaken => request'.spec = request.spec)
    BY <1>1, <1>11
  <2>2. w \notin overtaken => request'.spec = request.spec \/ request'.spec.revision = request.spec.revision + 1
    BY <1>5, <1>6 DEF Follows
  <2> QED
    BY <2>1, <2>2
<1>12. ASSUME ~(rewound') PROVE Shown'
  <2> SUFFICES ASSUME NEW v \in Windows
               PROVE  /\ page[v].revision <= request'.spec.revision
                      /\ page[v].revision = request'.spec.revision => page[v].body = request'.spec.body
    BY <1>1 DEF Shown
  <2>1. page[v].revision <= request.spec.revision
        /\ (page[v].revision = request.spec.revision => page[v].body = request.spec.body)
    BY <1>2, <1>11, <1>12 DEF AsShown, Shown
  <2>2. request.spec.revision \in Nat /\ page[v].revision \in Nat
    BY <1>2 DEF Typing, RecordType
  <2> QED
    BY <2>1, <2>2, <1>11, <1>12
<1>13. ASSUME ~(rewound')
       PROVE  /\ Honest(request')
              /\ \A v \in Windows, s \in Roles : copy'[v][s] # NoCopy => Honest(copy'[v][s])
  <2>1. Honest(request) /\ \A v \in Windows, s \in Roles : copy[v][s] # NoCopy => Honest(copy[v][s])
    BY <1>2, <1>11, <1>13 DEF AsShown
  <2> QED
    BY <2>1, <1>1, <1>6, <1>7
<1>14. AsShown'
  BY <1>12, <1>13 DEF AsShown, Honest
<1> QED
  BY <1>9, <1>10, <1>14 DEF RequestIInv

LEMMA RequestShowStep ==
  ASSUME RequestIInv, NEW w \in Windows, Show(w)
  PROVE  RequestIInv'
<1> DEFINE p == [revision |-> request.spec.revision, body |-> request.spec.body]
<1>1. /\ page' = [page EXCEPT ![w] = p]
      /\ request' = request /\ exists' = exists /\ copy' = copy /\ read' = read
      /\ overtaken' = overtaken /\ rewound' = rewound
  BY DEF Show, history
<1>2. Typing /\ Sound(request) /\ Queued /\ AsShown
  BY DEF RequestIInv
<1>3. /\ p \in [revision : Nat, body : Bodies] /\ p.revision = request.spec.revision /\ p.body = request.spec.body
      /\ request.spec.revision \in Nat
  BY <1>2 DEF Typing, RecordType
<1> HIDE DEF p
<1>4. /\ page' \in [Windows -> [revision : Nat, body : Bodies]]
      /\ page'[w] = p
      /\ \A v \in Windows : v # w => page'[v] = page[v]
  BY <1>1, <1>2, <1>3 DEF Typing
<1>5. Typing' /\ Sound(request)' /\ Queued'
  BY <1>1, <1>2, <1>4 DEF Typing, Sound, Queued, Follows, Approved
<1>6. Shown => Shown'
  BY <1>1, <1>3, <1>4 DEF Shown
<1>7. AsShown'
  BY <1>1, <1>2, <1>6 DEF AsShown, Honest
<1> QED
  BY <1>5, <1>7 DEF RequestIInv

LEMMA CrashStep ==
  ASSUME RequestIInv, NEW w \in Windows, Crash(w)
  PROVE  RequestIInv'
<1>1. /\ copy' = [copy EXCEPT ![w] = [role \in Roles |-> NoCopy]]
      /\ page' = [page EXCEPT ![w] = NothingShown] /\ read' = [read EXCEPT ![w] = Unread]
      /\ overtaken' = overtaken \ {w}
      /\ request' = request /\ exists' = exists /\ rewound' = rewound
  BY DEF Crash
<1>2. Typing /\ Sound(request) /\ Queued /\ AsShown
  BY DEF RequestIInv
<1>3. /\ NothingShown \in [revision : Nat, body : Bodies] /\ NothingShown.revision = 0 /\ NothingShown.body = NoBody
  BY DEF NothingShown, Bodies
<1>4. Typing'
  <2>1. [role \in Roles |-> NoCopy] \in [Roles -> RecordType]
    BY InitialRecord
  <2>2. copy' \in [Windows -> [Roles -> RecordType]]
    BY <2>1, <1>1, <1>2 DEF Typing
  <2>3. page' \in [Windows -> [revision : Nat, body : Bodies]]
    BY <1>1, <1>2, <1>3 DEF Typing
  <2>4. read' \in [Windows -> (SUBSET Inputs) \cup {Unread}]
    BY <1>1, <1>2 DEF Typing
  <2> QED
    BY <2>2, <2>3, <2>4, <1>1, <1>2 DEF Typing
<1>5. \A v \in Windows, s \in Roles : copy'[v][s] # NoCopy => v # w /\ copy'[v][s] = copy[v][s]
  BY <1>1, <1>2 DEF Typing
<1>6. Queued'
  <2>1. ASSUME NEW v \in Windows, NEW s \in Roles, copy'[v][s] # NoCopy
        PROVE  Sound(copy'[v][s]) /\ (v \in overtaken' \/ Follows(copy'[v][s], request'))
    BY <2>1, <1>1, <1>2, <1>5 DEF Queued
  <2>2. ASSUME NEW v \in Windows, NEW s \in Roles, NEW t \in Roles, copy'[v][s] # NoCopy, copy'[v][t] # NoCopy
        PROVE  s = t
    BY <2>2, <1>2, <1>5 DEF Queued
  <2> QED
    BY <2>1, <2>2 DEF Queued, Sound, Follows, Approved
<1>7. ASSUME NEW v \in Windows, Shown
      PROVE  /\ page'[v].revision <= request.spec.revision
             /\ page'[v].revision = request.spec.revision => page'[v].body = request.spec.body
  <2>1. CASE v # w
    BY <2>1, <1>1, <1>2, <1>7 DEF Typing, Shown
  <2>2. CASE v = w
    BY <2>2, <1>1, <1>2, <1>3 DEF Typing, RecordType, Sound
  <2> QED
    BY <2>1, <2>2
<1>8. Shown => Shown'
  BY <1>1, <1>7 DEF Shown
<1>9. AsShown'
  BY <1>1, <1>2, <1>5, <1>8 DEF AsShown, Honest
<1> QED
  BY <1>1, <1>2, <1>4, <1>6, <1>9 DEF RequestIInv, Sound

-------------------------------------------------------------------------------
LEMMA RequestInitInductive == RequestInit => RequestIInv
<1> SUFFICES ASSUME RequestInit PROVE RequestIInv
  OBVIOUS
<1>1. Typing
  BY InitialRecord DEF RequestInit, Typing, NothingShown, Bodies
<1>2. Sound(request)
  BY InitialRecord DEF RequestInit, Sound
<1>3. Queued
  BY DEF RequestInit, Queued
<1>4. AsShown
  BY InitialRecord DEF RequestInit, AsShown, Honest, Shown, NothingShown
<1> QED
  BY <1>1, <1>2, <1>3, <1>4 DEF RequestIInv

LEMMA RequestNextInductive ==
  ASSUME RequestIInv, [RequestNext]_requestVars
  PROVE  RequestIInv'
<1>1. CASE UNCHANGED requestVars
  BY <1>1 DEF requestVars, RequestIInv, Typing, Sound, Queued, Follows, Approved, AsShown, Honest, Shown
<1>2. CASE \E w \in Windows : Get(w)
  <2>1. PICK w \in Windows : Get(w)
    BY <1>2
  <2>2. /\ read' = [read EXCEPT ![w] = request.entered]
        /\ request' = request /\ exists' = exists /\ copy' = copy /\ page' = page
        /\ overtaken' = overtaken /\ rewound' = rewound
    BY <2>1 DEF Get, history
  <2>3. read' \in [Windows -> (SUBSET Inputs) \cup {Unread}]
    BY <2>2 DEF RequestIInv, Typing, RecordType
  <2> QED
    BY <2>2, <2>3 DEF RequestIInv, Typing, Sound, Queued, Follows, Approved, AsShown, Honest, Shown
<1>3. CASE \E w \in Windows, q \in Questions : Ask(w, q)
  BY <1>3, AskStep
<1>4. CASE \E w \in Windows, body \in Specs : ProposeSpec(w, body)
  BY <1>4, ProposeSpecStep
<1>5. CASE \E w \in Windows, o \in Objects : Report(w, o)
  BY <1>5, ReportStep
<1>6. CASE \E w \in Windows, i \in Inputs : Edit(w, i)
  BY <1>6, EditStep
<1>7. CASE \E w \in Windows, q \in Questions, i \in Inputs, answer \in {"open", "answered"} : Answer(w, q, i, answer)
  BY <1>7, AnswerStep
<1>8. CASE \E w \in Windows : Show(w) \/ Annotate(w) \/ Approve(w) \/ RequestChanges(w)
  BY <1>8, RequestShowStep, AnnotateStep, ApproveStep, RequestChangesStep
<1>9. CASE \E w \in Windows : Delete(w)
  <2>1. exists' = FALSE /\ UNCHANGED <<request, copy, page, read, overtaken, rewound>>
    BY <1>9 DEF Delete, history
  <2>2. Typing'
    BY <2>1 DEF RequestIInv, Typing
  <2> QED
    BY <2>1, <2>2 DEF RequestIInv, Sound, Queued, Follows, Approved, AsShown, Honest, Shown
<1>10. CASE \E w \in Windows : Crash(w) \/ \E role \in Roles : Write(w, role)
  BY <1>10, CrashStep, WriteStep
<1> QED
  BY <1>1, <1>2, <1>3, <1>4, <1>5, <1>6, <1>7, <1>8, <1>9, <1>10 DEF RequestNext, Agent, Developer

\* The invariant the proofs rest on: a window's one change at a time is made
\* from the record as it is, unless another window replaces it meanwhile
\* (BuildRequestStore.serialized and mutate).
THEOREM RequestInductive == RequestSpec => []RequestIInv
<1>1. RequestInit => RequestIInv
  BY RequestInitInductive
<1>2. RequestIInv /\ [RequestNext]_requestVars => RequestIInv'
  BY RequestNextInductive
<1> QED
  BY <1>1, <1>2, PTL DEF RequestSpec

\* An approval that holds is for the body the page showed when it was given:
\* approve refuses a page with another revision, and no two specs share one
\* until the write of an overtaken copy changes the spec.
THEOREM ApprovedAsShownHolds == RequestSpec => []ApprovedAsShown
<1>1. RequestIInv => ApprovedAsShown
  BY DEF RequestIInv, AsShown, Honest, Approved, ApprovedAsShown
<1> QED
  BY <1>1, RequestInductive, PTL

\* Only a write changes the record; the copy it writes is gone.
LEMMA RecordStep ==
  ASSUME RequestIInv, [RequestNext]_requestVars, request' # request
  PROVE  \E w \in Windows, role \in Roles :
           copy[w][role] # NoCopy /\ request' = copy[w][role] /\ copy'[w] # copy[w]
<1>1. PICK w \in Windows, role \in Roles : Write(w, role)
  BY DEF RequestNext, Agent, Developer, requestVars, Get, Ask, ProposeSpec, Report, Show, Edit, Answer, Annotate, Approve,
         RequestChanges, Delete, Change, Crash
<1>2. copy[w][role] # NoCopy /\ request' = copy[w][role] /\ copy' = [copy EXCEPT ![w][role] = NoCopy]
  BY <1>1 DEF Write
<1>3. copy'[w][role] = NoCopy
  BY <1>2 DEF RequestIInv, Typing
<1> QED
  BY <1>2, <1>3

\* A step that is no write of an overtaken copy leaves the record as it is, or
\* puts a change in its place that was made from it.
LEMMA FreshStep ==
  ASSUME RequestIInv, [RequestNext]_requestVars, ~StaleWrite, request' # request
  PROVE  Follows(request', request)
<1>1. PICK w \in Windows, role \in Roles : copy[w][role] # NoCopy /\ request' = copy[w][role] /\ copy'[w] # copy[w]
  BY RecordStep
<1>2. w \notin overtaken
  BY <1>1 DEF StaleWrite
<1> QED
  BY <1>1, <1>2 DEF RequestIInv, Queued

\* No change of the agent writes away what the developer entered (one queue
\* serializes the read, the change and the write), unless another window's
\* write has come in between.
THEOREM InputsSurviveHolds == RequestSpec => InputsSurvive
<1>1. RequestIInv /\ [RequestNext]_requestVars => [request.entered \subseteq request'.entered \/ StaleWrite]_requestVars
  <2> SUFFICES ASSUME RequestIInv, [RequestNext]_requestVars, ~StaleWrite PROVE request.entered \subseteq request'.entered
    OBVIOUS
  <2>1. CASE request' = request
    BY <2>1
  <2>2. CASE request' # request
    BY <2>2, FreshStep DEF Follows
  <2> QED
    BY <2>1, <2>2
<1>2. RequestSpec => [][request.entered \subseteq request'.entered \/ StaleWrite]_requestVars
  BY <1>1, RequestInductive, PTL DEF RequestSpec
<1> QED
  BY <1>2 DEF InputsSurvive

\* An approval that a new input or another spec ended does not come back
\* without a new click (isApproved, and the numbers that propose and edit
\* give), unless an overtaken copy is written.
THEOREM LapsedStaysLapsedHolds == RequestSpec => LapsedStaysLapsed
<1>1. RequestIInv /\ [RequestNext]_requestVars => [Restored => StaleWrite]_requestVars
  <2> SUFFICES ASSUME RequestIInv, [RequestNext]_requestVars, ~Approved(request), Approved(request'), ~StaleWrite
               PROVE request'.approval # request.approval
    BY DEF Restored
  <2>1. request' # request
    OBVIOUS
  <2> QED
    BY <2>1, FreshStep DEF Follows
<1>2. RequestSpec => [][Restored => StaleWrite]_requestVars
  BY <1>1, RequestInductive, PTL DEF RequestSpec
<1> QED
  BY <1>2 DEF LapsedStaysLapsed

-------------------------------------------------------------------------------
(***************************************************************************)
(* Types of the build request with any number of windows.  The queue shows *)
(* in them: one change of a window is under way at most.                   *)
(***************************************************************************)
LEMMA TypedRecords ==
  /\ NewRequest \in RequestType /\ NoCopy \in RequestType /\ NothingShown \in ShownType
  /\ NoApproval \in [revision : 0 .. MaxRevisions, body : Bodies, inputs : 0 .. MaxInputs, shown : Bodies]
<1>1. 0 \in 0 .. MaxRevisions /\ 0 \in 0 .. MaxInputs /\ 1 \in 0 .. MaxInputs
  BY BoundAssumption
<1>2. NoSpec \in [revision : 0 .. MaxRevisions, body : Bodies, basedOn : 0 .. MaxInputs, seen : SUBSET Inputs]
  BY <1>1 DEF NoSpec, Bodies
<1>3. NoApproval \in [revision : 0 .. MaxRevisions, body : Bodies, inputs : 0 .. MaxInputs, shown : Bodies]
  BY <1>1 DEF NoApproval, Bodies
<1>4. NothingShown \in ShownType
  BY <1>1 DEF NothingShown, ShownType, Bodies
<1>5. NewRequest \in RequestType
  BY <1>1, <1>2, <1>3 DEF NewRequest, RequestType, Answers
<1>6. NoCopy \in RequestType
  BY <1>1, <1>5 DEF NoCopy, RequestType
<1> QED
  BY <1>3, <1>4, <1>5, <1>6

\* A change is the only one of its window.
LEMMA TypedChange ==
  ASSUME RequestTypeOK, NEW w \in Windows, NEW role \in Roles, NEW r \in RequestType, Change(w, role, r)
  PROVE  RequestTypeOK'
<1>1. /\ Turn(w, role) /\ copy' = [copy EXCEPT ![w][role] = r]
      /\ UNCHANGED <<request, exists, page, read, overtaken, rewound>> /\ begun < MaxBegun /\ begun' = begun + 1
  BY DEF Change, history
<1>2. /\ copy \in [Windows -> [Roles -> RequestType]]
      /\ \A v \in Windows : Cardinality(Changing(v)) <= 1
  BY DEF RequestTypeOK, Changing
<1>3. /\ copy' \in [Windows -> [Roles -> RequestType]]
      /\ \A v \in Windows : v # w => copy'[v] = copy[v]
      /\ \A s \in Roles : s # role => copy'[w][s] = copy[w][s]
  BY <1>1, <1>2
<1>4. ASSUME NEW v \in Windows PROVE Cardinality(Changing(v)') <= 1
  <2>1. CASE v = w
    <3>1. Changing(v)' \subseteq {role}
      BY <1>1, <1>3, <2>1 DEF Changing, Turn
    <3>2. IsFiniteSet({role}) /\ Cardinality({role}) = 1
      BY FS_Singleton
    <3>3. Cardinality(Changing(v)') <= Cardinality({role})
      BY <3>1, <3>2, FS_Subset
    <3> QED
      BY <3>2, <3>3
  <2>2. CASE v # w
    <3>1. Changing(v)' = Changing(v)
      BY <1>3, <2>2 DEF Changing
    <3> QED
      BY <1>2, <3>1
  <2> QED
    BY <2>1, <2>2
<1>5. begun' \in 0 .. MaxBegun
  BY <1>1, BoundAssumption DEF RequestTypeOK
<1> QED
  BY <1>1, <1>3, <1>4, <1>5 DEF RequestTypeOK, Changing

\* A window has fewer changes under way after a write or a crash.
LEMMA TypedDrop ==
  ASSUME RequestTypeOK, copy' \in [Windows -> [Roles -> RequestType]],
         \A w \in Windows, role \in Roles : copy'[w][role] # NoCopy => copy'[w][role] = copy[w][role]
  PROVE  \A w \in Windows : Cardinality(Changing(w)') <= 1
<1> TAKE w \in Windows
<1>1. Changing(w)' \subseteq Changing(w)
  BY DEF Changing
<1>2. IsFiniteSet(Changing(w))
  <2>1. IsFiniteSet({"developer"} \cup {"agent"})
    BY FS_Singleton, FS_AddElement
  <2> QED
    BY <2>1, FS_Subset DEF Changing, Roles
<1>3. Cardinality(Changing(w)) <= 1 /\ Cardinality(Changing(w)') <= Cardinality(Changing(w))
  BY <1>1, <1>2, FS_Subset DEF RequestTypeOK, Changing
<1>4. Cardinality(Changing(w)) \in Nat /\ Cardinality(Changing(w)') \in Nat
  BY <1>1, <1>2, FS_Subset, FS_CardinalityType
<1> QED
  BY <1>3, <1>4

LEMMA TypedWrite ==
  ASSUME RequestTypeOK, NEW w \in Windows, NEW role \in Roles, Write(w, role)
  PROVE  RequestTypeOK'
<1>1. /\ request' = IF exists THEN copy[w][role] ELSE request
      /\ copy' = [copy EXCEPT ![w][role] = NoCopy]
      /\ overtaken' = (IF exists THEN overtaken \cup {v \in Windows : Changing(v) # {}} ELSE overtaken) \ {w}
      /\ rewound' = (rewound \/ (w \in overtaken /\ request'.spec # request.spec))
      /\ UNCHANGED <<exists, page, read, begun>>
  BY DEF Write
<1>2. copy \in [Windows -> [Roles -> RequestType]] /\ request \in RequestType
  BY DEF RequestTypeOK
<1>3. NoCopy \in RequestType
  BY TypedRecords
<1>4. /\ copy' \in [Windows -> [Roles -> RequestType]] /\ request' \in RequestType
      /\ \A v \in Windows, s \in Roles : copy'[v][s] # NoCopy => copy'[v][s] = copy[v][s]
  BY <1>1, <1>2, <1>3
<1>5. \A v \in Windows : Cardinality(Changing(v)') <= 1
  BY <1>4, TypedDrop
<1>6. overtaken' \subseteq Windows /\ rewound' \in BOOLEAN
  <2>1. overtaken' \subseteq Windows
    BY <1>1 DEF RequestTypeOK
  <2>2. rewound' \in BOOLEAN
    BY <1>1, Zenon
  <2> QED
    BY <2>1, <2>2
<1> QED
  BY <1>1, <1>4, <1>5, <1>6 DEF RequestTypeOK, Changing

LEMMA TypedCrash ==
  ASSUME RequestTypeOK, NEW w \in Windows, Crash(w)
  PROVE  RequestTypeOK'
<1>1. /\ copy' = [copy EXCEPT ![w] = [role \in Roles |-> NoCopy]]
      /\ page' = [page EXCEPT ![w] = NothingShown] /\ read' = [read EXCEPT ![w] = Unread]
      /\ overtaken' = overtaken \ {w} /\ UNCHANGED <<request, exists, begun, rewound>>
  BY DEF Crash
<1>2. /\ copy \in [Windows -> [Roles -> RequestType]] /\ page \in [Windows -> ShownType]
      /\ read \in [Windows -> (SUBSET Inputs) \cup {Unread}]
  BY DEF RequestTypeOK
<1>3. NoCopy \in RequestType /\ NothingShown \in ShownType
  BY TypedRecords
<1>4. /\ copy' \in [Windows -> [Roles -> RequestType]]
      /\ \A v \in Windows, s \in Roles : copy'[v][s] # NoCopy => copy'[v][s] = copy[v][s]
  BY <1>1, <1>2, <1>3
<1>5. \A v \in Windows : Cardinality(Changing(v)') <= 1
  BY <1>4, TypedDrop
<1>6. page' \in [Windows -> ShownType] /\ read' \in [Windows -> (SUBSET Inputs) \cup {Unread}]
  BY <1>1, <1>2, <1>3
<1> QED
  BY <1>1, <1>4, <1>5, <1>6 DEF RequestTypeOK, Changing

\* The agent's changes.
LEMMA TypedAgent ==
  ASSUME RequestTypeOK, NEW w \in Windows, Agent(w)
  PROVE  RequestTypeOK'
<1>1. request \in RequestType /\ read \in [Windows -> (SUBSET Inputs) \cup {Unread}] /\ "agent" \in Roles
  BY DEF RequestTypeOK, Roles
<1>2. CASE Get(w)
  <2>1. read' = [read EXCEPT ![w] = request.entered] /\ request.entered \in SUBSET Inputs
    BY <1>1, <1>2 DEF Get, RequestType
  <2>2. read' \in [Windows -> (SUBSET Inputs) \cup {Unread}]
    BY <1>1, <2>1
  <2> QED
    BY <1>2, <2>2 DEF Get, history, RequestTypeOK, Changing
<1>3. CASE \E q \in Questions : Ask(w, q)
  <2>1. PICK q \in Questions : Change(w, "agent", [request EXCEPT !.questions[q] = "open"])
    BY <1>3 DEF Ask
  <2>2. [request EXCEPT !.questions[q] = "open"] \in RequestType
    BY <1>1 DEF RequestType, Answers
  <2> QED
    BY <1>1, <2>1, <2>2, TypedChange
<1>4. CASE \E body \in Specs : ProposeSpec(w, body)
  <2>1. PICK body \in Specs : ProposeSpec(w, body)
    BY <1>4
  <2> DEFINE spec == [revision |-> request.spec.revision + 1, body |-> body, basedOn |-> request.inputs, seen |-> read[w]]
  <2>2. /\ Change(w, "agent", [request EXCEPT !.spec = spec])
        /\ read[w] # Unread /\ request.spec.revision < MaxRevisions
    BY <2>1 DEF ProposeSpec, NextRevision
  <2>3. /\ request.spec.revision \in 0 .. MaxRevisions /\ request.inputs \in 0 .. MaxInputs
        /\ read[w] \in SUBSET Inputs /\ body \in Bodies
    BY <1>1, <2>2 DEF RequestType, Bodies
  <2>4. request.spec.revision + 1 \in 0 .. MaxRevisions
    BY <2>2, <2>3, BoundAssumption
  <2>5. spec \in [revision : 0 .. MaxRevisions, body : Bodies, basedOn : 0 .. MaxInputs, seen : SUBSET Inputs]
    BY <2>3, <2>4
  <2> HIDE DEF spec
  <2>6. [request EXCEPT !.spec = spec] \in RequestType
    BY <1>1, <2>5 DEF RequestType
  <2> QED
    BY <1>1, <2>2, <2>6, TypedChange
<1>5. CASE \E o \in Objects : Report(w, o)
  <2>1. PICK o \in Objects : Change(w, "agent", [request EXCEPT !.progress[o] = "BUILT"])
    BY <1>5 DEF Report
  <2>2. [request EXCEPT !.progress[o] = "BUILT"] \in RequestType
    BY <1>1 DEF RequestType
  <2> QED
    BY <1>1, <2>1, <2>2, TypedChange
<1> QED
  BY <1>2, <1>3, <1>4, <1>5 DEF Agent

LEMMA TypedInput ==
  ASSUME RequestTypeOK, NEW i \in Inputs, request.inputs < MaxInputs
  PROVE  WithInput(request, i) \in RequestType
<1>1. request \in RequestType
  BY DEF RequestTypeOK
<1>2. request.inputs + 1 \in 0 .. MaxInputs /\ request.entered \cup {i} \in SUBSET Inputs
  <2>1. request.inputs \in 0 .. MaxInputs /\ request.entered \in SUBSET Inputs
    BY <1>1 DEF RequestType
  <2> QED
    BY <2>1, BoundAssumption
<1>3. WithInput(request, i) = [request EXCEPT !.inputs = request.inputs + 1, !.entered = request.entered \cup {i}]
  BY DEF WithInput
<1> QED
  BY <1>1, <1>2, <1>3 DEF RequestType

\* The developer's changes.
LEMMA TypedDeveloper ==
  ASSUME RequestTypeOK, NEW w \in Windows, Developer(w)
  PROVE  RequestTypeOK'
<1>1. request \in RequestType /\ page \in [Windows -> ShownType] /\ "developer" \in Roles
  BY DEF RequestTypeOK, Roles
<1>2. /\ request.spec.revision \in 0 .. MaxRevisions /\ request.spec.body \in Bodies
      /\ request.inputs \in 0 .. MaxInputs /\ page[w].body \in Bodies
  BY <1>1 DEF RequestType, ShownType
<1>3. CASE Show(w)
  <2>1. page' = [page EXCEPT ![w] = [revision |-> request.spec.revision, body |-> request.spec.body]]
    BY <1>3 DEF Show
  <2>2. page' \in [Windows -> ShownType]
    BY <1>1, <1>2, <2>1 DEF ShownType
  <2> QED
    BY <1>3, <2>2 DEF Show, history, RequestTypeOK, Changing
<1>4. CASE \E i \in Inputs : Edit(w, i)
  BY <1>1, <1>4, TypedInput, TypedChange DEF Edit
<1>5. CASE \E q \in Questions, i \in Inputs, answer \in {"open", "answered"} : Answer(w, q, i, answer)
  <2>1. PICK q \in Questions, i \in Inputs, answer \in {"open", "answered"} : Answer(w, q, i, answer)
    BY <1>5
  <2> DEFINE entered == WithInput(request, i)
  <2>2. request.inputs < MaxInputs /\ Change(w, "developer", [entered EXCEPT !.questions[q] = answer])
    BY <2>1 DEF Answer
  <2>3. entered \in RequestType
    BY <2>2, TypedInput
  <2> HIDE DEF entered
  <2>4. [entered EXCEPT !.questions[q] = answer] \in RequestType
    BY <2>3 DEF RequestType, Answers
  <2> QED
    BY <1>1, <2>2, <2>4, TypedChange
<1>6. CASE Annotate(w)
  BY <1>1, <1>6, TypedChange DEF Annotate
<1>7. CASE Approve(w)
  <2> DEFINE approval == [revision |-> request.spec.revision, body |-> request.spec.body, inputs |-> request.inputs, shown |-> page[w].body]
  <2>1. Change(w, "developer", [request EXCEPT !.approval = approval])
    BY <1>7 DEF Approve
  <2>2. approval \in [revision : 0 .. MaxRevisions, body : Bodies, inputs : 0 .. MaxInputs, shown : Bodies]
    BY <1>2
  <2> HIDE DEF approval
  <2>3. [request EXCEPT !.approval = approval] \in RequestType
    BY <1>1, <2>2 DEF RequestType
  <2> QED
    BY <1>1, <2>1, <2>3, TypedChange
<1>8. CASE RequestChanges(w)
  <2>1. NoApproval \in [revision : 0 .. MaxRevisions, body : Bodies, inputs : 0 .. MaxInputs, shown : Bodies]
    BY TypedRecords
  <2>2. [request EXCEPT !.approval = NoApproval] \in RequestType
    BY <1>1, <2>1 DEF RequestType
  <2> QED
    BY <1>1, <1>8, <2>2, TypedChange DEF RequestChanges
<1>9. CASE Delete(w)
  BY <1>9 DEF Delete, history, RequestTypeOK, Changing
<1> QED
  BY <1>3, <1>4, <1>5, <1>6, <1>7, <1>8, <1>9 DEF Developer

\* Every variable keeps its type, and a window has one change under way at most
\* (the queue that panel and MCP tools share), with any number of windows.
THEOREM RequestTyped == RequestSpec => []RequestTypeOK
<1>1. RequestInit => RequestTypeOK
  <2> SUFFICES ASSUME RequestInit PROVE RequestTypeOK
    OBVIOUS
  <2>1. NewRequest \in RequestType /\ NoCopy \in RequestType /\ NothingShown \in ShownType
    BY TypedRecords
  <2>2. /\ request \in RequestType /\ exists \in BOOLEAN /\ copy \in [Windows -> [Roles -> RequestType]]
        /\ page \in [Windows -> ShownType] /\ read \in [Windows -> (SUBSET Inputs) \cup {Unread}]
    BY <2>1 DEF RequestInit
  <2>3. ASSUME NEW w \in Windows PROVE Cardinality(Changing(w)) <= 1
    <3>1. Changing(w) = {}
      BY DEF RequestInit, Changing
    <3> QED
      BY <3>1, FS_EmptySet
  <2> QED
    <3>1. begun \in 0 .. MaxBegun /\ overtaken \subseteq Windows /\ rewound \in BOOLEAN
      <4>1. begun = 0 /\ overtaken = {} /\ rewound = FALSE
        BY DEF RequestInit
      <4>2. 0 \in 0 .. MaxBegun
        BY BoundAssumption
      <4> QED
        BY <4>1, <4>2, Zenon
    <3> QED
      BY <2>2, <2>3, <3>1 DEF RequestTypeOK
<1>2. RequestTypeOK /\ [RequestNext]_requestVars => RequestTypeOK'
  <2> SUFFICES ASSUME RequestTypeOK, [RequestNext]_requestVars PROVE RequestTypeOK'
    OBVIOUS
  <2>1. CASE UNCHANGED requestVars
    BY <2>1 DEF requestVars, RequestTypeOK, Changing
  <2>2. CASE \E w \in Windows : Agent(w) \/ Developer(w) \/ Crash(w) \/ \E role \in Roles : Write(w, role)
    BY <2>2, TypedAgent, TypedDeveloper, TypedCrash, TypedWrite
  <2> QED
    BY <2>1, <2>2 DEF RequestNext
<1> QED
  BY <1>1, <1>2, PTL DEF RequestSpec

-------------------------------------------------------------------------------
(***************************************************************************)
(* Validation as you type, for any documents and any number of changes:    *)
(* the diagnostics shown are of the present text, and the present text is  *)
(* not forgotten.                                                          *)
(*                                                                         *)
(* What carries it: whatever waits or runs is of the very document that is *)
(* open under its URI and of the present environment, since closing and    *)
(* invalidating cancel it; so a request that has the version is that of    *)
(* the present text; and a request is only ever replaced by one for the    *)
(* text as it is then.                                                     *)
(***************************************************************************)
\* A request that waits or runs is of a document that is open, of that very
\* document, of the present environment, and of its text or an earlier one.
Mine(r) ==
  /\ Open(r.doc) /\ r.life = text[r.doc].life /\ r.epoch = epoch
  /\ r.version <= text[r.doc].version

\* A text whose run failed is of a document that was opened before, or of the
\* present one, and then of its text or an earlier one.
Past(r) ==
  \/ r.life < text[r.doc].life
  \/ r.life = text[r.doc].life /\ (Open(r.doc) => r.version <= text[r.doc].version)

\* Numbers are bounded by the number of changes.
Counts ==
  /\ epoch <= changes
  /\ \A d \in Docs : text[d].version <= changes /\ text[d].life <= changes

Waiting ==
  /\ \A d \in Docs : timer[d] # Nothing => Mine(timer[d])
  /\ \A i \in 1 .. Len(queue) : Mine(queue[i])
  /\ rejected => running # Nothing /\ ~IsCurrent(running)
  /\ running # Nothing /\ ~rejected => Mine(running)

\* The environment checks are for the document whose text was compiled.
Checked == \A s \in showing : s.from = s.of

ShownOk(d) == shown[d] # Nothing => shown[d].doc = d /\ Current(shown[d])
FailedOk(d) == failed[d] # Nothing => failed[d].doc = d /\ Past(failed[d])

\* The present text's request is not replaced: what waits for the pause is not
\* older than what is queued, nor does an older run outlast a newer one.
InOrder(d) ==
  /\ timer[d] # Nothing /\ (\E i \in 1 .. Len(queue) : queue[i] = Request(d)) => timer[d] = Request(d)
  /\ Open(d) /\ failed[d] = Request(d) /\ ~rejected /\ running # Nothing /\ running.doc = d =>
       running = Request(d)

NotForgotten(d) == Open(d) /\ on => shown[d] # Nothing \/ failed[d] = Request(d) \/ Underway(d)

LiveIInv ==
  /\ LiveTypeOK /\ Counts /\ Waiting /\ Checked
  /\ \A d \in Docs : ShownOk(d) /\ FailedOk(d) /\ InOrder(d) /\ NotForgotten(d)

\* A set of natural numbers has a least element.
LEMMA LeastElement ==
  ASSUME NEW S, S \subseteq Nat, S # {}
  PROVE  \E k \in S : \A j \in S : k <= j
<1> DEFINE R == OpToRel(<, Nat)
<1>1. \A x, y \in Nat : x < y => <<x, y>> \in R
  BY DEF OpToRel
<1>2. IsWellFoundedOn(R, Nat)
  BY NatLessThanWellFounded, Zenon
<1> HIDE DEF R
<1>3. PICK k \in S : \A j \in S : <<j, k>> \notin R
  BY <1>2, WFMin
<1>4. \A j \in S : ~(j < k)
  BY <1>1, <1>3
<1> QED
  BY <1>4

LEMMA RequestIsTyped ==
  ASSUME LiveTypeOK, NEW d \in Docs
  PROVE  Request(d) \in Requests /\ Request(d) # Nothing /\ Request(d).doc = d
  BY NothingAssumption, ChangesAssumption DEF LiveTypeOK, Request, Requests

LEMMA RequestsAreSomething == \A r \in Requests : r # Nothing
  BY NothingAssumption, ChangesAssumption DEF Requests

\* What the validator takes for current by URI and version is the present text.
LEMMA CurrentIsPresent ==
  ASSUME LiveTypeOK, NEW r \in Requests, Mine(r), IsCurrent(r)
  PROVE  r = Request(r.doc) /\ Current(r)
  BY DEF Mine, IsCurrent, Requests, Request, Current

LEMMA MineIsPast ==
  ASSUME NEW r, Mine(r)
  PROVE  Past(r)
  BY DEF Mine, Past

\* The present request is the document's own.
LEMMA PresentIsMine ==
  ASSUME LiveTypeOK, NEW d \in Docs, Open(d)
  PROVE  Mine(Request(d)) /\ IsCurrent(Request(d)) /\ Current(Request(d))
  BY DEF Mine, IsCurrent, Current, Request, LiveTypeOK

Distinct(q) == \A i, j \in 1 .. Len(q) : q[i].doc = q[j].doc => i = j

\* A queue without its first requests.
Rest(q, k) == SubSeq(q, k + 1, Len(q))
LEMMA RestOfQueue ==
  ASSUME NEW q \in Seq(Requests), Distinct(q), NEW k \in 1 .. Len(q)
  PROVE  /\ Rest(q, k) \in Seq(Requests) /\ Distinct(Rest(q, k))
         /\ \A i \in 1 .. Len(Rest(q, k)) : \E j \in 1 .. Len(q) : Rest(q, k)[i] = q[j]
         /\ \A j \in 1 .. Len(q) : j > k => \E i \in 1 .. Len(Rest(q, k)) : Rest(q, k)[i] = q[j]
<1>1. Len(q) \in Nat /\ \A i \in 1 .. Len(q) : q[i] \in Requests
  BY ElementOfSeq, LenProperties
<1>2. /\ Rest(q, k) \in Seq(Requests)
      /\ Len(Rest(q, k)) = Len(q) - k
      /\ \A i \in 1 .. Len(q) - k : Rest(q, k)[i] = q[k + i]
  <2>1. \A i \in k + 1 .. Len(q) : q[i] \in Requests
    BY <1>1
  <2>2. /\ SubSeq(q, k + 1, Len(q)) \in Seq(Requests)
        /\ Len(SubSeq(q, k + 1, Len(q))) = IF k + 1 <= Len(q) THEN Len(q) - (k + 1) + 1 ELSE 0
        /\ \A i \in 1 .. Len(q) - (k + 1) + 1 : SubSeq(q, k + 1, Len(q))[i] = q[k + 1 + i - 1]
    BY <1>1, <2>1, SubSeqProperties
  <2> QED
    BY <1>1, <2>2 DEF Rest
<1>3. ASSUME NEW i \in 1 .. Len(Rest(q, k)) PROVE k + i \in 1 .. Len(q) /\ Rest(q, k)[i] = q[k + i]
  BY <1>1, <1>2
<1>4. Distinct(Rest(q, k))
  <2>1. ASSUME NEW i \in 1 .. Len(Rest(q, k)), NEW j \in 1 .. Len(Rest(q, k)),
               Rest(q, k)[i].doc = Rest(q, k)[j].doc
        PROVE  i = j
    <3>1. k + i \in 1 .. Len(q) /\ k + j \in 1 .. Len(q) /\ q[k + i].doc = q[k + j].doc
      BY <1>3, <2>1
    <3>2. k + i = k + j
      BY <3>1 DEF Distinct
    <3> QED
      BY <1>1, <1>2, <3>2
  <2> QED
    BY <2>1 DEF Distinct
<1>5. ASSUME NEW j \in 1 .. Len(q), j > k PROVE \E i \in 1 .. Len(Rest(q, k)) : Rest(q, k)[i] = q[j]
  <2>1. j - k \in 1 .. Len(Rest(q, k)) /\ Rest(q, k)[j - k] = q[j]
    BY <1>1, <1>2, <1>5
  <2> QED
    BY <2>1
<1>6. \A i \in 1 .. Len(Rest(q, k)) : \E j \in 1 .. Len(q) : Rest(q, k)[i] = q[j]
  BY <1>3
<1>7. Rest(q, k) \in Seq(Requests)
  BY <1>2
<1> QED
  BY <1>4, <1>5, <1>6, <1>7

\* next(): nothing is added, what runs is current, and what is current runs or
\* is still queued.
LEMMA AdvanceStep ==
  ASSUME NEW q \in Seq(Requests), Distinct(q), NEW r \in Optional, Advance(q, r)
  PROVE  /\ queue' \in Seq(Requests) /\ Distinct(queue') /\ running' \in Optional
         /\ \A i \in 1 .. Len(queue') : \E j \in 1 .. Len(q) : queue'[i] = q[j]
         /\ r # Nothing => running' = r
         /\ r = Nothing /\ running' # Nothing =>
              IsCurrent(running') /\ \E j \in 1 .. Len(q) : running' = q[j]
         /\ \A j \in 1 .. Len(q) : IsCurrent(q[j]) =>
              running' = q[j] \/ \E i \in 1 .. Len(queue') : queue'[i] = q[j]
<1>1. CASE r # Nothing
  BY <1>1 DEF Advance
<1>2. CASE r = Nothing
  <2> DEFINE ready == {i \in 1 .. Len(q) : IsCurrent(q[i])}
             first == CHOOSE i \in ready : \A j \in ready : i <= j
  <2>1. Len(q) \in Nat /\ \A i \in 1 .. Len(q) : q[i] \in Requests
    BY ElementOfSeq, LenProperties
  <2>2. CASE ready = {}
    <3>1. queue' = <<>> /\ running' = Nothing
      BY <1>2, <2>2 DEF Advance
    <3>2. queue' \in Seq(Requests) /\ Len(queue') = 0
      BY <3>1, EmptySeq
    <3> QED
      BY <1>2, <2>2, <3>1, <3>2 DEF Distinct, Optional
  <2>3. CASE ready # {}
    <3>1. PICK k \in ready : \A j \in ready : k <= j
      <4>1. ready \subseteq Nat /\ ready # {}
        BY <2>1, <2>3
      <4> QED
        BY <4>1, LeastElement
    <3>2. first \in ready /\ \A j \in ready : first <= j
      BY <3>1
    <3>3. queue' = Rest(q, first) /\ running' = q[first]
      BY <1>2, <2>3 DEF Advance, Rest
    <3> HIDE DEF first
    <3>4. first \in 1 .. Len(q) /\ IsCurrent(q[first])
      BY <3>2
    <3>5. /\ queue' \in Seq(Requests) /\ Distinct(queue')
          /\ \A i \in 1 .. Len(queue') : \E j \in 1 .. Len(q) : queue'[i] = q[j]
          /\ \A j \in 1 .. Len(q) : j > first => \E i \in 1 .. Len(queue') : queue'[i] = q[j]
      BY <3>3, <3>4, RestOfQueue
    <3>6. ASSUME NEW j \in 1 .. Len(q), IsCurrent(q[j])
          PROVE  running' = q[j] \/ \E i \in 1 .. Len(queue') : queue'[i] = q[j]
      <4>1. j = first \/ j > first
        BY <2>1, <3>2, <3>4, <3>6
      <4> QED
        BY <4>1, <3>3, <3>5
    <3> QED
      BY <1>2, <2>1, <3>3, <3>4, <3>5, <3>6 DEF Optional
  <2> QED
    BY <2>2, <2>3
<1> QED
  BY <1>1, <1>2

\* queued.set: the request is there, once, and those of other documents stay.
LEMMA EnqueuedProperties ==
  ASSUME NEW q \in Seq(Requests), Distinct(q), NEW r \in Requests
  PROVE  /\ Enqueued(q, r) \in Seq(Requests) /\ Distinct(Enqueued(q, r))
         /\ \E i \in 1 .. Len(Enqueued(q, r)) : Enqueued(q, r)[i] = r
         /\ \A i \in 1 .. Len(Enqueued(q, r)) :
              \/ Enqueued(q, r)[i] = r
              \/ \E j \in 1 .. Len(q) : Enqueued(q, r)[i] = q[j] /\ q[j].doc # r.doc
         /\ \A j \in 1 .. Len(q) : q[j].doc # r.doc =>
              \E i \in 1 .. Len(Enqueued(q, r)) : Enqueued(q, r)[i] = q[j]
<1>1. Len(q) \in Nat /\ (\A i \in 1 .. Len(q) : q[i] \in Requests) /\ q \in [1 .. Len(q) -> Requests]
  BY ElementOfSeq, LenProperties
<1>2. CASE \E i \in 1 .. Len(q) : q[i].doc = r.doc
  <2> DEFINE p == [i \in 1 .. Len(q) |-> IF q[i].doc = r.doc THEN r ELSE q[i]]
  <2>1. Enqueued(q, r) = p
    BY <1>2 DEF Enqueued
  <2>2. p \in [1 .. Len(q) -> Requests]
    BY <1>1
  <2>3. p \in Seq(Requests)
    BY <1>1, <2>2, SeqDef
  <2>4. Len(p) = Len(q)
    BY <1>1, <2>2, <2>3, LenProperties
  <2>5. \A i \in 1 .. Len(q) : p[i] = IF q[i].doc = r.doc THEN r ELSE q[i]
    OBVIOUS
  <2> HIDE DEF p
  <2>6. \A i \in 1 .. Len(q) : p[i].doc = q[i].doc
    BY <2>5
  <2>7. Distinct(p)
    BY <2>4, <2>6 DEF Distinct
  <2> QED
    BY <1>2, <2>1, <2>3, <2>4, <2>5, <2>7
<1>3. CASE \A i \in 1 .. Len(q) : q[i].doc # r.doc
  <2> DEFINE p == Append(q, r)
  <2>1. Enqueued(q, r) = p
    BY <1>3 DEF Enqueued
  <2>2. /\ p \in Seq(Requests) /\ Len(p) = Len(q) + 1
        /\ \A i \in 1 .. Len(q) : p[i] = q[i]
        /\ p[Len(q) + 1] = r
    BY AppendProperties
  <2> HIDE DEF p
  <2>3. \A i \in 1 .. Len(p) : i \in 1 .. Len(q) \/ i = Len(q) + 1
    BY <1>1, <2>2
  <2>4. Len(q) + 1 \in 1 .. Len(p) /\ \A i \in 1 .. Len(q) : i \in 1 .. Len(p)
    BY <1>1, <2>2
  <2>5. Distinct(p)
    BY <1>3, <2>2, <2>3 DEF Distinct
  <2>6. \A i \in 1 .. Len(p) : p[i] = r \/ \E j \in 1 .. Len(q) : p[i] = q[j] /\ q[j].doc # r.doc
    BY <1>3, <2>2, <2>3
  <2>7. \A j \in 1 .. Len(q) : \E i \in 1 .. Len(p) : p[i] = q[j]
    BY <2>2, <2>4
  <2> QED
    BY <2>1, <2>2, <2>4, <2>5, <2>6, <2>7
<1> QED
  BY <1>2, <1>3

\* queued.delete: nothing of the document is left, and those of others stay.
LEMMA WithoutProperties ==
  ASSUME NEW q \in Seq(Requests), Distinct(q), NEW d \in Docs
  PROVE  /\ Without(q, d) \in Seq(Requests) /\ Distinct(Without(q, d))
         /\ \A i \in 1 .. Len(Without(q, d)) :
              \E j \in 1 .. Len(q) : Without(q, d)[i] = q[j] /\ q[j].doc # d
         /\ \A j \in 1 .. Len(q) : q[j].doc # d =>
              \E i \in 1 .. Len(Without(q, d)) : Without(q, d)[i] = q[j]
<1>1. Len(q) \in Nat /\ (\A i \in 1 .. Len(q) : q[i] \in Requests)
  BY ElementOfSeq, LenProperties
<1> DEFINE places == {i \in 1 .. Len(q) : q[i].doc = d}
           place == CHOOSE i \in places : TRUE
           front == SubSeq(q, 1, place - 1)
           back == SubSeq(q, place + 1, Len(q))
           p == front \o back
<1>2. CASE places = {}
  BY <1>1, <1>2 DEF Without
<1>3. CASE places # {}
  <2>1. place \in 1 .. Len(q) /\ q[place].doc = d
    BY <1>3
  <2>2. Without(q, d) = p
    BY <1>3 DEF Without
  <2> HIDE DEF place
  <2>3. /\ front \in Seq(Requests) /\ Len(front) = place - 1
        /\ \A i \in 1 .. place - 1 : front[i] = q[i]
    <3>1. \A i \in 1 .. place - 1 : q[i] \in Requests
      BY <1>1, <2>1
    <3>2. 1 \in Int /\ place - 1 \in Int
      BY <2>1
    <3>3. /\ front \in Seq(Requests)
          /\ Len(front) = IF 1 <= place - 1 THEN place - 1 - 1 + 1 ELSE 0
          /\ \A i \in 1 .. place - 1 - 1 + 1 : front[i] = q[1 + i - 1]
      BY <3>1, <3>2, SubSeqProperties
    <3> QED
      BY <2>1, <3>3
  <2>4. /\ back \in Seq(Requests) /\ Len(back) = Len(q) - place
        /\ \A i \in 1 .. Len(q) - place : back[i] = q[place + i]
    <3>1. \A i \in place + 1 .. Len(q) : q[i] \in Requests
      BY <1>1, <2>1
    <3>2. place + 1 \in Int /\ Len(q) \in Int
      BY <1>1, <2>1
    <3>3. /\ back \in Seq(Requests)
          /\ Len(back) = IF place + 1 <= Len(q) THEN Len(q) - (place + 1) + 1 ELSE 0
          /\ \A i \in 1 .. Len(q) - (place + 1) + 1 : back[i] = q[place + 1 + i - 1]
      BY <3>1, <3>2, SubSeqProperties
    <3> QED
      BY <1>1, <2>1, <3>3
  <2> HIDE DEF front, back
  <2>5. /\ p \in Seq(Requests) /\ Len(p) = Len(front) + Len(back)
        /\ \A i \in 1 .. Len(front) + Len(back) :
             p[i] = IF i <= Len(front) THEN front[i] ELSE back[i - Len(front)]
    BY <2>3, <2>4, ConcatProperties
  <2> HIDE DEF p
  <2>6. /\ Len(p) = Len(q) - 1
        /\ \A i \in 1 .. Len(q) - 1 : p[i] = IF i < place THEN q[i] ELSE q[i + 1]
    <3>1. Len(p) = Len(q) - 1
      BY <1>1, <2>1, <2>3, <2>4, <2>5
    <3>2. ASSUME NEW i \in 1 .. Len(q) - 1, i < place PROVE p[i] = q[i]
      <4>1. i \in 1 .. Len(front) + Len(back) /\ i <= Len(front) /\ i \in 1 .. place - 1
        BY <1>1, <2>1, <2>3, <2>4, <3>2
      <4> QED
        BY <2>3, <2>5, <4>1
    <3>3. ASSUME NEW i \in 1 .. Len(q) - 1, ~(i < place) PROVE p[i] = q[i + 1]
      <4>1. /\ i \in 1 .. Len(front) + Len(back) /\ ~(i <= Len(front))
            /\ i - Len(front) \in 1 .. Len(q) - place /\ place + (i - Len(front)) = i + 1
        BY <1>1, <2>1, <2>3, <2>4, <3>3
      <4> QED
        BY <2>4, <2>5, <4>1
    <3> QED
      BY <3>1, <3>2, <3>3
  <2> DEFINE At(i) == IF i < place THEN i ELSE i + 1
  <2>7. ASSUME NEW i \in 1 .. Len(p) PROVE At(i) \in 1 .. Len(q) /\ At(i) # place /\ p[i] = q[At(i)]
    BY <1>1, <2>1, <2>6
  <2>8. ASSUME NEW i \in 1 .. Len(p), NEW j \in 1 .. Len(p), At(i) = At(j) PROVE i = j
    BY <1>1, <2>1, <2>6, <2>8
  <2> HIDE DEF At
  <2>9. Distinct(p)
    BY <2>7, <2>8 DEF Distinct
  <2>10. \A i \in 1 .. Len(p) : \E j \in 1 .. Len(q) : p[i] = q[j] /\ q[j].doc # d
    BY <2>1, <2>7 DEF Distinct
  <2>11. ASSUME NEW j \in 1 .. Len(q), q[j].doc # d PROVE \E i \in 1 .. Len(p) : p[i] = q[j]
    <3>1. j # place
      BY <2>1, <2>11
    <3>2. CASE j < place
      <4>1. j \in 1 .. Len(p) /\ p[j] = q[j]
        BY <1>1, <2>1, <2>6, <3>2
      <4> QED
        BY <4>1
    <3>3. CASE j > place
      <4>1. j - 1 \in 1 .. Len(p) /\ p[j - 1] = q[j]
        BY <1>1, <2>1, <2>6, <3>3
      <4> QED
        BY <4>1
    <3> QED
      BY <1>1, <2>1, <3>1, <3>2, <3>3
  <2> QED
    BY <2>2, <2>5, <2>9, <2>10, <2>11
<1> QED
  BY <1>2, <1>3

\* What holds of each request that waits, by its place.
LEMMA Places ==
  ASSUME LiveIInv
  PROVE  /\ Distinct(queue) /\ queue \in Seq(Requests)
         /\ \A i \in 1 .. Len(queue) : queue[i] \in Requests /\ Mine(queue[i])
         /\ \A d \in Docs : timer[d] # Nothing =>
              timer[d] \in Requests /\ timer[d].doc = d /\ Mine(timer[d])
         /\ running # Nothing => running \in Requests /\ running.doc \in Docs
<1>1. LiveTypeOK /\ Waiting
  BY DEF LiveIInv
<1>2. Distinct(queue) /\ queue \in Seq(Requests) /\ \A i \in 1 .. Len(queue) : Mine(queue[i])
  BY <1>1 DEF LiveTypeOK, Distinct, Waiting
<1>3. \A i \in 1 .. Len(queue) : queue[i] \in Requests
  BY <1>2, ElementOfSeq
<1>4. \A d \in Docs : timer[d] # Nothing => timer[d] \in Requests /\ timer[d].doc = d /\ Mine(timer[d])
  BY <1>1 DEF LiveTypeOK, Waiting, Optional
<1>5. running # Nothing => running \in Requests
  BY <1>1 DEF LiveTypeOK, Optional
<1>6. \A r \in Requests : r.doc \in Docs
  BY DEF Requests
<1> QED
  BY <1>2, <1>3, <1>4, <1>5, <1>6

\* While the editor rests, requests stay what they are.
Resting ==
  /\ \A d : Request(d)' = Request(d) /\ (Open(d)' <=> Open(d))
  /\ \A r : /\ Mine(r)' <=> Mine(r)
            /\ Past(r)' <=> Past(r)
            /\ IsCurrent(r)' <=> IsCurrent(r)
            /\ Current(r)' <=> Current(r)
  /\ on' = on /\ Counts'

LEMMA EditorRests ==
  ASSUME LiveIInv, UNCHANGED editor \/ (Counted /\ UNCHANGED <<text, epoch, on>>)
  PROVE  Resting
<1>1. UNCHANGED <<text, epoch, on>>
  BY DEF editor
<1>2. Counts'
  <2>1. LiveTypeOK /\ Counts /\ changes \in Nat /\ (changes' = changes \/ changes' = changes + 1)
    BY ChangesAssumption DEF LiveIInv, LiveTypeOK, editor, Counted
  <2>2. epoch \in Nat /\ \A d \in Docs : text[d].version \in Nat /\ text[d].life \in Nat
    BY <2>1, ChangesAssumption DEF LiveTypeOK
  <2> QED
    BY <1>1, <2>1, <2>2 DEF Counts
<1> QED
  BY <1>1, <1>2 DEF Resting, Request, Open, Mine, Past, IsCurrent, Current

\* The stale timer abandons no run for the present text.
LEMMA StaleStep ==
  ASSUME LiveIInv, ~rejected, Stale
  PROVE  LiveIInv'
<1>1. /\ UNCHANGED <<editor, fetching, timer, queue, running, results>> /\ armed' = FALSE
      /\ rejected' = (running # Nothing /\ ~IsCurrent(running))
  BY DEF Stale
<1>2. Resting
  BY <1>1, EditorRests
<1>3. LiveTypeOK'
  BY <1>1 DEF LiveIInv, LiveTypeOK, editor, results
<1>4. Waiting' /\ Checked'
  BY <1>1, <1>2 DEF LiveIInv, Resting, Waiting, Checked, results
<1>5. ASSUME NEW d \in Docs PROVE ShownOk(d)' /\ FailedOk(d)' /\ InOrder(d)'
  BY <1>1, <1>2 DEF LiveIInv, Resting, ShownOk, FailedOk, InOrder, results
<1>6. ASSUME NEW d \in Docs PROVE NotForgotten(d)'
  <2>1. Open(d) => IsCurrent(Request(d))
    BY PresentIsMine DEF LiveIInv
  <2>2. NotForgotten(d)
    BY DEF LiveIInv
  <2> QED
    BY <1>1, <1>2, <2>1, <2>2 DEF Resting, NotForgotten, Underway, results
<1> QED
  BY <1>2, <1>3, <1>4, <1>5, <1>6 DEF LiveIInv, Resting

\* What next() does to a queue q that is as good as the present one: what
\* waits or runs is right, and the present request of a document is still
\* waiting or runs.
LEMMA NextStep ==
  ASSUME LiveIInv,
         NEW q \in Seq(Requests), Distinct(q), \A i \in 1 .. Len(q) : Mine(q[i]),
         NEW r \in Optional, r # Nothing => Mine(r), Advance(q, r)
  PROVE  /\ queue' \in Seq(Requests) /\ Distinct(queue') /\ running' \in Optional
         /\ \A i \in 1 .. Len(queue') : Mine(queue'[i]) /\ \E j \in 1 .. Len(q) : queue'[i] = q[j]
         /\ running' # Nothing => Mine(running')
         /\ r # Nothing => running' = r
         /\ r = Nothing /\ running' # Nothing => running' = Request(running'.doc)
         /\ \A d \in Docs : Open(d) /\ (\E j \in 1 .. Len(q) : q[j] = Request(d)) =>
              running' = Request(d) \/ \E i \in 1 .. Len(queue') : queue'[i] = Request(d)
<1>1. /\ queue' \in Seq(Requests) /\ Distinct(queue') /\ running' \in Optional
      /\ \A i \in 1 .. Len(queue') : \E j \in 1 .. Len(q) : queue'[i] = q[j]
      /\ r # Nothing => running' = r
      /\ r = Nothing /\ running' # Nothing =>
           IsCurrent(running') /\ \E j \in 1 .. Len(q) : running' = q[j]
      /\ \A j \in 1 .. Len(q) : IsCurrent(q[j]) =>
           running' = q[j] \/ \E i \in 1 .. Len(queue') : queue'[i] = q[j]
  BY AdvanceStep
<1>2. LiveTypeOK
  BY DEF LiveIInv
<1>3. \A i \in 1 .. Len(queue') : Mine(queue'[i])
  BY <1>1
<1>4. running' # Nothing => Mine(running')
  BY <1>1
<1>5. ASSUME r = Nothing, running' # Nothing PROVE running' = Request(running'.doc)
  <2>1. IsCurrent(running') /\ Mine(running') /\ running' \in Requests
    BY <1>1, <1>4, <1>5 DEF Optional
  <2>2. \A s \in Requests : Mine(s) /\ IsCurrent(s) => s = Request(s.doc)
    BY <1>2, CurrentIsPresent
  <2> QED
    BY <2>1, <2>2
<1>6. ASSUME NEW d \in Docs, Open(d), NEW j \in 1 .. Len(q), q[j] = Request(d)
      PROVE  running' = Request(d) \/ \E i \in 1 .. Len(queue') : queue'[i] = Request(d)
  <2>1. IsCurrent(q[j])
    BY <1>2, <1>6, PresentIsMine
  <2> QED
    BY <1>1, <1>6, <2>1
<1> QED
  BY <1>1, <1>3, <1>4, <1>5, <1>6

\* The pause is over: the document's request waits for the worker, and what it
\* replaces was older.
LEMMA PauseStep ==
  ASSUME LiveIInv, ~rejected, NEW d \in Docs, Pause(d)
  PROVE  LiveIInv'
<1> DEFINE q == Enqueued(queue, timer[d])
<1>1. /\ timer[d] # Nothing /\ timer' = [timer EXCEPT ![d] = Nothing]
      /\ Advance(q, running)
      /\ UNCHANGED <<editor, fetching, rejected, armed, results>>
  BY DEF Pause
<1>2. Resting
  BY <1>1, EditorRests
<1>3. LiveTypeOK /\ Waiting
  BY DEF LiveIInv
<1>4. /\ timer[d] \in Requests /\ timer[d].doc = d /\ Mine(timer[d])
      /\ Distinct(queue) /\ queue \in Seq(Requests)
      /\ \A i \in 1 .. Len(queue) : Mine(queue[i])
  BY <1>1, Places
<1>5. /\ q \in Seq(Requests) /\ Distinct(q)
      /\ \E i \in 1 .. Len(q) : q[i] = timer[d]
      /\ \A i \in 1 .. Len(q) : q[i] = timer[d] \/ \E j \in 1 .. Len(queue) : q[i] = queue[j] /\ queue[j].doc # d
      /\ \A j \in 1 .. Len(queue) : queue[j].doc # d => \E i \in 1 .. Len(q) : q[i] = queue[j]
  <2> DEFINE r == timer[d]
  <2>1. r \in Requests /\ r.doc = d /\ q = Enqueued(queue, r)
    BY <1>4
  <2> HIDE DEF q, r
  <2>2. /\ Enqueued(queue, r) \in Seq(Requests) /\ Distinct(Enqueued(queue, r))
        /\ \E i \in 1 .. Len(Enqueued(queue, r)) : Enqueued(queue, r)[i] = r
        /\ \A i \in 1 .. Len(Enqueued(queue, r)) :
             \/ Enqueued(queue, r)[i] = r
             \/ \E j \in 1 .. Len(queue) : Enqueued(queue, r)[i] = queue[j] /\ queue[j].doc # r.doc
        /\ \A j \in 1 .. Len(queue) : queue[j].doc # r.doc =>
             \E i \in 1 .. Len(Enqueued(queue, r)) : Enqueued(queue, r)[i] = queue[j]
    BY <1>4, <2>1, EnqueuedProperties
  <2> QED
    BY <2>1, <2>2 DEF r
<1> HIDE DEF q
<1>6. \A i \in 1 .. Len(q) : Mine(q[i])
  BY <1>4, <1>5
<1>7. running \in Optional /\ (running # Nothing => Mine(running))
  BY <1>3 DEF LiveTypeOK, Waiting
<1>8. /\ queue' \in Seq(Requests) /\ Distinct(queue') /\ running' \in Optional
      /\ \A i \in 1 .. Len(queue') : Mine(queue'[i]) /\ \E j \in 1 .. Len(q) : queue'[i] = q[j]
      /\ running' # Nothing => Mine(running')
      /\ running # Nothing => running' = running
      /\ running = Nothing /\ running' # Nothing => running' = Request(running'.doc)
      /\ \A e \in Docs : Open(e) /\ (\E j \in 1 .. Len(q) : q[j] = Request(e)) =>
           running' = Request(e) \/ \E i \in 1 .. Len(queue') : queue'[i] = Request(e)
  BY <1>1, <1>5, <1>6, <1>7, NextStep
<1>9. timer' \in [Docs -> Optional] /\ \A e \in Docs : timer'[e] = IF e = d THEN Nothing ELSE timer[e]
  BY <1>1, <1>3 DEF LiveTypeOK, Optional
<1>10. LiveTypeOK'
  BY <1>1, <1>3, <1>8, <1>9 DEF LiveTypeOK, Distinct, editor, results
<1>11. Waiting' /\ Checked'
  BY <1>1, <1>2, <1>3, <1>8, <1>9 DEF LiveIInv, Resting, Waiting, Checked, results
<1>12. ASSUME NEW e \in Docs PROVE ShownOk(e)' /\ FailedOk(e)'
  BY <1>1, <1>2, <1>12 DEF LiveIInv, Resting, ShownOk, FailedOk, results
<1>13. ASSUME NEW e \in Docs PROVE InOrder(e)' /\ NotForgotten(e)'
  <2>1. InOrder(e) /\ NotForgotten(e)
    BY DEF LiveIInv
  <2>2. Request(e).doc = e /\ Request(e) # Nothing
    BY <1>3, RequestIsTyped
  <2>3. ASSUME NEW i \in 1 .. Len(queue'), queue'[i] = Request(e), timer'[e] # Nothing
        PROVE  timer'[e] = Request(e)
    <3>1. e # d /\ timer'[e] = timer[e]
      BY <1>9, <2>3
    <3>2. \E j \in 1 .. Len(queue) : queue[j] = Request(e)
      BY <1>4, <1>5, <1>8, <2>2, <2>3, <3>1
    <3> QED
      BY <2>1, <2>3, <3>1, <3>2 DEF InOrder
  <2>4. InOrder(e)'
    BY <1>1, <1>2, <1>8, <2>1, <2>3 DEF Resting, InOrder, results
  <2>5. ASSUME \E i \in 1 .. Len(queue) : queue[i] = Request(e)
        PROVE  \E j \in 1 .. Len(q) : q[j] = Request(e)
    BY <1>1, <1>5, <2>1, <2>2, <2>5 DEF InOrder
  <2>6. ASSUME timer[e] = Request(e)
        PROVE  timer'[e] = Request(e) \/ \E j \in 1 .. Len(q) : q[j] = Request(e)
    BY <1>5, <1>9, <2>6
  <2>7. running = Request(e) => running' = Request(e)
    BY <1>8, <2>2
  <2>8. Open(e) /\ Underway(e) => Underway(e)'
    BY <1>1, <1>2, <1>8, <2>5, <2>6, <2>7 DEF Resting, Underway, results
  <2> QED
    BY <1>1, <1>2, <2>1, <2>4, <2>8 DEF Resting, NotForgotten, results
<1> QED
  BY <1>2, <1>10, <1>11, <1>12, <1>13 DEF LiveIInv, Resting

\* The worker is free again: with a result that is looked at once more, with a
\* failure that is remembered, or after a run for a text that is gone.
LEMMA EndedStep ==
  ASSUME LiveIInv, Compiled \/ Fails \/ Abandoned
  PROVE  LiveIInv'
<1>1. /\ running # Nothing /\ Advance(queue, Nothing)
      /\ rejected' = FALSE /\ armed' = FALSE
      /\ UNCHANGED <<editor, fetching, timer, manual, shown>>
  BY DEF Compiled, Fails, Abandoned, Ended
<1>2. Resting
  BY <1>1, EditorRests
<1>3. LiveTypeOK /\ Waiting
  BY DEF LiveIInv
<1>4. /\ Distinct(queue) /\ queue \in Seq(Requests) /\ \A i \in 1 .. Len(queue) : Mine(queue[i])
      /\ running \in Requests /\ running.doc \in Docs
  BY <1>1, Places
<1>5. /\ queue' \in Seq(Requests) /\ Distinct(queue') /\ running' \in Optional
      /\ \A i \in 1 .. Len(queue') : Mine(queue'[i]) /\ \E j \in 1 .. Len(queue) : queue'[i] = queue[j]
      /\ running' # Nothing => Mine(running')
      /\ running' # Nothing => running' = Request(running'.doc)
      /\ \A e \in Docs : Open(e) /\ (\E j \in 1 .. Len(queue) : queue[j] = Request(e)) =>
           running' = Request(e) \/ \E i \in 1 .. Len(queue') : queue'[i] = Request(e)
  <2>1. Nothing \in Optional
    BY DEF Optional
  <2> QED
    BY <1>1, <1>4, <2>1, NextStep
<1>6. \A d \in Docs : Open(d) => IsCurrent(Request(d))
  BY <1>3, PresentIsMine
<1>7. ~rejected => Mine(running)
  BY <1>1, <1>3 DEF Waiting
<1> DEFINE result == [of |-> Request(running.doc), from |-> running, live |-> TRUE]
<1>8. \/ /\ ~rejected /\ IsCurrent(running) /\ on
         /\ showing' = showing \cup {result} /\ failed' = failed
      \/ ~rejected /\ ~(IsCurrent(running) /\ on) /\ showing' = showing /\ failed' = failed
      \/ ~rejected /\ showing' = showing /\ failed' = [failed EXCEPT ![running.doc] = running]
      \/ rejected /\ showing' = showing /\ failed' = failed
  BY DEF Compiled, Fails, Abandoned, Ended
<1>9. ~rejected /\ IsCurrent(running) => running = Request(running.doc)
  BY <1>3, <1>4, <1>7, CurrentIsPresent
<1>10. Request(running.doc) \in Requests
  BY <1>3, <1>4, RequestIsTyped
<1>11. LiveTypeOK'
  <2>1. showing' \subseteq [of : Requests, from : Requests, live : BOOLEAN]
    <3>1. result \in [of : Requests, from : Requests, live : BOOLEAN]
      BY <1>4, <1>10
    <3> QED
      BY <1>3, <1>8, <3>1 DEF LiveTypeOK
  <2>2. failed' \in [Docs -> Optional]
    BY <1>3, <1>4, <1>8 DEF LiveTypeOK, Optional
  <2>3. queue' \in Seq(Requests) /\ Distinct(queue') /\ running' \in Optional
    BY <1>5
  <2> QED
    BY <1>1, <1>3, <2>1, <2>2, <2>3 DEF LiveTypeOK, Distinct, editor
<1>12. Waiting'
  BY <1>1, <1>2, <1>3, <1>5 DEF Resting, Waiting
<1>13. Checked'
  BY <1>8, <1>9 DEF LiveIInv, Checked
<1>14. \A d \in Docs : failed'[d] = failed[d] \/ (~rejected /\ d = running.doc /\ failed'[d] = running)
  BY <1>3, <1>8 DEF LiveTypeOK
<1>15. ASSUME NEW d \in Docs PROVE ShownOk(d)' /\ FailedOk(d)'
  BY <1>1, <1>2, <1>7, <1>14, MineIsPast DEF LiveIInv, Resting, ShownOk, FailedOk
<1>16. ASSUME NEW d \in Docs PROVE InOrder(d)'
  BY <1>1, <1>2, <1>5 DEF LiveIInv, Resting, InOrder
<1>17. ASSUME NEW d \in Docs PROVE NotForgotten(d)'
  <2>1. NotForgotten(d) /\ InOrder(d)
    BY DEF LiveIInv
  <2>2. ASSUME Open(d), on, running = Request(d), ~rejected
        PROVE  failed'[d] = Request(d) \/ \E s \in showing' : s.live /\ s.of = Request(d)
    <3>1. IsCurrent(running) /\ running.doc = d
      BY <1>3, <1>6, <2>2, RequestIsTyped
    <3>2. CASE showing' = showing \cup {result}
      <4>1. result \in showing' /\ result.live /\ result.of = Request(d)
        BY <3>1, <3>2
      <4> QED
        BY <4>1
    <3>3. CASE failed' = [failed EXCEPT ![running.doc] = running]
      BY <1>3, <2>2, <3>1, <3>3 DEF LiveTypeOK
    <3> QED
      BY <1>8, <2>2, <3>1, <3>2, <3>3
  <2>3. ASSUME Open(d), failed[d] = Request(d) PROVE failed'[d] = Request(d)
    BY <1>1, <1>14, <2>1, <2>3 DEF InOrder
  <2>4. \A s \in showing : s \in showing'
    BY <1>8
  <2>5. Open(d) /\ on /\ Underway(d) => failed'[d] = Request(d) \/ Underway(d)'
    BY <1>1, <1>2, <1>5, <2>2, <2>4 DEF Resting, Underway
  <2> QED
    BY <1>1, <1>2, <2>1, <2>3, <2>5 DEF Resting, NotForgotten
<1> QED
  BY <1>2, <1>11, <1>12, <1>13, <1>15, <1>16, <1>17 DEF LiveIInv, Resting

\* The connection has answered: the present text's request waits for the pause,
\* in the place of an older one.
LEMMA FetchedStep ==
  ASSUME LiveIInv, ~rejected, NEW f \in fetching, Fetched(f)
  PROVE  LiveIInv'
<1>1. /\ f.live /\ fetching' = fetching \ {f}
      /\ UNCHANGED <<editor, queue, running, rejected, results>>
  BY DEF Fetched
<1>2. Resting
  BY <1>1, EditorRests
<1>3. LiveTypeOK /\ Waiting
  BY DEF LiveIInv
<1>4. f.of \in Requests /\ f.of.doc \in Docs
  BY <1>3 DEF LiveTypeOK, Requests
<1>5. \/ on /\ Current(f.of) /\ timer' = [timer EXCEPT ![f.of.doc] = f.of]
      \/ ~(on /\ Current(f.of)) /\ timer' = timer
  BY DEF Fetched, Schedule
<1>6. armed' \in BOOLEAN
  BY <1>3 DEF Fetched, Schedule, LiveTypeOK
<1>7. /\ timer' \in [Docs -> Optional]
      /\ \A d \in Docs : \/ timer'[d] = timer[d] /\ ~(on /\ Current(f.of) /\ f.of.doc = d)
                         \/ timer'[d] = f.of /\ on /\ Current(f.of) /\ f.of.doc = d
  BY <1>3, <1>4, <1>5 DEF LiveTypeOK, Optional
<1>8. Current(f.of) => Mine(f.of) /\ f.of = Request(f.of.doc)
  BY <1>3, <1>4, PresentIsMine DEF Current
<1>9. LiveTypeOK'
  BY <1>1, <1>3, <1>6, <1>7 DEF LiveTypeOK, editor, results
<1>10. Waiting' /\ Checked'
  BY <1>1, <1>2, <1>3, <1>7, <1>8 DEF LiveIInv, Resting, Waiting, Checked, results
<1>11. ASSUME NEW d \in Docs PROVE ShownOk(d)' /\ FailedOk(d)' /\ InOrder(d)'
  <2>1. ShownOk(d) /\ FailedOk(d) /\ InOrder(d)
    BY DEF LiveIInv
  <2>2. ShownOk(d)' /\ FailedOk(d)'
    BY <1>1, <1>2, <2>1 DEF Resting, ShownOk, FailedOk, results
  <2>3. timer'[d] = timer[d] \/ timer'[d] = Request(d)
    BY <1>7, <1>8
  <2>4. InOrder(d)'
    BY <1>1, <1>2, <2>1, <2>3 DEF Resting, InOrder, results
  <2> QED
    BY <2>2, <2>4
<1>12. ASSUME NEW d \in Docs PROVE NotForgotten(d)'
  <2>1. NotForgotten(d)
    BY DEF LiveIInv
  <2>2. timer[d] = Request(d) => timer'[d] = Request(d)
    BY <1>7, <1>8
  <2>3. ASSUME Open(d), on, [of |-> Request(d), live |-> TRUE] \in fetching
        PROVE  [of |-> Request(d), live |-> TRUE] \in fetching' \/ timer'[d] = Request(d)
    <3>1. CASE f = [of |-> Request(d), live |-> TRUE]
      <4>1. f.of = Request(d) /\ Current(f.of) /\ f.of.doc = d
        BY <1>3, <2>3, <3>1, PresentIsMine, RequestIsTyped
      <4> QED
        BY <1>7, <2>3, <4>1
    <3>2. CASE f # [of |-> Request(d), live |-> TRUE]
      BY <1>1, <2>3, <3>2
    <3> QED
      BY <3>1, <3>2
  <2>4. Open(d) /\ on /\ Underway(d) => Underway(d)'
    BY <1>1, <1>2, <2>2, <2>3 DEF Resting, Underway, results
  <2> QED
    BY <1>1, <1>2, <2>1, <2>4 DEF Resting, NotForgotten, results
<1> QED
  BY <1>2, <1>9, <1>10, <1>11, <1>12 DEF LiveIInv, Resting

\* What the developer asks for by hand takes no part in the chain.
LEMMA ManualStep ==
  ASSUME LiveIInv,
         \/ \E d \in Docs : AskManually(d)
         \/ \E f \in fetching : FetchedManually(f)
         \/ CompiledManually
  PROVE  LiveIInv'
<1>1. /\ UNCHANGED <<text, epoch, on, validator, shown, failed>>
      /\ UNCHANGED editor \/ (Counted /\ UNCHANGED <<text, epoch, on>>)
  BY DEF AskManually, FetchedManually, CompiledManually, editor, results
<1>2. Resting
  BY <1>1, EditorRests
<1>3. LiveTypeOK
  BY DEF LiveIInv
<1>4. /\ fetching' \subseteq [of : Requests, live : BOOLEAN]
      /\ \A d \in Docs : [of |-> Request(d), live |-> TRUE] \in fetching =>
           [of |-> Request(d), live |-> TRUE] \in fetching'
  <2>1. CASE \E d \in Docs : AskManually(d)
    <3>1. PICK d \in Docs : fetching' = fetching \cup {[of |-> Request(d), live |-> FALSE]}
      BY <2>1 DEF AskManually
    <3>2. [of |-> Request(d), live |-> FALSE] \in [of : Requests, live : BOOLEAN]
      BY <1>3, RequestIsTyped
    <3> QED
      BY <1>3, <3>1, <3>2 DEF LiveTypeOK
  <2>2. CASE \E f \in fetching : FetchedManually(f)
    <3>1. PICK f \in fetching : ~f.live /\ fetching' = fetching \ {f}
      BY <2>2 DEF FetchedManually
    <3>2. \A d : f # [of |-> Request(d), live |-> TRUE]
      BY <3>1
    <3> QED
      BY <1>3, <3>1, <3>2 DEF LiveTypeOK
  <2>3. CASE CompiledManually
    BY <1>3, <2>3 DEF LiveTypeOK, CompiledManually
  <2> QED
    BY <2>1, <2>2, <2>3
<1>5. /\ showing' \subseteq [of : Requests, from : Requests, live : BOOLEAN]
      /\ showing \subseteq showing'
      /\ \A s \in showing' : s \in showing \/ s.from = s.of
  <2>1. CASE showing' = showing
    BY <1>3, <2>1 DEF LiveTypeOK
  <2>2. CASE manual # Nothing /\ showing' = showing \cup {[of |-> manual, from |-> manual, live |-> FALSE]}
    <3>1. manual \in Requests
      BY <1>3, <2>2 DEF LiveTypeOK, Optional
    <3> DEFINE result == [of |-> manual, from |-> manual, live |-> FALSE]
    <3>2. result \in [of : Requests, from : Requests, live : BOOLEAN] /\ result.from = result.of
      BY <3>1
    <3>3. showing \subseteq [of : Requests, from : Requests, live : BOOLEAN]
      BY <1>3 DEF LiveTypeOK
    <3>4. showing' = showing \cup {result}
      BY <2>2
    <3> HIDE DEF result
    <3> QED
      BY <3>2, <3>3, <3>4
  <2> QED
    BY <2>1, <2>2 DEF AskManually, FetchedManually, CompiledManually, results
<1>6. manual' \in Optional
  <2>1. \A f \in fetching : f.of \in Requests
    BY <1>3 DEF LiveTypeOK
  <2> QED
    BY <1>3, <2>1 DEF LiveTypeOK, Optional, AskManually, FetchedManually, CompiledManually, results
<1>7. changes' \in 0 .. MaxChanges
  BY <1>1, <1>3, ChangesAssumption DEF LiveTypeOK, Counted, editor
<1>8. LiveTypeOK'
  BY <1>1, <1>3, <1>4, <1>5, <1>6, <1>7 DEF LiveTypeOK, validator
<1>9. Waiting' /\ Checked'
  BY <1>1, <1>2, <1>5 DEF LiveIInv, Resting, Waiting, Checked, validator
<1>10. ASSUME NEW d \in Docs PROVE ShownOk(d)' /\ FailedOk(d)' /\ InOrder(d)'
  BY <1>1, <1>2 DEF LiveIInv, Resting, ShownOk, FailedOk, InOrder, validator
<1>11. ASSUME NEW d \in Docs PROVE NotForgotten(d)'
  BY <1>1, <1>2, <1>4, <1>5 DEF LiveIInv, Resting, NotForgotten, Underway, validator
<1> QED
  BY <1>2, <1>8, <1>9, <1>10, <1>11 DEF LiveIInv, Resting

\* Showing a result looks once more whether it is current; one for the present
\* text is shown.
LEMMA ShowResultsStep ==
  ASSUME LiveIInv, NEW s \in showing, ShowResults(s)
  PROVE  LiveIInv'
<1>1. /\ showing' = showing \ {s}
      /\ UNCHANGED <<editor, fetching, validator, manual, failed>>
      /\ shown' = IF Current(s.of) /\ (s.live => on) THEN [shown EXCEPT ![s.of.doc] = s.from] ELSE shown
  BY DEF ShowResults
<1>2. Resting
  BY <1>1, EditorRests
<1>3. LiveTypeOK
  BY DEF LiveIInv
<1>4. s.of \in Requests /\ s.of.doc \in Docs /\ s.of # Nothing /\ s.from = s.of
  <2>1. s.of \in Requests
    BY <1>3 DEF LiveTypeOK
  <2> QED
    BY <2>1, RequestsAreSomething DEF LiveIInv, Checked, Requests
<1>5. /\ shown' \in [Docs -> Optional]
      /\ \A d \in Docs : \/ shown'[d] = shown[d] /\ ~(Current(s.of) /\ (s.live => on) /\ s.of.doc = d)
                         \/ shown'[d] = s.of /\ Current(s.of) /\ s.of.doc = d
  BY <1>1, <1>3, <1>4 DEF LiveTypeOK, Optional
<1>6. LiveTypeOK'
  BY <1>1, <1>3, <1>5 DEF LiveTypeOK, editor, validator
<1>7. Waiting' /\ Checked'
  BY <1>1, <1>2 DEF LiveIInv, Resting, Waiting, Checked, validator
<1>8. ASSUME NEW d \in Docs PROVE ShownOk(d)' /\ FailedOk(d)' /\ InOrder(d)'
  BY <1>1, <1>2, <1>5 DEF LiveIInv, Resting, ShownOk, FailedOk, InOrder, validator
<1>9. ASSUME NEW d \in Docs PROVE NotForgotten(d)'
  <2>1. NotForgotten(d)
    BY DEF LiveIInv
  <2>2. shown[d] # Nothing => shown'[d] # Nothing
    BY <1>4, <1>5
  <2>3. ASSUME Open(d), on, NEW t \in showing, t.live, t.of = Request(d)
        PROVE  shown'[d] # Nothing \/ \E u \in showing' : u.live /\ u.of = Request(d)
    <3>1. CASE t = s
      <4>1. Current(s.of) /\ s.of.doc = d
        BY <1>3, <2>3, <3>1, PresentIsMine, RequestIsTyped
      <4> QED
        BY <1>4, <1>5, <2>3, <3>1, <4>1
    <3>2. CASE t # s
      BY <1>1, <2>3, <3>2
    <3> QED
      BY <3>1, <3>2
  <2>4. Open(d) /\ on /\ Underway(d) => shown'[d] # Nothing \/ Underway(d)'
    BY <1>1, <1>2, <2>3 DEF Resting, Underway, validator
  <2> QED
    BY <1>1, <1>2, <2>1, <2>2, <2>4 DEF Resting, NotForgotten
<1> QED
  BY <1>2, <1>6, <1>7, <1>8, <1>9 DEF LiveIInv, Resting

\* An event of one document leaves the others' requests what they are.
Elsewhere(d) ==
  /\ \A e \in Docs : e # d => Request(e)' = Request(e) /\ (Open(e)' <=> Open(e))
  /\ \A r : r.doc \in Docs /\ r.doc # d =>
       /\ Mine(r)' <=> Mine(r)
       /\ Past(r)' <=> Past(r)
       /\ IsCurrent(r)' <=> IsCurrent(r)
       /\ Current(r)' <=> Current(r)

LEMMA OtherDocuments ==
  ASSUME NEW d \in Docs, \A e \in Docs : e # d => text'[e] = text[e], epoch' = epoch
  PROVE  Elsewhere(d)
  BY DEF Elsewhere, Request, Open, Mine, Past, IsCurrent, Current

\* Types and numbers after an event of the editor that fetches for some documents.
EditorTypes ==
  /\ text \in [Docs -> [version : 0 .. MaxChanges, life : 0 .. MaxChanges]]
  /\ epoch \in 0 .. MaxChanges /\ on \in BOOLEAN /\ changes \in 0 .. MaxChanges

LEMMA FetchTypes ==
  ASSUME LiveIInv, EditorTypes', NEW docs \in SUBSET Docs, Fetch(docs)
  PROVE  /\ fetching' \subseteq [of : Requests, live : BOOLEAN]
         /\ fetching \subseteq fetching'
         /\ \A d \in docs : on' /\ Open(d)' => [of |-> Request(d)', live |-> TRUE] \in fetching'
<1>1. \A d \in Docs : Request(d)' \in Requests
  BY DEF EditorTypes, Request, Requests
<1>2. \A d \in Docs : [of |-> Request(d)', live |-> TRUE] \in [of : Requests, live : BOOLEAN]
  BY <1>1
<1>3. fetching \subseteq [of : Requests, live : BOOLEAN]
  BY DEF LiveIInv, LiveTypeOK
<1>4. fetching' = fetching \cup {[of |-> Request(d)', live |-> TRUE] : d \in {e \in docs : on' /\ Open(e)'}}
  BY DEF Fetch
<1> QED
  BY <1>2, <1>3, <1>4

\* The numbers of a document grow with the number of changes.
LEMMA TextTypes ==
  ASSUME LiveIInv, NEW d \in Docs, Counted, UNCHANGED <<epoch, on>>,
         NEW v, NEW l, text' = [text EXCEPT ![d] = [version |-> v, life |-> l]],
         v \in {0, 1, text[d].version + 1}, l \in {text[d].life, text[d].life + 1}
  PROVE  /\ EditorTypes' /\ Counts'
         /\ text'[d] = [version |-> v, life |-> l] /\ \A e \in Docs : e # d => text'[e] = text[e]
<1>1. /\ text \in [Docs -> [version : 0 .. MaxChanges, life : 0 .. MaxChanges]]
      /\ epoch \in 0 .. MaxChanges /\ on \in BOOLEAN /\ changes \in 0 .. MaxChanges
      /\ Counts
  BY DEF LiveIInv, LiveTypeOK
<1>2. changes' = changes + 1 /\ changes < MaxChanges /\ MaxChanges \in Nat
  BY ChangesAssumption DEF Counted
<1>3. \A e \in Docs : text[e].version \in Nat /\ text[e].life \in Nat
  BY <1>1, <1>2
<1>4. /\ v \in Nat /\ v <= changes' /\ l \in Nat /\ l <= changes' /\ changes' \in 0 .. MaxChanges
      /\ \A e \in Docs : text[e].version <= changes' /\ text[e].life <= changes'
  BY <1>1, <1>2, <1>3 DEF Counts
<1>5. text'[d] = [version |-> v, life |-> l] /\ \A e \in Docs : e # d => text'[e] = text[e]
  BY <1>1
<1>6. text' \in [Docs -> [version : 0 .. MaxChanges, life : 0 .. MaxChanges]]
  <2>1. v \in 0 .. MaxChanges /\ l \in 0 .. MaxChanges
    BY <1>2, <1>4
  <2>2. [version |-> v, life |-> l] \in [version : 0 .. MaxChanges, life : 0 .. MaxChanges]
    BY <2>1
  <2> QED
    BY <1>1, <2>2
<1>7. Counts'
  <2>1. epoch <= changes'
    BY <1>1, <1>2 DEF Counts
  <2>2. \A e \in Docs : text'[e].version <= changes' /\ text'[e].life <= changes'
    BY <1>4, <1>5
  <2> QED
    BY <2>1, <2>2 DEF Counts
<1> QED
  BY <1>1, <1>4, <1>5, <1>6, <1>7 DEF EditorTypes

\* Opening: nothing waits or is shown for a closed document, and what failed
\* was a text of an earlier one.
LEMMA OpenTextStep ==
  ASSUME LiveIInv, ~rejected, NEW d \in Docs, OpenText(d)
  PROVE  LiveIInv'
<1>1. /\ Counted /\ ~Open(d) /\ UNCHANGED <<epoch, on, validator, results>>
      /\ text' = [text EXCEPT ![d] = [version |-> 1, life |-> text[d].life + 1]]
      /\ Fetch({d})
  BY DEF OpenText
<1>2. /\ EditorTypes' /\ Counts'
      /\ text'[d] = [version |-> 1, life |-> text[d].life + 1] /\ \A e \in Docs : e # d => text'[e] = text[e]
  BY <1>1, TextTypes
<1>3. LiveTypeOK /\ Waiting
  BY DEF LiveIInv
<1>4. text[d].life \in Nat
  BY <1>3, ChangesAssumption DEF LiveTypeOK
<1>5. Elsewhere(d)
  BY <1>1, <1>2, OtherDocuments
<1>6. /\ fetching' \subseteq [of : Requests, live : BOOLEAN] /\ fetching \subseteq fetching'
      /\ on' /\ Open(d)' => [of |-> Request(d)', live |-> TRUE] \in fetching'
  BY <1>1, <1>2, FetchTypes
<1>7. LiveTypeOK'
  BY <1>1, <1>2, <1>3, <1>6 DEF LiveTypeOK, EditorTypes, validator, results
<1>8. /\ \A i \in 1 .. Len(queue) : queue[i].doc \in Docs /\ queue[i].doc # d /\ Mine(queue[i])
      /\ timer[d] = Nothing
      /\ \A e \in Docs : timer[e] # Nothing => timer[e].doc = e /\ Mine(timer[e])
      /\ running # Nothing => running.doc \in Docs /\ running.doc # d /\ Mine(running)
  <2>1. \A r : Mine(r) => r.doc # d
    BY <1>1 DEF Mine
  <2>2. \A r \in Requests : r.doc \in Docs
    BY DEF Requests
  <2> QED
    BY <1>3, <2>1, <2>2, Places DEF Waiting
<1>9. Waiting' /\ Checked'
  BY <1>1, <1>5, <1>8 DEF LiveIInv, Elsewhere, Waiting, Checked, validator, results
<1>10. ASSUME NEW e \in Docs, e # d PROVE ShownOk(e)' /\ FailedOk(e)' /\ InOrder(e)' /\ NotForgotten(e)'
  <2>1. ShownOk(e) /\ FailedOk(e) /\ InOrder(e) /\ NotForgotten(e)
    BY DEF LiveIInv
  <2>2. ShownOk(e)' /\ FailedOk(e)' /\ InOrder(e)'
    BY <1>1, <1>5, <1>10, <2>1 DEF Elsewhere, ShownOk, FailedOk, InOrder, validator, results
  <2>3. NotForgotten(e)'
    BY <1>1, <1>5, <1>6, <1>10, <2>1 DEF Elsewhere, NotForgotten, Underway, validator, results
  <2> QED
    BY <2>2, <2>3
<1>11. ShownOk(d)'
  <2>1. shown[d] = Nothing
    BY <1>1 DEF LiveIInv, ShownOk, Current
  <2> QED
    BY <1>1, <2>1 DEF ShownOk, results
<1>12. failed[d] # Nothing => failed[d].doc = d /\ failed[d].life < text'[d].life
  <2>1. failed[d] # Nothing => failed[d].doc = d /\ Past(failed[d]) /\ failed[d].life \in Nat
    BY <1>3, ChangesAssumption DEF LiveIInv, FailedOk, LiveTypeOK, Optional, Requests
  <2> QED
    BY <1>2, <1>4, <2>1 DEF Past
<1>13. FailedOk(d)' /\ InOrder(d)'
  <2>1. FailedOk(d)'
    BY <1>1, <1>12 DEF FailedOk, Past, results
  <2>2. Request(d)' # Nothing /\ Request(d)'.life = text'[d].life /\ text'[d].life \in Nat
    BY <1>2, <1>4, <1>7, RequestIsTyped, NothingAssumption, ChangesAssumption DEF Request, EditorTypes
  <2>3. failed[d] # Request(d)'
    BY <1>12, <2>2
  <2> QED
    BY <1>1, <1>8, <2>1, <2>3 DEF InOrder, validator, results
<1>14. NotForgotten(d)'
  BY <1>6 DEF NotForgotten, Underway
<1> QED
  BY <1>2, <1>7, <1>9, <1>10, <1>11, <1>13, <1>14 DEF LiveIInv

LEMMA NewVersion ==
  ASSUME LiveTypeOK, NEW d \in Docs, NEW v
  PROVE  [text EXCEPT ![d].version = v] = [text EXCEPT ![d] = [version |-> v, life |-> text[d].life]]
<1>1. text[d] \in [version : 0 .. MaxChanges, life : 0 .. MaxChanges]
  BY DEF LiveTypeOK
<1>2. [text[d] EXCEPT !.version = v] = [version |-> v, life |-> text[d].life]
  BY <1>1
<1> QED
  BY <1>2

\* Editing: what waits, runs or failed is now of an earlier text, and the new
\* one is fetched for.
LEMMA EditTextStep ==
  ASSUME LiveIInv, ~rejected, NEW d \in Docs, EditText(d)
  PROVE  LiveIInv'
<1>1. /\ Counted /\ Open(d) /\ UNCHANGED <<epoch, on, validator, showing, failed>>
      /\ text' = [text EXCEPT ![d] = [version |-> text[d].version + 1, life |-> text[d].life]]
      /\ shown' = [shown EXCEPT ![d] = Nothing]
      /\ StopManual({d}) /\ Fetch({d})
  <2>1. text' = [text EXCEPT ![d].version = text[d].version + 1]
    BY DEF EditText
  <2>2. text' = [text EXCEPT ![d] = [version |-> text[d].version + 1, life |-> text[d].life]]
    BY <2>1, NewVersion DEF LiveIInv
  <2> QED
    BY <2>2 DEF EditText
<1>2. /\ EditorTypes' /\ Counts'
      /\ text'[d] = [version |-> text[d].version + 1, life |-> text[d].life]
      /\ \A e \in Docs : e # d => text'[e] = text[e]
  BY <1>1, TextTypes
<1>3. LiveTypeOK /\ Waiting
  BY DEF LiveIInv
<1>4. text[d].version \in Nat /\ text[d].version > 0 /\ text[d].life \in Nat
  BY <1>1, <1>3, ChangesAssumption DEF LiveTypeOK, Open
<1>5. Elsewhere(d)
  BY <1>1, <1>2, OtherDocuments
<1>6. /\ fetching' \subseteq [of : Requests, live : BOOLEAN] /\ fetching \subseteq fetching'
      /\ on' /\ Open(d)' => [of |-> Request(d)', live |-> TRUE] \in fetching'
  BY <1>1, <1>2, FetchTypes
<1>7. shown' \in [Docs -> Optional] /\ manual' \in Optional
  BY <1>1, <1>3 DEF LiveTypeOK, Optional, StopManual
<1>8. LiveTypeOK'
  BY <1>1, <1>2, <1>3, <1>6, <1>7 DEF LiveTypeOK, EditorTypes, validator
<1>9. \A r \in Requests : Mine(r) => Mine(r)'
  <2> TAKE r \in Requests
  <2>1. CASE r.doc # d
    BY <1>5, <2>1 DEF Elsewhere, Requests
  <2>2. CASE r.doc = d
    <3>1. r.version \in Nat
      BY ChangesAssumption DEF Requests
    <3> QED
      BY <1>1, <1>2, <1>4, <2>2, <3>1 DEF Mine, Open
  <2> QED
    BY <2>1, <2>2
<1>10. \A r \in Requests : Mine(r) => r # Request(d)'
  <2> SUFFICES ASSUME NEW r \in Requests, Mine(r), r = Request(d)' PROVE FALSE
    OBVIOUS
  <2>1. r.doc = d /\ r.version = text[d].version + 1
    BY <1>2 DEF Request
  <2> QED
    BY <1>4, <2>1 DEF Mine
<1>11. /\ \A i \in 1 .. Len(queue) : queue[i] \in Requests /\ Mine(queue[i])
       /\ \A e \in Docs : timer[e] # Nothing => timer[e] \in Requests /\ timer[e].doc = e /\ Mine(timer[e])
       /\ running # Nothing => running \in Requests /\ Mine(running)
  BY <1>3, Places DEF Waiting
<1>12. Waiting' /\ Checked'
  BY <1>1, <1>3, <1>9, <1>11 DEF LiveIInv, Waiting, Checked, validator
<1>13. ASSUME NEW e \in Docs, e # d PROVE ShownOk(e)' /\ FailedOk(e)' /\ InOrder(e)' /\ NotForgotten(e)'
  <2>1. ShownOk(e) /\ FailedOk(e) /\ InOrder(e) /\ NotForgotten(e)
    BY DEF LiveIInv
  <2>2. shown'[e] = shown[e]
    BY <1>1, <1>3, <1>13 DEF LiveTypeOK
  <2>3. ShownOk(e)' /\ FailedOk(e)' /\ InOrder(e)'
    BY <1>1, <1>5, <1>13, <2>1, <2>2 DEF Elsewhere, ShownOk, FailedOk, InOrder, validator
  <2>4. NotForgotten(e)'
    BY <1>1, <1>5, <1>6, <1>13, <2>1, <2>2 DEF Elsewhere, NotForgotten, Underway, validator
  <2> QED
    BY <2>3, <2>4
<1>14. ShownOk(d)'
  BY <1>1, <1>3 DEF LiveTypeOK, ShownOk
<1>15. failed[d] # Nothing =>
         failed[d].doc = d /\ failed[d].life <= text[d].life /\
         (failed[d].life = text[d].life => failed[d].version <= text[d].version)
  <2>1. failed[d] # Nothing => failed[d].doc = d /\ Past(failed[d]) /\ failed[d].life \in Nat
    BY <1>3, ChangesAssumption DEF LiveIInv, FailedOk, LiveTypeOK, Optional, Requests
  <2> QED
    BY <1>1, <1>4, <2>1 DEF Past
<1>16. FailedOk(d)' /\ InOrder(d)'
  <2>1. failed[d] # Nothing => failed[d].version \in Nat /\ failed[d].life \in Nat
    BY <1>3, ChangesAssumption DEF LiveTypeOK, Optional, Requests
  <2>2. FailedOk(d)'
    BY <1>1, <1>2, <1>4, <1>15, <2>1 DEF FailedOk, Past
  <2>3. /\ Request(d)' # Nothing /\ Request(d)'.life = text[d].life
        /\ Request(d)'.version = text[d].version + 1
    BY <1>2, <1>4, ChangesAssumption, NothingAssumption DEF Request, EditorTypes
  <2>4. failed[d] # Request(d)'
    BY <1>4, <1>15, <2>3
  <2> QED
    BY <1>1, <1>10, <1>11, <2>2, <2>4 DEF InOrder, validator
<1>17. NotForgotten(d)'
  BY <1>6 DEF NotForgotten, Underway
<1> QED
  BY <1>2, <1>8, <1>12, <1>13, <1>14, <1>16, <1>17 DEF LiveIInv

\* Closing: nothing of the document waits, and a run for it is abandoned.
LEMMA CloseTextStep ==
  ASSUME LiveIInv, ~rejected, NEW d \in Docs, CloseText(d)
  PROVE  LiveIInv'
<1>1. /\ Counted /\ Open(d) /\ UNCHANGED <<epoch, on, fetching, showing, failed, running, armed>>
      /\ text' = [text EXCEPT ![d] = [version |-> 0, life |-> text[d].life]]
      /\ shown' = [shown EXCEPT ![d] = Nothing]
      /\ timer' = [e \in Docs |-> IF e \in {d} THEN Nothing ELSE timer[e]]
      /\ queue' = Without(queue, d)
      /\ rejected' \in BOOLEAN /\ (rejected' <=> running # Nothing /\ running.doc = d)
      /\ StopManual({d})
  <2>1. text' = [text EXCEPT ![d].version = 0]
    BY DEF CloseText
  <2>2. text' = [text EXCEPT ![d] = [version |-> 0, life |-> text[d].life]]
    BY <2>1, NewVersion DEF LiveIInv
  <2>3. rejected' = (rejected \/ (running # Nothing /\ running.doc \in {d}))
    BY DEF CloseText, Cancel
  <2> QED
    BY <2>2, <2>3 DEF CloseText, Cancel
<1>2. /\ EditorTypes' /\ Counts'
      /\ text'[d] = [version |-> 0, life |-> text[d].life]
      /\ \A e \in Docs : e # d => text'[e] = text[e]
  BY <1>1, TextTypes
<1>3. LiveTypeOK /\ Waiting
  BY DEF LiveIInv
<1>4. ~Open(d)'
  BY <1>2 DEF Open
<1>5. Elsewhere(d)
  BY <1>1, <1>2, OtherDocuments
<1>6. /\ Distinct(queue) /\ queue \in Seq(Requests)
      /\ \A i \in 1 .. Len(queue) : queue[i].doc \in Docs /\ Mine(queue[i])
      /\ \A e \in Docs : timer[e] # Nothing => timer[e].doc = e /\ Mine(timer[e])
      /\ running # Nothing => running.doc \in Docs /\ Mine(running)
  <2>1. \A r \in Requests : r.doc \in Docs
    BY DEF Requests
  <2> QED
    BY <1>3, <2>1, Places DEF Waiting
<1>7. /\ queue' \in Seq(Requests) /\ Distinct(queue')
      /\ \A i \in 1 .. Len(queue') : \E j \in 1 .. Len(queue) : queue'[i] = queue[j] /\ queue[j].doc # d
      /\ \A j \in 1 .. Len(queue) : queue[j].doc # d => \E i \in 1 .. Len(queue') : queue'[i] = queue[j]
  <2>1. /\ Without(queue, d) \in Seq(Requests) /\ Distinct(Without(queue, d))
        /\ \A i \in 1 .. Len(Without(queue, d)) :
             \E j \in 1 .. Len(queue) : Without(queue, d)[i] = queue[j] /\ queue[j].doc # d
        /\ \A j \in 1 .. Len(queue) : queue[j].doc # d =>
             \E i \in 1 .. Len(Without(queue, d)) : Without(queue, d)[i] = queue[j]
    BY <1>6, WithoutProperties
  <2> QED
    BY <1>1, <2>1
<1>8. /\ timer' \in [Docs -> Optional] /\ timer'[d] = Nothing
      /\ \A e \in Docs : e # d => timer'[e] = timer[e] /\ shown'[e] = shown[e]
      /\ shown' \in [Docs -> Optional] /\ manual' \in Optional
  BY <1>1, <1>3 DEF LiveTypeOK, Optional, StopManual
<1>9. LiveTypeOK'
  BY <1>1, <1>2, <1>3, <1>7, <1>8 DEF LiveTypeOK, EditorTypes, Distinct
<1>10. Waiting'
  <2>1. ASSUME NEW e \in Docs, timer'[e] # Nothing PROVE Mine(timer[e])'
    <3>1. e # d /\ timer'[e] = timer[e]
      BY <1>8, <2>1
    <3> DEFINE r == timer[e]
    <3>2. r.doc \in Docs /\ r.doc # d /\ Mine(r)
      BY <1>6, <2>1, <3>1
    <3> QED
      BY <1>5, <3>1, <3>2 DEF Elsewhere, Mine, Open
  <2>2. ASSUME NEW i \in 1 .. Len(queue') PROVE Mine(queue[i])'
    <3>1. PICK j \in 1 .. Len(queue) : queue'[i] = queue[j] /\ queue[j].doc # d
      BY <1>7
    <3> QED
      BY <1>1, <1>2, <1>6, <3>1 DEF Mine, Open
  <2>3. rejected' => running' # Nothing /\ ~IsCurrent(running)'
    BY <1>1, <1>4 DEF IsCurrent
  <2>4. running' # Nothing /\ ~rejected' => Mine(running)'
    BY <1>1, <1>5, <1>6 DEF Elsewhere
  <2> QED
    BY <2>1, <2>2, <2>3, <2>4 DEF Waiting
<1>11. Checked'
  BY <1>1 DEF LiveIInv, Checked
<1>12. ASSUME NEW e \in Docs, e # d PROVE ShownOk(e)' /\ FailedOk(e)' /\ InOrder(e)' /\ NotForgotten(e)'
  <2>1. ShownOk(e) /\ FailedOk(e) /\ InOrder(e) /\ NotForgotten(e)
    BY DEF LiveIInv
  <2>2. ShownOk(e)' /\ FailedOk(e)'
    BY <1>1, <1>5, <1>8, <1>12, <2>1 DEF Elsewhere, ShownOk, FailedOk
  <2>3. InOrder(e)'
    BY <1>1, <1>5, <1>7, <1>8, <1>12, <2>1 DEF Elsewhere, InOrder
  <2>4. Request(e).doc = e
    BY DEF Request
  <2>5. Request(e)' = Request(e)
    BY <1>5, <1>12 DEF Elsewhere
  <2>6. ASSUME NEW j \in 1 .. Len(queue), queue[j] = Request(e)
        PROVE  \E i \in 1 .. Len(queue') : queue'[i] = Request(e)
    BY <1>7, <1>12, <2>4, <2>6
  <2>7. running = Request(e) => running' = Request(e) /\ ~rejected'
    BY <1>1, <1>12, <2>4
  <2>8. Underway(e) => Underway(e)'
    BY <1>1, <1>8, <1>12, <2>5, <2>6, <2>7 DEF Underway
  <2>9. NotForgotten(e)'
    BY <1>1, <1>5, <1>8, <1>12, <2>1, <2>8 DEF Elsewhere, NotForgotten
  <2> QED
    BY <2>2, <2>3, <2>9
<1>13. ShownOk(d)' /\ InOrder(d)' /\ NotForgotten(d)'
  BY <1>1, <1>3, <1>4, <1>8 DEF LiveTypeOK, ShownOk, InOrder, NotForgotten
<1>14. FailedOk(d)'
  <2>1. failed[d] # Nothing => failed[d].doc = d /\ Past(failed[d])
    BY DEF LiveIInv, FailedOk
  <2> QED
    BY <1>1, <1>2, <1>4, <2>1 DEF FailedOk, Past
<1> QED
  BY <1>2, <1>9, <1>10, <1>11, <1>12, <1>13, <1>14 DEF LiveIInv

\* A change of connections or settings: everything is fetched for again.
LEMMA InvalidateStep ==
  ASSUME LiveIInv, ~rejected, Invalidate
  PROVE  LiveIInv'
<1>1. /\ Counted /\ epoch' = epoch + 1 /\ on' \in BOOLEAN
      /\ UNCHANGED <<text, showing, failed, running, armed>>
      /\ timer' = [e \in Docs |-> IF e \in {d \in Docs : Open(d)} THEN Nothing ELSE timer[e]]
      /\ queue' = <<>>
      /\ rejected' \in BOOLEAN /\ (rejected' <=> running # Nothing /\ running.doc \in {d \in Docs : Open(d)})
      /\ shown' = [d \in Docs |-> Nothing]
      /\ StopManual(Docs) /\ Fetch(Docs)
  BY DEF Invalidate, Cancel
<1>2. LiveTypeOK /\ Waiting /\ Counts
  BY DEF LiveIInv
<1>3. /\ changes \in Nat /\ changes' = changes + 1 /\ changes < MaxChanges /\ epoch \in Nat
      /\ \A d \in Docs : text[d].version \in Nat /\ text[d].life \in Nat
  BY <1>1, <1>2, ChangesAssumption DEF LiveTypeOK, Counted
<1>4. EditorTypes' /\ Counts'
  <2>1. epoch' <= changes' /\ epoch' \in 0 .. MaxChanges /\ changes' \in 0 .. MaxChanges
    BY <1>1, <1>2, <1>3, ChangesAssumption DEF Counts
  <2>2. \A d \in Docs : text[d].version <= changes' /\ text[d].life <= changes'
    BY <1>2, <1>3 DEF Counts
  <2> QED
    BY <1>1, <1>2, <2>1, <2>2 DEF EditorTypes, Counts, LiveTypeOK
<1>5. /\ fetching' \subseteq [of : Requests, live : BOOLEAN]
      /\ \A d \in Docs : on' /\ Open(d)' => [of |-> Request(d)', live |-> TRUE] \in fetching'
  BY <1>1, <1>4, FetchTypes
<1>6. /\ \A d \in Docs : timer[d] # Nothing => timer[d].doc = d /\ Mine(timer[d])
      /\ running # Nothing => running.doc \in Docs /\ Mine(running)
  BY <1>2, Places DEF Waiting
<1>7. \A d \in Docs : timer'[d] = Nothing
  BY <1>1, <1>6 DEF Mine
<1>8. timer' \in [Docs -> Optional] /\ shown' \in [Docs -> Optional] /\ manual' \in Optional
  BY <1>1, <1>2 DEF LiveTypeOK, Optional, StopManual
<1>9. queue' \in Seq(Requests) /\ Len(queue') = 0
  BY <1>1, EmptySeq
<1>10. LiveTypeOK'
  BY <1>1, <1>2, <1>4, <1>5, <1>7, <1>8, <1>9 DEF LiveTypeOK, EditorTypes
<1>11. running # Nothing => rejected' /\ ~IsCurrent(running)'
  <2>1. running # Nothing => running.doc \in Docs /\ Open(running.doc) /\ running.epoch = epoch
    BY <1>6 DEF Mine
  <2>2. epoch' # epoch
    BY <1>1, <1>3
  <2> QED
    BY <1>1, <2>1, <2>2 DEF IsCurrent
<1>12. Waiting'
  BY <1>1, <1>7, <1>9, <1>11 DEF Waiting
<1>13. Checked'
  BY <1>1 DEF LiveIInv, Checked
<1>14. ASSUME NEW d \in Docs PROVE ShownOk(d)' /\ FailedOk(d)' /\ InOrder(d)' /\ NotForgotten(d)'
  <2>1. ShownOk(d)' /\ InOrder(d)'
    BY <1>1, <1>7, <1>11 DEF ShownOk, InOrder
  <2>2. FailedOk(d)'
    BY <1>1 DEF LiveIInv, FailedOk, Past, Open
  <2>3. NotForgotten(d)'
    BY <1>5 DEF NotForgotten, Underway
  <2> QED
    BY <2>1, <2>2, <2>3
<1> QED
  BY <1>4, <1>10, <1>12, <1>13, <1>14 DEF LiveIInv

LEMMA LiveInitInductive == LiveInit => LiveIInv
<1> SUFFICES ASSUME LiveInit PROVE LiveIInv
  OBVIOUS
<1>1. /\ \A d \in Docs : text[d] = [version |-> 0, life |-> 0] /\ ~Open(d)
      /\ \A d \in Docs : timer[d] = Nothing /\ shown[d] = Nothing /\ failed[d] = Nothing
      /\ queue \in Seq(Requests) /\ Len(queue) = 0
  BY EmptySeq DEF LiveInit, Open
<1>2. LiveTypeOK
  <2>1. 0 \in 0 .. MaxChanges
    BY ChangesAssumption
  <2>2. text \in [Docs -> [version : 0 .. MaxChanges, life : 0 .. MaxChanges]]
    BY <2>1 DEF LiveInit
  <2>3. timer \in [Docs -> Optional] /\ shown \in [Docs -> Optional] /\ failed \in [Docs -> Optional]
    BY DEF LiveInit, Optional
  <2>4. \A i, j \in 1 .. Len(queue) : queue[i].doc = queue[j].doc => i = j
    BY <1>1
  <2> QED
    BY <1>1, <2>1, <2>2, <2>3, <2>4 DEF LiveInit, LiveTypeOK, Optional
<1>3. Counts /\ Waiting /\ Checked
  BY <1>1 DEF LiveInit, Counts, Waiting, Checked
<1>4. \A d \in Docs : ShownOk(d) /\ FailedOk(d) /\ InOrder(d) /\ NotForgotten(d)
  BY <1>1 DEF ShownOk, FailedOk, InOrder, NotForgotten
<1> QED
  BY <1>2, <1>3, <1>4 DEF LiveIInv

LEMMA LiveNextInductive == LiveIInv /\ [LiveNext]_liveVars => LiveIInv'
<1> SUFFICES ASSUME LiveIInv, [LiveNext]_liveVars PROVE LiveIInv'
  OBVIOUS
<1>1. CASE UNCHANGED liveVars
  <2>1. Resting
    BY <1>1, EditorRests DEF liveVars, editor
  <2>2. LiveTypeOK'
    BY <1>1 DEF liveVars, LiveIInv, LiveTypeOK
  <2>3. Waiting' /\ Checked'
    BY <1>1, <2>1 DEF liveVars, LiveIInv, Resting, Waiting, Checked
  <2>4. ASSUME NEW d \in Docs PROVE ShownOk(d)' /\ FailedOk(d)' /\ InOrder(d)' /\ NotForgotten(d)'
    BY <1>1, <2>1 DEF liveVars, LiveIInv, Resting, ShownOk, FailedOk, InOrder, NotForgotten, Underway
  <2> QED
    BY <2>1, <2>2, <2>3, <2>4 DEF LiveIInv, Resting
<1>2. CASE Abandoned \/ Compiled \/ Fails
  BY <1>2, EndedStep
<1>3. CASE ~rejected /\ \E d \in Docs : OpenText(d)
  BY <1>3, OpenTextStep
<1>4. CASE ~rejected /\ \E d \in Docs : EditText(d)
  BY <1>4, EditTextStep
<1>5. CASE ~rejected /\ \E d \in Docs : CloseText(d)
  BY <1>5, CloseTextStep
<1>6. CASE ~rejected /\ \E d \in Docs : Pause(d)
  BY <1>6, PauseStep
<1>7. CASE ~rejected /\ \E f \in fetching : Fetched(f)
  BY <1>7, FetchedStep
<1>8. CASE (\E d \in Docs : AskManually(d)) \/ (\E f \in fetching : FetchedManually(f)) \/ CompiledManually
  BY <1>8, ManualStep
<1>9. CASE \E s \in showing : ShowResults(s)
  BY <1>9, ShowResultsStep
<1>10. CASE ~rejected /\ Stale
  BY <1>10, StaleStep
<1>11. CASE ~rejected /\ Invalidate
  BY <1>11, InvalidateStep
<1> QED
  BY <1>1, <1>2, <1>3, <1>4, <1>5, <1>6, <1>7, <1>8, <1>9, <1>10, <1>11 DEF LiveNext

\* The invariant the proofs rest on.
THEOREM LiveInductive == LiveSpec => []LiveIInv
  BY LiveInitInductive, LiveNextInductive, PTL DEF LiveSpec

\* Variables keep their types; one request per document is queued.
THEOREM LiveTyped == LiveSpec => []LiveTypeOK
<1>1. LiveIInv => LiveTypeOK
  BY DEF LiveIInv
<1> QED
  BY <1>1, LiveInductive, PTL

\* Diagnostics on the screen are of the text on the screen, compiled for the
\* present connections and settings (showValidation and the change events).
THEOREM ShownIsCurrentHolds == LiveSpec => []ShownIsCurrent
<1>1. LiveIInv => ShownIsCurrent
  BY DEF LiveIInv, ShownOk, ShownIsCurrent
<1> QED
  BY <1>1, LiveInductive, PTL

\* The present text's diagnostics are shown, its run failed, or it is under
\* way: timers, the queue and restarts of the worker never lose its request.
THEOREM NothingForgottenHolds == LiveSpec => []NothingForgotten
<1>1. LiveIInv => NothingForgotten
  BY DEF LiveIInv, NotForgotten, NothingForgotten
<1> QED
  BY <1>1, LiveInductive, PTL
===============================================================================
