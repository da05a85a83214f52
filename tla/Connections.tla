------------------------------ MODULE Connections ------------------------------
(***************************************************************************)
(* The live connections of a window: src/workspace.ts.                     *)
(*                                                                         *)
(* Workspace keeps one provider per connected environment and the target   *)
(* that commands use.  Connecting one environment disconnects the others,  *)
(* after it has connected.  Commands, editors and MCP tools connect on     *)
(* demand, each in its own promise; opening and closing are awaited.       *)
(***************************************************************************)
EXTENDS Naturals, FiniteSets

CONSTANTS
  Callers,            \* promises that connect or disconnect at the same time
  Connections,        \* configured environments
  NoConnection,       \* no target is selected
  Providers,          \* providers that get created
  NoProvider          \* the environment has none

ASSUME NoneAssumption == NoConnection \notin Connections /\ NoProvider \notin Providers

VARIABLES
  providers,  \* the provider registered for each connection
  selected,   \* the target connection
  life,       \* of each provider: unborn, opening, open or closed
  task,       \* of each caller: where it is and what it holds
  overlapped, \* history: did two connects overlap, did a disconnect overlap a call
  unclosed    \* history: the providers that a connect unregistered and failed to close

vars == <<providers, selected, life, task, overlapped, unclosed>>

\* "todo" are the other providers a connect has still to disconnect, as they
\* were when its own provider had connected.
Idle == [pc |-> "idle", id |-> NoConnection, provider |-> NoProvider, closing |-> NoProvider, todo |-> {}]

Init ==
  /\ providers = [id \in Connections |-> NoProvider]
  /\ selected = NoConnection
  /\ life = [p \in Providers |-> "unborn"]
  /\ task = [c \in Callers |-> Idle]
  /\ overlapped = {} /\ unclosed = {}

\* A provider that is being closed still counts as connected.
Connected(id) == providers[id] # NoProvider /\ life[providers[id]] = "open"

Connecting(c) == task[c].pc \in {"opening", "closing"}
Disconnecting(c) == task[c].pc = "disconnecting"
\* Nothing keeps a call from starting while others are under way.
Start(c, call) ==
  /\ task[c] = Idle
  /\ overlapped' = overlapped \cup
       {kind \in {"connects", "disconnects"} :
          IF kind = "connects" THEN call = kind /\ \E other \in Callers : Connecting(other)
          ELSE \E other \in Callers : Disconnecting(other) \/ (call = kind /\ task[other] # Idle)}

-------------------------------------------------------------------------------
(***************************************************************************)
(* connect                                                                 *)
(***************************************************************************)
Connect(c, id) ==
  /\ Start(c, "connects") /\ ~Connected(id)
  /\ \E p \in Providers :
       /\ life[p] = "unborn" /\ life' = [life EXCEPT ![p] = "opening"]
       /\ task' = [task EXCEPT ![c] = [Idle EXCEPT !.pc = "opening", !.id = id, !.provider = p]]
  /\ UNCHANGED <<providers, selected, unclosed>>

ConnectFails(c) ==
  /\ task[c].pc = "opening"
  /\ life' = [life EXCEPT ![task[c].provider] = "closed"]
  /\ task' = [task EXCEPT ![c] = Idle]
  /\ UNCHANGED <<providers, selected, overlapped, unclosed>>

Others(id) == {<<other, providers[other]>> : other \in {o \in Connections \ {id} : providers[o] # NoProvider}}

\* The new provider becomes the target once nothing is left to disconnect.
Activate(c, todo) ==
  /\ todo = {}
  /\ providers' = [providers EXCEPT ![task[c].id] = task[c].provider]
  /\ selected' = task[c].id
  /\ task' = [task EXCEPT ![c] = Idle]

\* Faulty: the others are unregistered and nobody closes them.
DeactivateForgets(c, todo) ==
  /\ todo # {}
  /\ providers' = [other \in Connections |-> NoProvider]
  /\ task' = [task EXCEPT ![c].pc = "closing", ![c].closing = task[c].provider, ![c].todo = {}]
  /\ UNCHANGED selected

\* Faulty: the provider of another connection stays registered.
DeactivateKeeps(c, todo) ==
  \E other \in todo :
    /\ task' = [task EXCEPT ![c].pc = "closing", ![c].closing = other[2], ![c].todo = todo \ {other}]
    /\ UNCHANGED <<providers, selected>>

Deactivate(c, todo) ==
  \E other \in todo :
    /\ providers' = [providers EXCEPT ![other[1]] = NoProvider]
    /\ task' = [task EXCEPT ![c].pc = "closing", ![c].closing = other[2], ![c].todo = todo \ {other}]
    /\ UNCHANGED selected

Proceed(c, todo) == Activate(c, todo) \/ Deactivate(c, todo)

Opened(c) ==
  /\ task[c].pc = "opening"
  /\ life' = [life EXCEPT ![task[c].provider] = "open"]
  /\ Proceed(c, Others(task[c].id)) /\ UNCHANGED <<overlapped, unclosed>>

Closed(c) ==
  /\ task[c].pc = "closing"
  /\ life' = [life EXCEPT ![task[c].closing] = "closed"]
  /\ Proceed(c, task[c].todo) /\ UNCHANGED <<overlapped, unclosed>>

\* Closing it failed, which is only logged: it is as connected as before, and
\* registered no more.
CloseFails(c) ==
  /\ task[c].pc = "closing"
  /\ unclosed' = unclosed \cup {task[c].closing}
  /\ Proceed(c, task[c].todo) /\ UNCHANGED <<life, overlapped>>

-------------------------------------------------------------------------------
(***************************************************************************)
(* disconnect and the selection of the target                              *)
(***************************************************************************)
Disconnect(c, id) ==
  /\ Start(c, "disconnects") /\ providers[id] # NoProvider
  /\ task' = [task EXCEPT ![c] = [Idle EXCEPT !.pc = "disconnecting", !.id = id, !.closing = providers[id]]]
  /\ UNCHANGED <<providers, selected, life, unclosed>>

\* Faulty: the target stays what it was.
FallbackKept(gone, up) == {selected}
\* A disconnected target falls back to a connection that is up, or to none.
Fallback(gone, up) ==
  IF selected # gone THEN {selected} ELSE IF up # {} THEN up ELSE {NoConnection}

Disconnected(c) ==
  LET id == task[c].id
      up == {other \in Connections \ {id} : providers[other] # NoProvider /\ life'[providers[other]] = "open"}
  IN  /\ task[c].pc = "disconnecting"
      /\ life' = [life EXCEPT ![task[c].closing] = "closed"]
      /\ providers' = [providers EXCEPT ![id] = NoProvider]
      /\ selected' \in Fallback(id, up)
      /\ task' = [task EXCEPT ![c] = Idle] /\ UNCHANGED <<overlapped, unclosed>>

\* Closing it failed, for one because another call closes it already.
DisconnectFails(c) ==
  /\ task[c].pc = "disconnecting"
  /\ task' = [task EXCEPT ![c] = Idle]
  /\ UNCHANGED <<providers, selected, life, overlapped, unclosed>>

\* The picker and the status bar select a connection that is up.
Select(id) ==
  /\ Connected(id) /\ selected' = id
  /\ UNCHANGED <<providers, life, task, overlapped, unclosed>>

Next ==
  \/ \E c \in Callers :
       \/ \E id \in Connections : Connect(c, id) \/ Disconnect(c, id)
       \/ ConnectFails(c) \/ Opened(c) \/ Closed(c) \/ CloseFails(c) \/ Disconnected(c) \/ DisconnectFails(c)
  \/ \E id \in Connections : Select(id)

Spec == Init /\ [][Next]_vars

-------------------------------------------------------------------------------
(***************************************************************************)
(* Properties                                                              *)
(***************************************************************************)
MaybeProvider == Providers \cup {NoProvider}
MaybeConnection == Connections \cup {NoConnection}

\* Every variable has its type, and no provider is registered before it is
\* connected.
TypeOK ==
  /\ providers \in [Connections -> MaybeProvider] /\ selected \in MaybeConnection
  /\ life \in [Providers -> {"unborn", "opening", "open", "closed"}]
  /\ task \in [Callers -> [pc : {"idle", "opening", "closing", "disconnecting"}, id : MaybeConnection,
                           provider : MaybeProvider, closing : MaybeProvider, todo : SUBSET (Connections \X Providers)]]
  /\ overlapped \subseteq {"connects", "disconnects"} /\ unclosed \subseteq Providers
  /\ \A id \in Connections : providers[id] # NoProvider => life[providers[id]] \in {"open", "closed"}

\* The target, when there is one, is registered, unless a connect is about to
\* replace it: also after failed and overlapping calls no command addresses a
\* connection that is gone.
TargetIsLive ==
  selected # NoConnection =>
    \/ providers[selected] # NoProvider
    \/ \E c \in Callers : task[c].pc = "closing"

\* One connection is active at a time.
OneActive == Cardinality({id \in Connections : providers[id] # NoProvider}) <= 1

\* That is so as long as no two connects overlap, whatever disconnects fail or
\* run at the same time.
OneActiveInTurn == "connects" \notin overlapped => OneActive

\* A provider is owned while it is registered or in the hands of a call that
\* will register or close it.
Owned(p) ==
  \/ \E id \in Connections : providers[id] = p
  \/ \E c \in Callers : p \in {task[c].provider, task[c].closing} \cup {other[2] : other \in task[c].todo}

\* The workspace owns every live provider: whatever is open can still be used,
\* and disconnected.
OwnsWhatIsOpen == \A p \in Providers : life[p] = "open" => Owned(p)

\* That is so while calls do not overlap, but for a provider that a connect
\* unregistered and could not close: nothing else lets go of an open one.
LiveProvidersAreOwned ==
  overlapped = {} => \A p \in Providers \ unclosed : life[p] = "open" => Owned(p)
===============================================================================
