----------------------------- MODULE LiveValidation -----------------------------
(***************************************************************************)
(* PeopleCode compiled as it is typed: src/peoplecode/liveValidation.ts    *)
(* (LiveValidator) with its worker, validateWorkerClient.ts, and the       *)
(* editor's side of it, editorValidation.ts.                               *)
(*                                                                         *)
(* A text travels a chain of waits: the connection's answers, the pause in *)
(* typing, the queue of the one worker, the compilation, the environment   *)
(* checks.  The document may change, close or open again, and the          *)
(* connections and settings may change, between any two of them.           *)
(***************************************************************************)
EXTENDS Naturals, Sequences

CONSTANTS
  Docs,       \* documents, by their URI
  Nothing,    \* no request
  MaxChanges  \* bound on opening, editing, closing, asking and invalidating

ASSUME NothingAssumption == Nothing \notin [doc : Docs, version : Nat, life : Nat, epoch : Nat]
ASSUME ChangesAssumption == MaxChanges \in Nat

VARIABLES
  text,      \* the open document of a URI: its version, 0 when closed, and
             \* which of the documents opened under this URI it is
  epoch,     \* counts changes of connections and settings
  on,        \* the setting: validate as you type
  fetching,  \* validateLive calls and explicit validations that wait for the
             \* connection
  timer,     \* the request of a document that waits for typing to pause
  queue,     \* requests that wait for the worker, by first arrival
  running,   \* the worker's request
  rejected,  \* the worker was stopped under it
  armed,     \* the stale timer is set
  manual,    \* the explicit validation that is compiling
  showing,   \* results whose references are looked up: the document they
             \* are for, and the text they are from
  shown,     \* the diagnostics of a document: the request they are of
  failed,    \* history: the text whose run failed with the worker
  changes    \* how many changes there were

liveVars == <<text, epoch, on, fetching, timer, queue, running, rejected, armed, manual,
             showing, shown, failed, changes>>
editor == <<text, epoch, on, changes>>
validator == <<timer, queue, running, rejected, armed>>
results == <<manual, showing, shown, failed>>

Open(d) == text[d].version > 0
Request(d) == [doc |-> d, version |-> text[d].version, life |-> text[d].life, epoch |-> epoch]

\* The document object is still open and unchanged, and so is the context.
Current(r) == r = Request(r.doc) /\ Open(r.doc)

\* The same by URI and version, as the validator sees it.
IsCurrent(r) == r.version = text[r.doc].version /\ r.epoch = epoch /\ Open(r.doc)

LiveInit ==
  /\ text = [d \in Docs |-> [version |-> 0, life |-> 0]]
  /\ epoch = 0 /\ on = TRUE /\ changes = 0
  /\ fetching = {} /\ showing = {}
  /\ timer = [d \in Docs |-> Nothing]
  /\ queue = <<>> /\ running = Nothing /\ rejected = FALSE /\ armed = FALSE
  /\ manual = Nothing
  /\ shown = [d \in Docs |-> Nothing] /\ failed = shown

-------------------------------------------------------------------------------
(***************************************************************************)
(* The validator                                                           *)
(***************************************************************************)
\* next(): an idle worker takes the first request that is still current.
Advance(q, r) ==
  IF r # Nothing THEN queue' = q /\ running' = r
  ELSE LET ready == {i \in 1 .. Len(q) : IsCurrent(q[i])}
           first == CHOOSE i \in ready : \A j \in ready : i <= j
       IN IF ready = {} THEN queue' = <<>> /\ running' = Nothing
          ELSE queue' = SubSeq(q, first + 1, Len(q)) /\ running' = q[first]

\* Faulty: the timer is not set again for newer text.
ScheduleUnarmed(r) == timer' = [timer EXCEPT ![r.doc] = r] /\ UNCHANGED armed

\* schedule(): the pause starts over, and a run for older text of the
\* document gets a limit.
Schedule(r) ==
  /\ timer' = [timer EXCEPT ![r.doc] = r]
  /\ armed' = (armed \/ (running # Nothing /\ running.doc = r.doc /\ running.version # r.version))

\* A request takes the place of one for the same document.
Enqueued(q, r) ==
  IF \E i \in 1 .. Len(q) : q[i].doc = r.doc
  THEN [i \in 1 .. Len(q) |-> IF q[i].doc = r.doc THEN r ELSE q[i]]
  ELSE Append(q, r)

\* The pause is over.
Pause(d) ==
  /\ timer[d] # Nothing
  /\ timer' = [timer EXCEPT ![d] = Nothing]
  /\ Advance(Enqueued(queue, timer[d]), running)
  /\ UNCHANGED <<editor, fetching, rejected, armed, results>>

\* The stale timer: a run for text that changed is abandoned.
Stale ==
  /\ armed /\ armed' = FALSE
  /\ rejected' = (rejected \/ (running # Nothing /\ ~IsCurrent(running)))
  /\ UNCHANGED <<editor, fetching, timer, queue, running, results>>

\* Faulty: the worker goes on with the text of a document that is closed.
CancelWaiting(docs, left) ==
  /\ timer' = [d \in Docs |-> IF d \in docs THEN Nothing ELSE timer[d]]
  /\ queue' = left
  /\ UNCHANGED <<running, rejected, armed>>

\* cancel() for some documents: nothing of theirs waits or runs on.  What is
\* left of the queue is for the caller to say.
Cancel(docs, left) ==
  /\ timer' = [d \in Docs |-> IF d \in docs THEN Nothing ELSE timer[d]]
  /\ queue' = left
  /\ rejected' = (rejected \/ (running # Nothing /\ running.doc \in docs))
  /\ UNCHANGED <<running, armed>>

\* The run ends: with a result, which is published for the document that is
\* open under the URI if that one has the version; with the worker's failure;
\* or because it was abandoned.
Ended(ok) ==
  /\ running # Nothing
  /\ showing' = IF ok /\ IsCurrent(running) /\ on
                THEN showing \cup {[of |-> Request(running.doc), from |-> running, live |-> TRUE]}
                ELSE showing
  /\ rejected' = FALSE /\ armed' = FALSE
  /\ Advance(queue, Nothing)
  /\ UNCHANGED <<editor, fetching, timer, manual, shown>>
Compiled == ~rejected /\ Ended(TRUE) /\ UNCHANGED failed
Fails == ~rejected /\ Ended(FALSE) /\ failed' = [failed EXCEPT ![running.doc] = running]
Abandoned == rejected /\ Ended(FALSE) /\ UNCHANGED failed

-------------------------------------------------------------------------------
(***************************************************************************)
(* The editor                                                              *)
(***************************************************************************)
Counted == changes < MaxChanges /\ changes' = changes + 1
Without(q, d) ==
  LET places == {i \in 1 .. Len(q) : q[i].doc = d}
      place == CHOOSE i \in places : TRUE
  IN IF places = {} THEN q ELSE SubSeq(q, 1, place - 1) \o SubSeq(q, place + 1, Len(q))
StopManual(docs) == manual' = IF manual # Nothing /\ manual.doc \in docs THEN Nothing ELSE manual

\* validateLive(): starts with the text as it is after this step.
Fetch(docs) ==
  fetching' = fetching \cup
    {[of |-> Request(d)', live |-> TRUE] : d \in {e \in docs : on' /\ Open(e)'}}

OpenText(d) ==
  /\ Counted /\ ~Open(d)
  /\ text' = [text EXCEPT ![d] = [version |-> 1, life |-> @.life + 1]]
  /\ UNCHANGED <<epoch, on, validator, results>>
  /\ Fetch({d})

\* Every change of the text takes its diagnostics away.
EditText(d) ==
  /\ Counted /\ Open(d)
  /\ text' = [text EXCEPT ![d].version = @ + 1]
  /\ StopManual({d})
  /\ shown' = [shown EXCEPT ![d] = Nothing]
  /\ UNCHANGED <<epoch, on, validator, showing, failed>>
  /\ Fetch({d})

CloseText(d) ==
  /\ Counted /\ Open(d)
  /\ text' = [text EXCEPT ![d].version = 0]
  /\ Cancel({d}, Without(queue, d)) /\ StopManual({d})
  /\ shown' = [shown EXCEPT ![d] = Nothing]
  /\ UNCHANGED <<epoch, on, fetching, showing, failed>>

\* A connection or a setting changed: everything starts over.  Only documents
\* that are open are queued, so nothing is left of the queue.
Invalidate ==
  /\ Counted /\ epoch' = epoch + 1 /\ on' \in BOOLEAN
  /\ Cancel({d \in Docs : Open(d)}, <<>>) /\ StopManual(Docs)
  /\ shown' = [d \in Docs |-> Nothing]
  /\ UNCHANGED <<text, showing, failed>>
  /\ Fetch(Docs)

\* The connection has answered with the release and the owner's fields.
Fetched(f) ==
  /\ f \in fetching /\ f.live /\ fetching' = fetching \ {f}
  /\ IF on /\ Current(f.of) THEN Schedule(f.of) ELSE UNCHANGED <<timer, armed>>
  /\ UNCHANGED <<editor, queue, running, rejected, results>>

\* showValidation(), after the environment checks.
ShowResults(s) ==
  /\ s \in showing /\ showing' = showing \ {s}
  /\ shown' = IF Current(s.of) /\ (s.live => on)
              THEN [shown EXCEPT ![s.of.doc] = s.from] ELSE shown
  /\ UNCHANGED <<editor, fetching, validator, manual, failed>>

\* validateDocument(), on a worker of its own: the developer asks, the
\* connection answers, the later request stops the earlier one.
AskManually(d) ==
  /\ Counted /\ Open(d)
  /\ fetching' = fetching \cup {[of |-> Request(d), live |-> FALSE]}
  /\ UNCHANGED <<text, epoch, on, validator, results>>
FetchedManually(f) ==
  /\ f \in fetching /\ ~f.live /\ fetching' = fetching \ {f}
  /\ manual' = IF Current(f.of) THEN f.of ELSE manual
  /\ UNCHANGED <<editor, validator, showing, shown, failed>>
CompiledManually ==
  /\ manual # Nothing /\ manual' = Nothing
  /\ showing' \in {showing, showing \cup {[of |-> manual, from |-> manual, live |-> FALSE]}}
  /\ UNCHANGED <<editor, fetching, validator, shown, failed>>

\* A rejected run is dealt with before any other event (a microtask).
LiveNext ==
  \/ Abandoned
  \/ ~rejected /\
     \/ \E d \in Docs : OpenText(d) \/ EditText(d) \/ CloseText(d) \/ Pause(d) \/ AskManually(d)
     \/ \E f \in fetching : Fetched(f) \/ FetchedManually(f)
     \/ \E s \in showing : ShowResults(s)
     \/ Stale \/ Compiled \/ Fails \/ CompiledManually \/ Invalidate

\* Fairness: the connection answers, timers fire, and a compilation of the
\* present text ends.  One of text that changed may go on for ever.
InTime == Compiled /\ IsCurrent(running)
LiveSpec ==
  /\ LiveInit /\ [][LiveNext]_liveVars
  /\ WF_liveVars(InTime) /\ WF_liveVars(Stale) /\ WF_liveVars(Abandoned)
  /\ \A d \in Docs :
       /\ WF_liveVars(Pause(d))
       /\ WF_liveVars(\E f \in fetching : f.of.doc = d /\ Fetched(f))
       /\ WF_liveVars(\E s \in showing : s.of.doc = d /\ s.live /\ ShowResults(s))

-------------------------------------------------------------------------------
(***************************************************************************)
(* Properties                                                              *)
(***************************************************************************)
Requests == [doc : Docs, version : 0 .. MaxChanges, life : 0 .. MaxChanges, epoch : 0 .. MaxChanges]
Optional == Requests \cup {Nothing}

LiveTypeOK ==
  /\ text \in [Docs -> [version : 0 .. MaxChanges, life : 0 .. MaxChanges]]
  /\ epoch \in 0 .. MaxChanges /\ on \in BOOLEAN /\ changes \in 0 .. MaxChanges
  /\ fetching \subseteq [of : Requests, live : BOOLEAN]
  /\ showing \subseteq [of : Requests, from : Requests, live : BOOLEAN]
  /\ timer \in [Docs -> Optional] /\ queue \in Seq(Requests)
  /\ running \in Optional /\ manual \in Optional
  /\ rejected \in BOOLEAN /\ armed \in BOOLEAN
  /\ shown \in [Docs -> Optional] /\ failed \in [Docs -> Optional]
  /\ \A d \in Docs : timer[d] # Nothing => timer[d].doc = d
  /\ \A i, j \in 1 .. Len(queue) : queue[i].doc = queue[j].doc => i = j

\* Diagnostics on the screen are of the text on the screen, compiled for the
\* present connections and settings, through all the waits a result takes,
\* although the validator tells texts apart by URI and version only.
ShownIsCurrent == \A d \in Docs : shown[d] # Nothing => Current(shown[d])

\* When typing rests, the diagnostics of the present text appear, unless the
\* worker failed on it: a run of older text that never ends, and the runs and
\* changes of other documents, do not prevent it.
EventuallyShown ==
  \A d \in Docs :
    (Open(d) /\ on) ~> (shown[d] # Nothing \/ ~Open(d) \/ ~on \/ failed[d] = Request(d))

\* Until they appear, the present text is somewhere in the chain: it waits for
\* the connection, the pause, the worker or the environment checks.  Schedule,
\* queue, the one worker and the loss of what it does by a restart never drop
\* the only request for it.
Underway(d) ==
  \/ [of |-> Request(d), live |-> TRUE] \in fetching
  \/ timer[d] = Request(d)
  \/ \E i \in 1 .. Len(queue) : queue[i] = Request(d)
  \/ running = Request(d) /\ ~rejected
  \/ \E s \in showing : s.live /\ s.of = Request(d)
NothingForgotten ==
  \A d \in Docs : Open(d) /\ on => shown[d] # Nothing \/ failed[d] = Request(d) \/ Underway(d)
===============================================================================
