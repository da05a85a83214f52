----------------------------- MODULE BuildRequest -----------------------------
(***************************************************************************)
(* One build request: src/buildRequest/store.ts and model.ts, the panel    *)
(* (editors/buildRequestPanel.ts) and the agent's MCP tools.               *)
(*                                                                         *)
(* The request is a file.  Every change to it reads the whole file,        *)
(* changes the copy and replaces the file, through one queue per extension *)
(* host; every VS Code window is an extension host of its own over the     *)
(* same global storage.  The developer edits, answers, and approves what   *)
(* the page shows; the agent asks, proposes a spec for what it read, and   *)
(* reports what it built.                                                  *)
(***************************************************************************)
EXTENDS Integers, FiniteSets

CONSTANTS
  Windows,       \* extension hosts
  Inputs,        \* changes the developer may make: text, attachments, answers
  Questions,     \* what an agent may ask
  Specs,         \* bodies of build specs
  Objects,       \* the objects a spec lists
  NoBody,        \* no spec
  Unread,        \* the agent has not read the request
  MaxInputs,     \* bound on the inputs revision
  MaxRevisions,  \* bound on the revisions of the spec
  MaxBegun       \* bound on the changes begun, in all windows

ASSUME MarkerAssumption == NoBody \notin Specs
ASSUME BoundAssumption == MaxInputs \in Nat \ {0} /\ MaxRevisions \in Nat /\ MaxBegun \in Nat

VARIABLES
  request,  \* request.json
  exists,   \* the folder of the request has not been deleted
  copy,     \* the changed copies that are about to replace the file
  page,     \* the spec the panel of each window shows
  read,     \* what the agent of each window last read of the inputs
  begun,    \* number of changes, for their bound
  overtaken, \* history: windows whose change under way read a file that another has replaced
  rewound   \* history: the change of such a window has put another spec in the file

requestVars == <<request, exists, copy, page, read, begun, overtaken, rewound>>
history == <<overtaken, rewound>>

Roles == {"developer", "agent"}

NoSpec == [revision |-> 0, body |-> NoBody, basedOn |-> 0, seen |-> {}]
NoApproval == [revision |-> 0, body |-> NoBody, inputs |-> 0, shown |-> NoBody]

\* "entered" is the developer's material itself, "inputs" its revision number.
NewRequest ==
  [inputs |-> 1, entered |-> {}, questions |-> [q \in Questions |-> "unasked"],
   spec |-> NoSpec, approval |-> NoApproval, progress |-> [o \in Objects |-> "PENDING"]]
NoCopy == [NewRequest EXCEPT !.inputs = 0]
NothingShown == [revision |-> 0, body |-> NoBody]

RequestInit ==
  /\ request = NewRequest /\ exists = TRUE
  /\ copy = [w \in Windows |-> [role \in Roles |-> NoCopy]]
  /\ page = [w \in Windows |-> NothingShown]
  /\ read = [w \in Windows |-> Unread]
  /\ begun = 0 /\ overtaken = {} /\ rewound = FALSE

\* Approval holds only for the exact spec and inputs.
Approved(r) ==
  /\ r.approval # NoApproval
  /\ r.approval.revision = r.spec.revision /\ r.approval.body = r.spec.body
  /\ r.approval.inputs = r.inputs /\ r.spec.basedOn = r.inputs

Answered(r) == \A q \in Questions : r.questions[q] # "open"

-------------------------------------------------------------------------------
(***************************************************************************)
(* mutate and serialized: a change reads the file when its turn has come   *)
(* and replaces it later.  A change that has nothing to say or throws      *)
(* writes nothing.  The queues of two windows know nothing of each other.  *)
(***************************************************************************)
\* Faulty: the panel and the MCP server each keep a queue of their own.
TurnOfRole(w, role) == copy[w][role] = NoCopy
Turn(w, role) == \A r \in Roles : copy[w][r] = NoCopy

Change(w, role, changed) ==
  /\ exists /\ Turn(w, role)
  /\ begun < MaxBegun /\ begun' = begun + 1
  /\ copy' = [copy EXCEPT ![w][role] = changed]
  /\ UNCHANGED <<request, exists, page, read, history>>

Changing(w) == {role \in Roles : copy[w][role] # NoCopy}

Write(w, role) ==
  /\ copy[w][role] # NoCopy
  /\ overtaken' = (IF exists THEN overtaken \cup {v \in Windows : Changing(v) # {}} ELSE overtaken) \ {w}
  /\ request' = IF exists THEN copy[w][role] ELSE request
  /\ copy' = [copy EXCEPT ![w][role] = NoCopy]
  /\ rewound' = (rewound \/ (w \in overtaken /\ request'.spec # request.spec))
  /\ UNCHANGED <<exists, page, read, begun>>

\* The window closes or its extension host dies.
Crash(w) ==
  /\ copy' = [copy EXCEPT ![w] = [role \in Roles |-> NoCopy]]
  /\ page' = [page EXCEPT ![w] = NothingShown] /\ read' = [read EXCEPT ![w] = Unread]
  /\ overtaken' = overtaken \ {w}
  /\ UNCHANGED <<request, exists, begun, rewound>>

-------------------------------------------------------------------------------
(***************************************************************************)
(* The agent's side                                                        *)
(***************************************************************************)
\* psft_build_request_get
Get(w) ==
  /\ exists /\ read' = [read EXCEPT ![w] = request.entered]
  /\ UNCHANGED <<request, exists, copy, page, begun, history>>

Ask(w, q) ==
  /\ request.questions[q] = "unasked"
  /\ Change(w, "agent", [request EXCEPT !.questions[q] = "open"])

\* Faulty: a revised spec keeps the revision of the first one.
FirstRevision == 1
NextRevision == request.spec.revision + 1

ProposeSpec(w, body) ==
  /\ read[w] # Unread /\ request.spec.revision < MaxRevisions
  /\ ~ (request.spec.body = body /\ request.spec.basedOn = request.inputs)
  /\ Change(w, "agent", [request EXCEPT !.spec =
       [revision |-> NextRevision, body |-> body, basedOn |-> request.inputs, seen |-> read[w]]])

\* One report stands for all: what it says of the object is not modelled.
Report(w, o) ==
  /\ Approved(request)
  /\ Change(w, "agent", [request EXCEPT !.progress[o] = "BUILT"])

-------------------------------------------------------------------------------
(***************************************************************************)
(* The developer's side                                                    *)
(***************************************************************************)
\* push: what the page shows may be older than the file.
Show(w) ==
  /\ exists /\ page' = [page EXCEPT ![w] = [revision |-> request.spec.revision, body |-> request.spec.body]]
  /\ UNCHANGED <<request, exists, copy, read, begun, history>>

\* A new text, attachment, kind, connection or project.
WithInput(r, i) == [r EXCEPT !.inputs = @ + 1, !.entered = @ \cup {i}]

Edit(w, i) ==
  /\ request.inputs < MaxInputs /\ i \notin request.entered
  /\ Change(w, "developer", WithInput(request, i))

\* An answer may be changed later, and taken back.
Answer(w, q, i, answer) ==
  /\ request.inputs < MaxInputs /\ i \notin request.entered
  /\ request.questions[q] = "answered" \/ (request.questions[q] = "open" /\ answer = "answered")
  /\ Change(w, "developer", [WithInput(request, i) EXCEPT !.questions[q] = answer])

\* The title and the record of a handoff are no inputs of the agent.
Annotate(w) == Change(w, "developer", request)

ApprovalBlocked(r) == r.spec = NoSpec \/ Approved(r) \/ ~Answered(r) \/ r.spec.basedOn # r.inputs

\* Faulty: whatever the file holds is approved.
ApproveLatest(w) ==
  /\ page[w] # NothingShown /\ ~ApprovalBlocked(request)
  /\ Change(w, "developer", [request EXCEPT !.approval =
       [revision |-> request.spec.revision, body |-> request.spec.body, inputs |-> request.inputs, shown |-> page[w].body]])

Approve(w) ==
  /\ page[w] # NothingShown /\ ~ApprovalBlocked(request) /\ request.spec.revision = page[w].revision
  /\ Change(w, "developer", [request EXCEPT !.approval =
       [revision |-> request.spec.revision, body |-> request.spec.body, inputs |-> request.inputs, shown |-> page[w].body]])

RequestChanges(w) ==
  /\ request.spec # NoSpec
  /\ Change(w, "developer", [request EXCEPT !.approval = NoApproval])

Delete(w) ==
  /\ exists /\ Turn(w, "developer") /\ exists' = FALSE
  /\ UNCHANGED <<request, copy, page, read, begun, history>>

Agent(w) ==
  \/ Get(w) \/ (\E q \in Questions : Ask(w, q)) \/ (\E body \in Specs : ProposeSpec(w, body))
  \/ \E o \in Objects : Report(w, o)
Developer(w) ==
  \/ Show(w) \/ (\E i \in Inputs : Edit(w, i))
  \/ (\E q \in Questions, i \in Inputs, answer \in {"open", "answered"} : Answer(w, q, i, answer))
  \/ Annotate(w) \/ Approve(w) \/ RequestChanges(w) \/ Delete(w)

RequestNext == \E w \in Windows : Agent(w) \/ Developer(w) \/ Crash(w) \/ \E role \in Roles : Write(w, role)

RequestSpec == RequestInit /\ [][RequestNext]_requestVars

-------------------------------------------------------------------------------
(***************************************************************************)
(* Properties                                                              *)
(***************************************************************************)
Bodies == Specs \cup {NoBody}
Answers == {"unasked", "open", "answered"}
RequestType ==
  [inputs : 0 .. MaxInputs, entered : SUBSET Inputs, questions : [Questions -> Answers],
   spec : [revision : 0 .. MaxRevisions, body : Bodies, basedOn : 0 .. MaxInputs, seen : SUBSET Inputs],
   approval : [revision : 0 .. MaxRevisions, body : Bodies, inputs : 0 .. MaxInputs, shown : Bodies],
   progress : [Objects -> {"PENDING", "BUILT"}]]
ShownType == [revision : 0 .. MaxRevisions, body : Bodies]

\* Every variable has its type, and a window has one change under way at most.
RequestTypeOK ==
  /\ request \in RequestType /\ exists \in BOOLEAN
  /\ copy \in [Windows -> [Roles -> RequestType]]
  /\ \A w \in Windows : Cardinality(Changing(w)) <= 1
  /\ page \in [Windows -> ShownType] /\ read \in [Windows -> (SUBSET Inputs) \cup {Unread}]
  /\ begun \in 0 .. MaxBegun /\ overtaken \subseteq Windows /\ rewound \in BOOLEAN

\* The change of a window is written, or given up, whose copy another window
\* has overtaken: nothing but such a write breaks the next two properties.
StaleWrite == \E w \in overtaken : copy'[w] # copy[w]

\* What the developer entered stays in the request, whatever the agent and the
\* developer change at the same time, in one window or in several; only the
\* write of a copy that another window has overtaken takes an input away.
InputsSurvive == [][request.entered \subseteq request'.entered \/ StaleWrite]_requestVars

\* An approval that was withdrawn, by a change of the inputs or by another
\* spec, comes back by another click only, never because the agent proposes
\* the approved spec again; or by the write of an overtaken copy.
Restored == ~Approved(request) /\ Approved(request') /\ request'.approval = request.approval
LapsedStaysLapsed == [][Restored => StaleWrite]_requestVars

\* An approval that holds is for the body the page showed when it was given,
\* unless the write of an overtaken copy has put another spec in the place of
\* the present one: then two specs may have the same revision.
ApprovedAsShown == Approved(request) /\ ~rewound => request.approval.shown = request.spec.body

\* The three without their exceptions, as the store's comments have them.
InputsNeverLost == [][request.entered \subseteq request'.entered]_requestVars
NeverRestored == [][~Restored]_requestVars
AlwaysAsShown == Approved(request) => request.approval.shown = request.spec.body

\* A spec is approved only when the agent that designed it had seen the
\* request as it stands, whatever the developer entered meanwhile.
ApprovedSpecSawTheRequest == Approved(request) => request.spec.seen = request.entered
===============================================================================
