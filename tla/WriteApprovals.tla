----------------------------- MODULE WriteApprovals -----------------------------
(***************************************************************************)
(* Who lets a write of a definition go ahead: the approval an agent's tool *)
(* call waits for (src/mcp/writeTools.ts, src/providers/writeGuard.ts,     *)
(* src/model/writeApprovals.ts) and the delivered-object guard every write *)
(* passes after it (src/customizationGuard.ts), with its audit log.        *)
(*                                                                         *)
(* Calls by agents and by people run at the same time.  A person answers   *)
(* cards in any order, also cards that are settled; the timer of a wait    *)
(* and the agent's cancellation race with the answer.  What runs without   *)
(* an await (an answer and the call it resumes) is one step.               *)
(***************************************************************************)
EXTENDS Naturals

CONSTANTS
  Calls,      \* writes: tool calls of agents, saves of people
  Agents,     \* the calls that run inside runAsAgent
  Unlucky,    \* the calls for which reading or writing the audit file may fail
  Keys,       \* definitions of one connection
  Key,        \* Key[c]: the definition call c writes
  Ownership   \* Ownership[k]: what the evidence says of k

Origins == {"agent", "user"}
Policies == {"block", "requireApproval", "allowWithAudit"}
ASSUME CallsAssumption == Agents \subseteq Calls /\ Unlucky \subseteq Calls /\ Key \in [Calls -> Keys]
ASSUME OwnershipAssumption == Ownership \in [Keys -> {"DELIVERED", "UNKNOWN", "CUSTOM"}]

VARIABLES
  mode,       \* peoplesoft.mcp.writes
  policy,     \* policy[o]: the delivered-object policy for writes of origin o
  pc,         \* where each call is
  job,        \* the audit line a call appends, where it goes on, what it read
  cards,      \* cards[c][l]: the state of the request call c made at level l
  sessions,   \* sessionApprovals
  cancelled,  \* calls whose request the agent has cancelled
  log,        \* the audit file: a set of lines
  judged,     \* history: what the policy said of a call's write
  granted,    \* history: granted[c][l]: what a person answered
  overlapped, \* history: calls whose append met another
  struck      \* history: calls whose line a failed read or write may have cost

vars == <<mode, policy, pc, job, cards, sessions, cancelled, log, judged, granted, overlapped, struck>>
settings == <<mode, policy>>
audit == <<job, log, overlapped, struck>>
answers == <<cards, sessions, granted>>

Origin(c) == IF c \in Agents THEN "agent" ELSE "user"
Ended == {"written", "failed", "refused", "declined", "expired", "cancelled"}
States == {"none", "PENDING", "APPROVED", "DECLINED", "EXPIRED", "CANCELLED"}
Choices(l) == IF l = 1 THEN {"Allow"} ELSE {"Approve", "Approve for This Session"}
NoJob == [outcome |-> "none", next |-> "none", prior |-> {}]

Init ==
  /\ mode \in {"confirm", "allow"} /\ policy \in [Origins -> Policies]
  /\ pc = [c \in Calls |-> "idle"]
  /\ job = [c \in Calls |-> NoJob]
  /\ cards = [c \in Calls |-> [l \in 1 .. 2 |-> "none"]]
  /\ granted = cards
  /\ sessions = {} /\ cancelled = {} /\ log = {} /\ overlapped = {} /\ struck = {}
  /\ judged = [c \in Calls |-> "none"]

Goto(c, place) == pc' = [pc EXCEPT ![c] = place]
Settle(c, l, state) == cards' = [cards EXCEPT ![c][l] = state]
Waiting(c, l) == pc[c] = (IF l = 1 THEN "level1" ELSE "level2")

-------------------------------------------------------------------------------
(***************************************************************************)
(* The audit log: the file is read and written back with one line more.    *)
(* Failures are caught there, and the guarded write goes on.               *)
(***************************************************************************)
Line(c, outcome) == <<c, outcome>>
Appending == {c \in Calls : pc[c] = "append"}
Named(lines) == {line[1] : line \in lines}

\* record(outcome) begins: the call goes on to "next" when it has returned.
\* Any failure to read the file is taken for a log without lines.
Record(c, outcome, next) ==
  /\ Goto(c, "append")
  /\ \E prior \in {log} \cup (IF c \in Unlucky THEN {{}} ELSE {}) :
       /\ job' = [job EXCEPT ![c] = [outcome |-> outcome, next |-> next, prior |-> prior]]
       /\ struck' = IF prior = log THEN struck ELSE struck \cup Named(log)
  /\ overlapped' = IF Appending = {} THEN overlapped ELSE overlapped \cup Appending \cup {c}
  /\ UNCHANGED log

\* Faulty: the file is written with the new line only.
AppendAlone(c) ==
  /\ pc[c] = "append"
  /\ log' = {Line(c, job[c].outcome)}
  /\ Goto(c, job[c].next)
  /\ job' = [job EXCEPT ![c] = NoJob]
  /\ UNCHANGED <<settings, answers, cancelled, judged, overlapped, struck>>

Append(c) ==
  /\ pc[c] = "append"
  /\ log' = job[c].prior \cup {Line(c, job[c].outcome)}
  /\ Goto(c, job[c].next)
  /\ job' = [job EXCEPT ![c] = NoJob]
  /\ UNCHANGED <<settings, answers, cancelled, judged, overlapped, struck>>

\* The directory or the write failed: the file is as it was, or what a write
\* cut short has left of it.
AppendFails(c) ==
  /\ pc[c] = "append" /\ c \in Unlucky
  /\ log' \in {log} \cup SUBSET job[c].prior
  /\ struck' = struck \cup {c} \cup (IF log' = log THEN {} ELSE Named(log \cup job[c].prior))
  /\ Goto(c, job[c].next)
  /\ job' = [job EXCEPT ![c] = NoJob]
  /\ UNCHANGED <<settings, answers, cancelled, judged, overlapped>>

-------------------------------------------------------------------------------
(***************************************************************************)
(* Waiting for a person                                                    *)
(***************************************************************************)
\* awaitWriteApproval: a request that was cancelled before is not shown.
Ask(c, l) ==
  IF c \in Agents /\ c \in cancelled
  THEN Goto(c, "cancelled") /\ UNCHANGED cards
  ELSE Goto(c, IF l = 1 THEN "level1" ELSE "level2") /\ Settle(c, l, "PENDING")

\* approve() of the write tools, unless writes are allowed; a person's save
\* goes to the guard at once.
Start(c) ==
  /\ pc[c] = "idle"
  /\ IF c \in Agents /\ mode = "confirm" THEN Ask(c, 1) ELSE Goto(c, "guard") /\ UNCHANGED cards
  /\ UNCHANGED <<settings, audit, sessions, granted, cancelled, judged>>

\* Faulty: an approval for the session is kept without its origin.
KeptForAll(c) == {[origin |-> o, key |-> Key[c]] : o \in Origins}

\* What an approval for the session covers.
Kept(c) == {[origin |-> Origin(c), key |-> Key[c]]}

\* The call goes on with the answer to level l.
Resume(c, l, choice) ==
  /\ sessions' = IF choice = "Approve for This Session" THEN sessions \cup Kept(c) ELSE sessions
  /\ \/ l = 1 /\ choice = "none" /\ Goto(c, "declined") /\ UNCHANGED audit
     \/ l = 1 /\ choice # "none" /\ Goto(c, "guard") /\ UNCHANGED audit
     \/ l = 2 /\ choice = "none" /\ Record(c, "declined", "declined")
     \/ l = 2 /\ choice # "none" /\ Record(c, "approved", "write")

\* Faulty: a card is settled whatever its state.
DecideSettled(c, l, choice) ==
  /\ cards[c][l] # "none"
  /\ Settle(c, l, IF choice = "none" THEN "DECLINED" ELSE "APPROVED")
  /\ granted' = [granted EXCEPT ![c][l] = choice]
  /\ IF Waiting(c, l) THEN Resume(c, l, choice) ELSE UNCHANGED <<pc, audit, sessions>>
  /\ UNCHANGED <<settings, cancelled, judged>>

\* decide(): only a pending request is settled, and its call resumed.  A
\* person's own prompt is answered in the same way.
Decide(c, l, choice) ==
  /\ cards[c][l] = "PENDING"
  /\ Settle(c, l, IF choice = "none" THEN "DECLINED" ELSE "APPROVED")
  /\ granted' = [granted EXCEPT ![c][l] = choice]
  /\ Resume(c, l, choice)
  /\ UNCHANGED <<settings, cancelled, judged>>

\* The 60 seconds of an agent's wait are over.
Expire(c, l) ==
  /\ c \in Agents /\ Waiting(c, l)
  /\ Settle(c, l, "EXPIRED") /\ Goto(c, "expired")
  /\ UNCHANGED <<settings, audit, sessions, granted, cancelled, judged>>

\* The agent cancels its request: a wait ends, and none will begin.  Past the
\* last wait nothing looks at the request's signal any more.
Cancel(c) ==
  /\ c \in Agents \ cancelled /\ pc[c] \in {"level1", "guard", "level2"}
  /\ cancelled' = cancelled \cup {c}
  /\ IF \E l \in 1 .. 2 : Waiting(c, l)
     THEN /\ Settle(c, IF pc[c] = "level1" THEN 1 ELSE 2, "CANCELLED")
          /\ Goto(c, "cancelled")
     ELSE UNCHANGED <<pc, cards>>
  /\ UNCHANGED <<settings, audit, sessions, granted, judged>>

-------------------------------------------------------------------------------
(***************************************************************************)
(* The delivered-object guard                                              *)
(***************************************************************************)
\* decideWrite
Decision(ownership, p) ==
  CASE ownership = "CUSTOM" -> "allow"
    [] p = "allowWithAudit" -> "audit"
    [] ownership = "DELIVERED" /\ p = "block" -> "refuse"
    [] OTHER -> "ask"

\* A definition that cannot be classified has unknown ownership.
Guard(c) ==
  /\ pc[c] = "guard"
  /\ \E ownership \in {Ownership[Key[c]], "UNKNOWN"} :
       LET decision == Decision(ownership, policy[Origin(c)]) IN
       /\ judged' = [judged EXCEPT ![c] = decision]
       /\ CASE decision = "allow" -> Goto(c, "write") /\ UNCHANGED <<audit, cards>>
            [] decision = "refuse" -> Record(c, "refused", "refused") /\ UNCHANGED cards
            [] decision = "audit" -> Record(c, "allowed with audit", "write") /\ UNCHANGED cards
            [] decision = "ask" ->
                 IF [origin |-> Origin(c), key |-> Key[c]] \in sessions
                 THEN Record(c, "approved", "write") /\ UNCHANGED cards
                 ELSE Ask(c, 2) /\ UNCHANGED audit
  /\ UNCHANGED <<settings, sessions, granted, cancelled>>

\* The native writer.
Write(c) ==
  /\ pc[c] = "write"
  /\ Goto(c, "written") \/ Goto(c, "failed")
  /\ UNCHANGED <<settings, audit, answers, cancelled, judged>>

Step(c) == Start(c) \/ Append(c) \/ AppendFails(c) \/ Guard(c) \/ Write(c)

\* Faulty: only the first level has a timer.
TimedOutOnce(c) == Expire(c, 1)

TimedOut(c) == \E l \in 1 .. 2 : Expire(c, l)

Next ==
  \E c \in Calls :
    \/ Step(c) \/ TimedOut(c) \/ Cancel(c)
    \/ \E l \in 1 .. 2 : \E choice \in Choices(l) \cup {"none"} : Decide(c, l, choice)

\* Fairness: what the code runs or awaits without a person ends, and timers
\* fire.  Nobody has to answer.
Spec == Init /\ [][Next]_vars /\ \A c \in Calls : WF_vars(Step(c)) /\ WF_vars(TimedOut(c))

-------------------------------------------------------------------------------
(***************************************************************************)
(* Properties                                                              *)
(***************************************************************************)
Places == {"idle", "level1", "guard", "level2", "append", "write"} \cup Ended
Outcomes == {"none", "refused", "allowed with audit", "approved", "declined"}
Judgements == {"none", "allow", "audit", "refuse", "ask"}
Lines == Calls \X Outcomes

TypeOK ==
  /\ mode \in {"confirm", "allow"} /\ policy \in [Origins -> Policies]
  /\ pc \in [Calls -> Places]
  /\ job \in [Calls -> [outcome : Outcomes, next : Places \cup {"none"}, prior : SUBSET Lines]]
  /\ log \subseteq Lines
  /\ cards \in [Calls -> [1 .. 2 -> States]]
  /\ granted \in [Calls -> [1 .. 2 -> Choices(1) \cup Choices(2) \cup {"none"}]]
  /\ sessions \subseteq [origin : Origins, key : Keys]
  /\ judged \in [Calls -> Judgements]
  /\ cancelled \subseteq Agents /\ overlapped \subseteq Calls /\ struck \subseteq Calls

\* The write of call c rests on an answer a person gave to this call, or to
\* an earlier one of the same origin for the same definition and the session.
Covered(c) ==
  \/ granted[c][2] \in Choices(2)
  \/ \E d \in Calls : Origin(d) = Origin(c) /\ Key[d] = Key[c]
                      /\ granted[d][2] = "Approve for This Session"

\* No write reaches its writer past both levels: an agent's first approval
\* when it is asked for, the policy's refusal, and an approval of its own
\* origin where the policy asks, whatever was answered to whom in between.
WritesAreAuthorised ==
  \A c \in Calls : pc[c] \in {"write", "written", "failed"} =>
    /\ c \in Agents /\ mode = "confirm" => granted[c][1] = "Allow"
    /\ judged[c] \in {"allow", "audit"} \/ (judged[c] = "ask" /\ Covered(c))

\* A card says what became of its request: one that expired, was cancelled or
\* declined wrote nothing and never will, and one that says approved let its
\* call go on; a click on an old card changes neither, and no card asks for
\* an answer that nobody waits for.
CardsTellTheTruth ==
  \A c \in Calls, l \in 1 .. 2 :
    /\ cards[c][l] = "PENDING" <=> Waiting(c, l)
    /\ cards[c][l] \in {"EXPIRED", "CANCELLED", "DECLINED"} =>
         pc[c] \notin {"guard", "level2", "write", "written", "failed"}
    /\ cards[c][l] = "APPROVED" => granted[c][l] \in Choices(l) /\ pc[c] \notin {"idle", "level1"}
    /\ cards[c][2] = "APPROVED" => pc[c] \in {"append", "write", "written", "failed"}

\* What has to be in the audit log: every refusal, approval, decline and
\* recorded write.
MustLog(c) ==
  \/ pc[c] \in {"write", "written", "failed"} /\ judged[c] # "allow"
  \/ pc[c] = "refused"
  \/ pc[c] = "declined" /\ judged[c] = "ask"

\* docs/CUSTOMIZATION.md says so without exception.
AuditHasEveryLine == \A c \in Calls : MustLog(c) => c \in Named(log)

\* A line is missing only where two appends met, where the append failed that
\* was to write it, or where a later append could not read the file or left it
\* cut short: it is written before the guarded write begins, and no other
\* append drops it.
AuditIsComplete ==
  \A c \in Calls : MustLog(c) => c \in overlapped \cup struck \cup Named(log)

\* No tool call of an agent waits for ever: every wait for a person has a timer.
AgentCallsEnd == \A c \in Agents : pc[c] # "idle" ~> pc[c] \in Ended
===============================================================================
