------------------------- MODULE WriteApprovals_proofs -------------------------
(***************************************************************************)
(* Proofs about write approvals, the guard and its audit log, for any      *)
(* calls, definitions and policies.                                        *)
(***************************************************************************)
EXTENDS WriteApprovals, TLAPS

\* The call is past the guard, or returns to the write when it has its line.
Going(c) ==
  \/ pc[c] \in {"write", "written", "failed"}
  \/ pc[c] = "append" /\ job[c].next = "write"

\* An agent's call is past the first level only with its approval.
FirstLevel(c) ==
  pc[c] \in {"guard", "level2", "append", "write", "written", "failed"} =>
    (c \in Agents /\ mode = "confirm" => granted[c][1] = "Allow")

\* What the guard said of a call, and what it rests on.
Judged(c) ==
  /\ pc[c] \in {"idle", "level1", "guard"} => judged[c] = "none"
  /\ pc[c] = "level2" => judged[c] = "ask"
  /\ Going(c) => judged[c] \in {"allow", "audit"} \/ (judged[c] = "ask" /\ Covered(c))

\* A call that has not had its answer has no trace of one.
Unanswered(c) ==
  /\ pc[c] \in {"idle", "level1", "guard", "level2"} => granted[c][2] = "none"
  /\ pc[c] \in {"idle", "level1", "guard"} => cards[c][2] = "none"
  /\ pc[c] = "idle" => cards[c][1] = "none"

\* The state of a card against the place of its call.
Card(c, l) ==
  /\ cards[c][l] = "PENDING" <=> Waiting(c, l)
  /\ cards[c][l] \in {"EXPIRED", "CANCELLED", "DECLINED"} =>
       \/ pc[c] \in {"expired", "cancelled", "declined"}
       \/ pc[c] = "append" /\ job[c].next = "declined"
  /\ cards[c][l] = "APPROVED" => granted[c][l] \in Choices(l) /\ pc[c] \notin {"idle", "level1"}
  /\ l = 2 /\ cards[c][l] = "APPROVED" => Going(c)

\* An append returns to the write or to the end of its call.
Returns(c) == pc[c] = "append" => job[c].next \in {"write", "refused", "declined"}

CallOk(c) == FirstLevel(c) /\ Judged(c) /\ Unanswered(c) /\ Returns(c) /\ Card(c, 1) /\ Card(c, 2)

\* An approval for the session was given to a call of that origin.
SessionsAreGiven ==
  \A s \in sessions : \E d \in Calls :
    Origin(d) = s.origin /\ Key[d] = s.key /\ granted[d][2] = "Approve for This Session"

Safe == TypeOK /\ SessionsAreGiven /\ \A c \in Calls : CallOk(c)

\* Two calls that append at once both count as overlapped; what one of them
\* read agrees with the log on every call that is not, but for those whose
\* line a failure may have cost.
Excused == overlapped \cup struck
Appends ==
  /\ \A c, d \in Appending : c # d => c \in overlapped
  /\ \A d \in Calls \ Excused, c \in Appending :
       d # c => (d \in Named(job[c].prior) <=> d \in Named(log))

\* Who is past the guard or the end for a reason that has a line.
IInv == Safe /\ Appends /\ AuditIsComplete

-------------------------------------------------------------------------------
(***************************************************************************)
(* Types                                                                   *)
(***************************************************************************)
LEMMA InitTypeOK == Init => TypeOK
<1> SUFFICES ASSUME Init PROVE TypeOK
  OBVIOUS
<1>1. mode \in {"confirm", "allow"} /\ policy \in [Origins -> Policies] /\ pc \in [Calls -> Places]
  BY DEF Init, Places
<1>2. job \in [Calls -> [outcome : Outcomes, next : Places \cup {"none"}, prior : SUBSET Lines]]
  BY DEF Init, NoJob, Outcomes
<1>3. cards \in [Calls -> [1 .. 2 -> States]] /\ judged \in [Calls -> Judgements]
  BY DEF Init, States, Judgements
<1>4. granted \in [Calls -> [1 .. 2 -> Choices(1) \cup Choices(2) \cup {"none"}]]
  BY DEF Init
<1> QED
  BY <1>1, <1>2, <1>3, <1>4 DEF Init, TypeOK

\* What the parts of an action leave behind.
LEMMA GotoStep ==
  ASSUME TypeOK, NEW c \in Calls, NEW p \in Places, Goto(c, p)
  PROVE  pc' \in [Calls -> Places] /\ pc'[c] = p /\ \A d \in Calls \ {c} : pc'[d] = pc[d]
BY DEF TypeOK, Goto

LEMMA SettleStep ==
  ASSUME TypeOK, NEW c \in Calls, NEW l \in {1, 2}, NEW s \in States, Settle(c, l, s)
  PROVE  /\ cards' \in [Calls -> [1 .. 2 -> States]] /\ cards'[c][l] = s
         /\ l = 1 => cards'[c][2] = cards[c][2]
         /\ l = 2 => cards'[c][1] = cards[c][1]
         /\ \A d \in Calls \ {c} : cards'[d] = cards[d]
<1>1. cards \in [Calls -> [1 .. 2 -> States]] /\ 1 .. 2 = {1, 2}
  BY DEF TypeOK
<1>2. cards' = [cards EXCEPT ![c] = [cards[c] EXCEPT ![l] = s]]
  BY DEF Settle
<1>3. [cards[c] EXCEPT ![l] = s] \in [1 .. 2 -> States]
  BY <1>1
<1>4. cards[c] \in [1 .. 2 -> States]
  BY <1>1
<1>5. cards' \in [Calls -> [1 .. 2 -> States]] /\ cards'[c] = [cards[c] EXCEPT ![l] = s]
      /\ \A d \in Calls \ {c} : cards'[d] = cards[d]
  BY <1>1, <1>2, <1>3
<1>6. [cards[c] EXCEPT ![l] = s][l] = s
      /\ (l = 1 => [cards[c] EXCEPT ![l] = s][2] = cards[c][2])
      /\ (l = 2 => [cards[c] EXCEPT ![l] = s][1] = cards[c][1])
  BY <1>1, <1>4
<1> QED
  BY <1>5, <1>6

LEMMA RecordStep ==
  ASSUME TypeOK, NEW c \in Calls, NEW o \in Outcomes, NEW p \in Places, Record(c, o, p)
  PROVE  /\ pc' \in [Calls -> Places] /\ pc'[c] = "append" /\ \A d \in Calls \ {c} : pc'[d] = pc[d]
         /\ job' \in [Calls -> [outcome : Outcomes, next : Places \cup {"none"}, prior : SUBSET Lines]]
         /\ job'[c].next = p /\ \A d \in Calls \ {c} : job'[d] = job[d]
         /\ \/ job'[c].prior = log /\ struck' = struck
            \/ job'[c].prior = {} /\ struck' = struck \cup Named(log)
         /\ log' = log /\ overlapped' \subseteq Calls /\ struck' \subseteq Calls
         /\ overlapped' = IF Appending = {} THEN overlapped ELSE overlapped \cup Appending \cup {c}
<1>0. PICK prior \in {log, {}} :
        /\ job' = [job EXCEPT ![c] = [outcome |-> o, next |-> p, prior |-> prior]]
        /\ struck' = IF prior = log THEN struck ELSE struck \cup Named(log)
  BY DEF Record
<1> DEFINE new == [outcome |-> o, next |-> p, prior |-> prior]
<1>1. new \in [outcome : Outcomes, next : Places \cup {"none"}, prior : SUBSET Lines]
  BY DEF TypeOK
<1>2. "append" \in Places
  BY DEF Places
<1>3. Goto(c, "append")
  BY DEF Record
<1>4. pc' \in [Calls -> Places] /\ pc'[c] = "append" /\ \A d \in Calls \ {c} : pc'[d] = pc[d]
  BY <1>2, <1>3, GotoStep
<1>5. job' \in [Calls -> [outcome : Outcomes, next : Places \cup {"none"}, prior : SUBSET Lines]]
      /\ job'[c] = new /\ \A d \in Calls \ {c} : job'[d] = job[d]
  BY <1>0, <1>1 DEF TypeOK
<1>6. log' = log
      /\ overlapped' = IF Appending = {} THEN overlapped ELSE overlapped \cup Appending \cup {c}
  BY DEF Record
<1>7. overlapped' \subseteq Calls
  BY <1>6 DEF TypeOK, Appending
<1>8. struck' \subseteq Calls
  BY <1>0 DEF TypeOK, Named, Lines
<1> QED
  BY <1>0, <1>4, <1>5, <1>6, <1>7, <1>8

\* The file has what was read and a line of the call; or the append failed.
LEMMA AppendStep ==
  ASSUME TypeOK, NEW c \in Calls, Append(c) \/ AppendFails(c), job[c].next \in Places
  PROVE  /\ pc' \in [Calls -> Places] /\ pc'[c] = job[c].next /\ \A d \in Calls \ {c} : pc'[d] = pc[d]
         /\ job' \in [Calls -> [outcome : Outcomes, next : Places \cup {"none"}, prior : SUBSET Lines]]
         /\ \A d \in Calls \ {c} : job'[d] = job[d]
         /\ log' \subseteq Lines /\ struck' \subseteq Calls
         /\ \/ Named(log') = Named(job[c].prior) \cup {c} /\ struck' = struck
            \/ log' = log /\ struck' = struck \cup {c}
            \/ /\ Named(log') \subseteq Named(job[c].prior)
               /\ struck' = struck \cup {c} \cup Named(log) \cup Named(job[c].prior)
<1>1. NoJob \in [outcome : Outcomes, next : Places \cup {"none"}, prior : SUBSET Lines]
  BY DEF NoJob, Outcomes
<1>2. job[c] \in [outcome : Outcomes, next : Places \cup {"none"}, prior : SUBSET Lines]
  BY DEF TypeOK
<1>3. job' \in [Calls -> [outcome : Outcomes, next : Places \cup {"none"}, prior : SUBSET Lines]]
      /\ \A d \in Calls \ {c} : job'[d] = job[d]
  BY <1>1 DEF TypeOK, Append, AppendFails
<1>4. Goto(c, job[c].next)
  BY DEF Append, AppendFails
<1>5. pc' \in [Calls -> Places] /\ pc'[c] = job[c].next /\ \A d \in Calls \ {c} : pc'[d] = pc[d]
  BY <1>4, GotoStep
<1>6. CASE Append(c)
  <2>1. log' = job[c].prior \cup {<<c, job[c].outcome>>} /\ struck' = struck
    BY <1>6 DEF Append, Line
  <2>2. <<c, job[c].outcome>> \in Lines /\ <<c, job[c].outcome>>[1] = c
    BY <1>2 DEF Lines
  <2>3. Named(log') = Named(job[c].prior) \cup {c}
    BY <2>1, <2>2 DEF Named
  <2>4. log' \subseteq Lines /\ struck' \subseteq Calls
    BY <1>2, <2>1, <2>2 DEF TypeOK
  <2> QED
    BY <1>3, <1>5, <2>1, <2>3, <2>4
<1>7. CASE AppendFails(c)
  <2>1. /\ log' = log \/ log' \subseteq job[c].prior
        /\ struck' = struck \cup {c} \cup (IF log' = log THEN {} ELSE Named(log \cup job[c].prior))
    BY <1>7 DEF AppendFails
  <2>2. log' \subseteq Lines /\ log \subseteq Lines /\ job[c].prior \subseteq Lines
    BY <1>2, <2>1 DEF TypeOK
  <2>3. /\ Named(log \cup job[c].prior) = Named(log) \cup Named(job[c].prior)
        /\ Named(log) \subseteq Calls /\ Named(job[c].prior) \subseteq Calls
        /\ log' \subseteq job[c].prior => Named(log') \subseteq Named(job[c].prior)
    BY <2>2 DEF Named, Lines
  <2>4. struck' \subseteq Calls
    BY <2>1, <2>3 DEF TypeOK
  <2>5. CASE log' = log
    BY <1>3, <1>5, <2>1, <2>2, <2>4, <2>5
  <2>6. CASE log' # log
    BY <1>3, <1>5, <2>1, <2>2, <2>3, <2>4, <2>6
  <2> QED
    BY <2>5, <2>6
<1> QED
  BY <1>6, <1>7

-------------------------------------------------------------------------------
(***************************************************************************)
(* Who may go on, and what the cards say                                   *)
(***************************************************************************)
\* It holds initially.
LEMMA InitSafe == Init => Safe
<1> SUFFICES ASSUME Init PROVE Safe
  OBVIOUS
<1>1. TypeOK
  BY InitTypeOK
<1>2. ASSUME NEW c \in Calls PROVE CallOk(c)
  <2>1. /\ pc[c] = "idle" /\ judged[c] = "none"
        /\ cards[c][1] = "none" /\ cards[c][2] = "none" /\ granted[c][2] = "none"
    BY DEF Init
  <2> QED
    BY <2>1 DEF CallOk, FirstLevel, Judged, Unanswered, Card, Returns, Going, Waiting
<1>3. SessionsAreGiven
  BY DEF Init, SessionsAreGiven
<1> QED
  BY <1>1, <1>2, <1>3 DEF Safe

\* A step of one call leaves the others as they should be: an answer at the
\* second level, once given, is not taken back.
LEMMA OthersOk ==
  ASSUME Safe, NEW c \in Calls, UNCHANGED mode,
         \A d \in Calls \ {c} : /\ pc'[d] = pc[d] /\ job'[d] = job[d] /\ cards'[d] = cards[d]
                                /\ granted'[d] = granted[d] /\ judged'[d] = judged[d],
         granted[c][2] = "none" \/ granted'[c][2] = granted[c][2]
  PROVE  /\ \A d \in Calls \ {c} : CallOk(d)'
         /\ UNCHANGED sessions => SessionsAreGiven'
<1>1. \A d \in Calls : granted[d][2] # "none" => granted'[d][2] = granted[d][2]
  OBVIOUS
<1>2. Choices(2) = {"Approve", "Approve for This Session"}
  BY DEF Choices
<1>3. \A d \in Calls : Covered(d) => Covered(d)'
  BY <1>1, <1>2 DEF Covered, Origin
<1>4. ASSUME NEW d \in Calls \ {c} PROVE CallOk(d)'
  <2>1. CallOk(d)
    BY DEF Safe
  <2>2. /\ pc'[d] = pc[d] /\ job'[d] = job[d] /\ cards'[d] = cards[d]
        /\ granted'[d] = granted[d] /\ judged'[d] = judged[d] /\ mode' = mode
    OBVIOUS
  <2>3. FirstLevel(d)' /\ Unanswered(d)' /\ Returns(d)' /\ Going(d)' = Going(d)
    BY <2>1, <2>2 DEF CallOk, FirstLevel, Unanswered, Returns, Going
  <2>4. Judged(d)'
    BY <1>3, <2>1, <2>2, <2>3 DEF CallOk, Judged
  <2>5. Card(d, 1)' /\ Card(d, 2)'
    BY <2>1, <2>2, <2>3 DEF CallOk, Card, Waiting
  <2> QED
    BY <2>3, <2>4, <2>5 DEF CallOk
<1>5. ASSUME UNCHANGED sessions PROVE SessionsAreGiven'
  <2>1. SUFFICES ASSUME NEW s \in sessions
        PROVE \E d \in Calls : /\ Origin(d) = s.origin /\ Key[d] = s.key
                               /\ granted'[d][2] = "Approve for This Session"
    BY <1>5 DEF SessionsAreGiven, Origin
  <2>2. PICK d \in Calls : /\ Origin(d) = s.origin /\ Key[d] = s.key
                           /\ granted[d][2] = "Approve for This Session"
    BY DEF Safe, SessionsAreGiven
  <2>3. granted'[d][2] = "Approve for This Session"
    BY <1>1, <2>2
  <2> QED
    BY <2>2, <2>3
<1> QED
  BY <1>4, <1>5

\* A call that is over has nothing more to keep than its cards.
LEMMA EndedOk ==
  ASSUME NEW c \in Calls, pc'[c] \in {"expired", "cancelled", "declined", "refused"},
         cards'[c][1] # "PENDING" /\ cards'[c][2] \notin {"PENDING", "APPROVED"},
         cards'[c][1] = "APPROVED" => granted'[c][1] \in Choices(1),
         pc'[c] = "refused" =>
           cards'[c][1] \in {"none", "APPROVED"} /\ cards'[c][2] = "none"
  PROVE  CallOk(c)'
<1>1. pc'[c] \notin {"guard", "level2", "append", "write", "written", "failed", "idle", "level1"}
  OBVIOUS
<1>2. ~Going(c)' /\ ~Waiting(c, 1)' /\ ~Waiting(c, 2)'
  BY <1>1 DEF Going, Waiting
<1>3. Card(c, 1)' /\ Card(c, 2)'
  BY <1>1, <1>2 DEF Card
<1> QED
  BY <1>1, <1>2, <1>3 DEF CallOk, FirstLevel, Judged, Unanswered, Returns

\* approve() of the write tools, or a person's save, begins.
LEMMA StartSafe == ASSUME Safe, NEW c \in Calls, Start(c) PROVE Safe'
<1> USE DEF CallOk, FirstLevel, Judged, Unanswered, Card, Returns, Going, Waiting
<1>0. TypeOK /\ CallOk(c)
  BY DEF Safe
<1>1. /\ UNCHANGED <<mode, policy, job, log, overlapped, struck, sessions, granted, cancelled, judged>>
      /\ pc[c] = "idle" /\ judged[c] = "none" /\ granted[c][2] = "none"
      /\ cards[c][1] = "none" /\ cards[c][2] = "none"
  BY <1>0 DEF Start, settings, audit
<1>2. ASSUME Goto(c, "cancelled"), UNCHANGED cards PROVE Safe'
  <2>1. pc' \in [Calls -> Places] /\ pc'[c] = "cancelled" /\ \A d \in Calls \ {c} : pc'[d] = pc[d]
    BY <1>0, <1>2, GotoStep DEF Places, Ended
  <2>2. TypeOK'
    BY <1>0, <1>1, <1>2, <2>1 DEF TypeOK
  <2>3. CallOk(c)'
    BY <1>1, <1>2, <2>1, EndedOk
  <2> QED
    BY <1>1, <1>2, <2>1, <2>2, <2>3, OthersOk DEF Safe
<1>3. ASSUME Goto(c, "level1"), Settle(c, 1, "PENDING") PROVE Safe'
  <2>1. pc' \in [Calls -> Places] /\ pc'[c] = "level1" /\ \A d \in Calls \ {c} : pc'[d] = pc[d]
    BY <1>0, <1>3, GotoStep DEF Places
  <2>2. /\ cards' \in [Calls -> [1 .. 2 -> States]] /\ cards'[c][1] = "PENDING"
        /\ cards'[c][2] = cards[c][2] /\ \A d \in Calls \ {c} : cards'[d] = cards[d]
    BY <1>0, <1>3, SettleStep DEF States
  <2>3. TypeOK'
    BY <1>0, <1>1, <2>1, <2>2 DEF TypeOK
  <2>4. CallOk(c)'
    BY <1>1, <2>1, <2>2
  <2> QED
    BY <1>1, <2>1, <2>2, <2>3, <2>4, OthersOk DEF Safe
<1>4. ASSUME Goto(c, "guard"), UNCHANGED cards, ~(c \in Agents /\ mode = "confirm") PROVE Safe'
  <2>1. pc' \in [Calls -> Places] /\ pc'[c] = "guard" /\ \A d \in Calls \ {c} : pc'[d] = pc[d]
    BY <1>0, <1>4, GotoStep DEF Places
  <2>2. TypeOK'
    BY <1>0, <1>1, <1>4, <2>1 DEF TypeOK
  <2>3. CallOk(c)'
    BY <1>1, <1>4, <2>1
  <2> QED
    BY <1>1, <1>4, <2>1, <2>2, <2>3, OthersOk DEF Safe
<1> QED
  BY <1>2, <1>3, <1>4 DEF Start, Ask

\* An append returns: nothing but the log and the place changes.
LEMMA AppendSafe == ASSUME Safe, NEW c \in Calls, Append(c) \/ AppendFails(c) PROVE Safe'
<1> USE DEF CallOk, FirstLevel, Judged, Unanswered, Card, Returns, Going, Waiting
<1>0. TypeOK /\ CallOk(c)
  BY DEF Safe
<1>1. /\ UNCHANGED <<mode, policy, cards, sessions, granted, cancelled, judged, overlapped>>
      /\ pc[c] = "append" /\ job[c].next \in {"write", "refused", "declined"}
  BY <1>0 DEF Append, AppendFails, settings, answers
<1>2. job[c].next \in Places
  BY <1>1 DEF Places, Ended
<1>3. /\ pc' \in [Calls -> Places] /\ pc'[c] = job[c].next /\ \A d \in Calls \ {c} : pc'[d] = pc[d]
      /\ job' \in [Calls -> [outcome : Outcomes, next : Places \cup {"none"}, prior : SUBSET Lines]]
      /\ \A d \in Calls \ {c} : job'[d] = job[d]
      /\ log' \subseteq Lines /\ struck' \subseteq Calls
  BY <1>0, <1>2, AppendStep
<1>4. TypeOK'
  BY <1>0, <1>1, <1>3 DEF TypeOK
<1>5. Covered(c)' = Covered(c)
  BY <1>1 DEF Covered, Origin
<1>6. CallOk(c)'
  <2>1. CASE pc'[c] = "write"
    BY <1>0, <1>1, <1>3, <1>5, <2>1
  <2>2. CASE pc'[c] # "write"
    BY <1>0, <1>1, <1>3, <2>2
  <2> QED
    BY <2>1, <2>2
<1> QED
  BY <1>1, <1>3, <1>4, <1>6, OthersOk DEF Safe

\* The native write.
LEMMA WriteSafe == ASSUME Safe, NEW c \in Calls, Write(c) PROVE Safe'
<1> USE DEF CallOk, FirstLevel, Judged, Unanswered, Card, Returns, Going, Waiting
<1>0. TypeOK /\ CallOk(c)
  BY DEF Safe
<1>1. /\ UNCHANGED <<mode, policy, cards, sessions, granted, cancelled, judged, job, log, overlapped, struck>>
      /\ pc[c] = "write"
  BY DEF Write, settings, answers, audit
<1>2. pc' \in [Calls -> Places] /\ pc'[c] \in {"written", "failed"} /\ \A d \in Calls \ {c} : pc'[d] = pc[d]
  BY <1>0, GotoStep DEF Write, Places, Ended
<1>3. TypeOK'
  BY <1>0, <1>1, <1>2 DEF TypeOK
<1>4. Covered(c)' = Covered(c)
  BY <1>1 DEF Covered, Origin
<1>5. CallOk(c)'
  BY <1>0, <1>1, <1>2, <1>4
<1> QED
  BY <1>1, <1>2, <1>3, <1>5, OthersOk DEF Safe

\* A wait for a person ends without an answer: its card says why.
LEMMA EndOfWait ==
  ASSUME Safe, NEW c \in Calls, NEW l \in {1, 2}, Waiting(c, l),
         NEW end \in {"expired", "cancelled"}, Goto(c, end),
         NEW s \in {"EXPIRED", "CANCELLED"}, Settle(c, l, s),
         UNCHANGED <<mode, policy, job, log, overlapped, struck, sessions, granted, judged>>,
         cancelled' \subseteq Agents
  PROVE  Safe'
<1> USE DEF CallOk, FirstLevel, Judged, Unanswered, Card, Returns, Going, Waiting
<1>0. TypeOK /\ CallOk(c)
  BY DEF Safe
<1>1. pc' \in [Calls -> Places] /\ pc'[c] = end /\ \A d \in Calls \ {c} : pc'[d] = pc[d]
  BY <1>0, GotoStep DEF Places, Ended
<1>2. /\ cards' \in [Calls -> [1 .. 2 -> States]] /\ cards'[c][l] = s
      /\ l = 1 => cards'[c][2] = cards[c][2]
      /\ l = 2 => cards'[c][1] = cards[c][1]
      /\ \A d \in Calls \ {c} : cards'[d] = cards[d]
  BY <1>0, SettleStep DEF States
<1>3. TypeOK'
  BY <1>0, <1>1, <1>2 DEF TypeOK
<1>4. CallOk(c)'
  BY <1>0, <1>1, <1>2
<1> QED
  BY <1>1, <1>2, <1>3, <1>4, OthersOk DEF Safe

LEMMA ExpireSafe == ASSUME Safe, NEW c \in Calls, NEW l \in 1 .. 2, Expire(c, l) PROVE Safe'
<1>1. l \in {1, 2} /\ TypeOK
  BY DEF Safe
<1>2. Waiting(c, l) /\ Goto(c, "expired") /\ Settle(c, l, "EXPIRED")
      /\ UNCHANGED <<mode, policy, job, log, overlapped, struck, sessions, granted, judged, cancelled>>
  BY DEF Expire, settings, audit
<1> QED
  BY <1>1, <1>2, EndOfWait DEF TypeOK

LEMMA CancelSafe == ASSUME Safe, NEW c \in Calls, Cancel(c) PROVE Safe'
<1>0. TypeOK
  BY DEF Safe
<1>1. /\ UNCHANGED <<mode, policy, job, log, overlapped, struck, sessions, granted, judged>>
      /\ cancelled' \subseteq Agents /\ pc[c] # "idle"
  BY <1>0 DEF Cancel, settings, audit, TypeOK
<1>2. ASSUME NEW l \in {1, 2}, Waiting(c, l) PROVE Safe'
  <2>1. Settle(c, l, "CANCELLED") /\ Goto(c, "cancelled")
    BY <1>2 DEF Cancel, Waiting
  <2> QED
    BY <1>1, <1>2, <2>1, EndOfWait
<1>3. ASSUME UNCHANGED <<pc, cards>> PROVE Safe'
  <2>1. TypeOK'
    BY <1>0, <1>1, <1>3 DEF TypeOK
  <2>2. CallOk(c)'
    <3>1. Covered(c)' = Covered(c)
      BY <1>1 DEF Covered, Origin
    <3> QED
      BY <1>1, <1>3, <3>1
      DEF Safe, CallOk, FirstLevel, Judged, Unanswered, Card, Returns, Going, Waiting
  <2> QED
    BY <1>1, <1>3, <2>1, <2>2, OthersOk DEF Safe
<1> QED
  BY <1>2, <1>3 DEF Cancel

\* The guard decides, and asks where the policy says so.
LEMMA GuardSafe == ASSUME Safe, NEW c \in Calls, Guard(c) PROVE Safe'
<1> USE DEF CallOk, FirstLevel, Judged, Unanswered, Card, Returns, Going, Waiting
<1>0. TypeOK /\ CallOk(c) /\ cards[c][1] \in States
  BY DEF Safe, TypeOK
<1>1. /\ UNCHANGED <<mode, policy, sessions, granted, cancelled>> /\ pc[c] = "guard"
      /\ granted[c][2] = "none" /\ cards[c][2] = "none"
      /\ cards[c][1] \in {"none", "APPROVED"}
      /\ cards[c][1] = "APPROVED" => granted[c][1] \in Choices(1)
  BY <1>0 DEF Guard, settings, States
<1>2. PICK ownership \in {Ownership[Key[c]], "UNKNOWN"} :
        LET decision == Decision(ownership, policy[Origin(c)]) IN
        /\ judged' = [judged EXCEPT ![c] = decision]
        /\ CASE decision = "allow" -> Goto(c, "write") /\ UNCHANGED <<audit, cards>>
             [] decision = "refuse" -> Record(c, "refused", "refused") /\ UNCHANGED cards
             [] decision = "audit" -> Record(c, "allowed with audit", "write") /\ UNCHANGED cards
             [] decision = "ask" ->
                  IF [origin |-> Origin(c), key |-> Key[c]] \in sessions
                  THEN Record(c, "approved", "write") /\ UNCHANGED cards
                  ELSE Ask(c, 2) /\ UNCHANGED audit
  BY DEF Guard
<1> DEFINE decision == Decision(ownership, policy[Origin(c)])
<1>3. decision \in {"allow", "refuse", "audit", "ask"}
  BY DEF Decision
<1> HIDE DEF decision
<1>4. /\ judged' \in [Calls -> Judgements] /\ judged'[c] = decision
      /\ \A d \in Calls \ {c} : judged'[d] = judged[d]
  BY <1>0, <1>2, <1>3 DEF decision, TypeOK, Judgements
\* A line is appended first, after which the call goes on to p.
<1>5. ASSUME NEW o \in Outcomes, NEW p \in {"write", "refused"}, Record(c, o, p), UNCHANGED cards,
             p = "write" => decision = "audit" \/ (decision = "ask" /\ Covered(c))
      PROVE  Safe'
  <2>1. p \in Places
    BY DEF Places, Ended
  <2>2. /\ pc' \in [Calls -> Places] /\ pc'[c] = "append" /\ \A d \in Calls \ {c} : pc'[d] = pc[d]
        /\ job' \in [Calls -> [outcome : Outcomes, next : Places \cup {"none"}, prior : SUBSET Lines]]
        /\ job'[c].next = p /\ \A d \in Calls \ {c} : job'[d] = job[d]
        /\ log' = log /\ overlapped' \subseteq Calls /\ struck' \subseteq Calls
    BY <1>0, <1>5, <2>1, RecordStep
  <2>3. TypeOK'
    BY <1>0, <1>1, <1>4, <1>5, <2>2 DEF TypeOK
  <2>4. Covered(c)' = Covered(c)
    BY <1>1 DEF Covered, Origin
  <2>5. CallOk(c)'
    BY <1>0, <1>1, <1>4, <1>5, <2>2, <2>4
  <2> QED
    BY <1>1, <1>4, <1>5, <2>2, <2>3, <2>5, OthersOk DEF Safe
<1>6. CASE decision = "allow"
  <2>1. Goto(c, "write") /\ UNCHANGED <<job, log, overlapped, struck, cards>>
    BY <1>2, <1>6 DEF decision, audit
  <2>2. pc' \in [Calls -> Places] /\ pc'[c] = "write" /\ \A d \in Calls \ {c} : pc'[d] = pc[d]
    BY <1>0, <2>1, GotoStep DEF Places
  <2>3. TypeOK'
    BY <1>0, <1>1, <1>4, <2>1, <2>2 DEF TypeOK
  <2>4. CallOk(c)'
    BY <1>0, <1>1, <1>4, <1>6, <2>1, <2>2
  <2> QED
    BY <1>1, <1>4, <2>1, <2>2, <2>3, <2>4, OthersOk DEF Safe
<1>7. CASE decision = "refuse"
  <2>1. Record(c, "refused", "refused") /\ UNCHANGED cards
    BY <1>2, <1>7 DEF decision
  <2> QED
    BY <1>5, <2>1 DEF Outcomes
<1>8. CASE decision = "audit"
  <2>1. Record(c, "allowed with audit", "write") /\ UNCHANGED cards
    BY <1>2, <1>8 DEF decision
  <2> QED
    BY <1>5, <1>8, <2>1 DEF Outcomes
<1>9. CASE decision = "ask"
  <2>0. IF [origin |-> Origin(c), key |-> Key[c]] \in sessions
        THEN Record(c, "approved", "write") /\ UNCHANGED cards
        ELSE Ask(c, 2) /\ UNCHANGED audit
    BY <1>2, <1>9 DEF decision
  <2>1. CASE [origin |-> Origin(c), key |-> Key[c]] \in sessions
    <3> DEFINE kept == [origin |-> Origin(c), key |-> Key[c]]
    <3>0. kept \in sessions /\ kept.origin = Origin(c) /\ kept.key = Key[c]
      BY <2>1
    <3>a. PICK d \in Calls : /\ Origin(d) = kept.origin /\ Key[d] = kept.key
                             /\ granted[d][2] = "Approve for This Session"
      BY <3>0, Zenon DEF Safe, SessionsAreGiven
    <3>1. Covered(c)
      BY <3>0, <3>a DEF Covered
    <3> QED
      BY <1>5, <1>9, <2>0, <2>1, <3>1 DEF Outcomes
  <2>2. ASSUME Goto(c, "cancelled"), UNCHANGED <<cards, job, log, overlapped, struck>> PROVE Safe'
    <3>1. pc' \in [Calls -> Places] /\ pc'[c] = "cancelled" /\ \A d \in Calls \ {c} : pc'[d] = pc[d]
      BY <1>0, <2>2, GotoStep DEF Places, Ended
    <3>2. TypeOK'
      BY <1>0, <1>1, <1>4, <2>2, <3>1 DEF TypeOK
    <3>3. CallOk(c)'
      <4>1. cards'[c][1] \in {"none", "APPROVED"} /\ cards'[c][2] = "none"
            /\ (cards'[c][1] = "APPROVED" => granted'[c][1] \in Choices(1))
        BY <1>1, <2>2
      <4> QED
        BY <3>1, <4>1, EndedOk
    <3> QED
      BY <1>1, <1>4, <2>2, <3>1, <3>2, <3>3, OthersOk DEF Safe
  <2>3. ASSUME Goto(c, "level2"), Settle(c, 2, "PENDING"), UNCHANGED <<job, log, overlapped, struck>> PROVE Safe'
    <3>1. pc' \in [Calls -> Places] /\ pc'[c] = "level2" /\ \A d \in Calls \ {c} : pc'[d] = pc[d]
      BY <1>0, <2>3, GotoStep DEF Places
    <3>2. /\ cards' \in [Calls -> [1 .. 2 -> States]] /\ cards'[c][2] = "PENDING"
          /\ cards'[c][1] = cards[c][1] /\ \A d \in Calls \ {c} : cards'[d] = cards[d]
      BY <1>0, <2>3, SettleStep DEF States
    <3>3. TypeOK'
      BY <1>0, <1>1, <1>4, <2>3, <3>1, <3>2 DEF TypeOK
    <3>4. CallOk(c)'
      BY <1>0, <1>1, <1>4, <1>9, <3>1, <3>2
    <3> QED
      BY <1>1, <1>4, <2>3, <3>1, <3>2, <3>3, <3>4, OthersOk DEF Safe
  <2> QED
    BY <2>0, <2>1, <2>2, <2>3 DEF Ask, audit
<1> QED
  BY <1>3, <1>6, <1>7, <1>8, <1>9

\* A person answers a pending card, and the call goes on with the answer.
LEMMA DecideSafe ==
  ASSUME Safe, NEW c \in Calls, NEW l \in 1 .. 2, NEW choice \in Choices(l) \cup {"none"},
         Decide(c, l, choice)
  PROVE  Safe'
<1> USE DEF CallOk, FirstLevel, Judged, Unanswered, Card, Returns, Going, Waiting
<1> DEFINE state == IF choice = "none" THEN "DECLINED" ELSE "APPROVED"
<1>0. TypeOK /\ CallOk(c) /\ l \in {1, 2} /\ cards[c] \in [1 .. 2 -> States]
  BY DEF Safe, TypeOK
<1>1. /\ UNCHANGED <<mode, policy, cancelled, judged>> /\ cards[c][l] = "PENDING"
      /\ granted' = [granted EXCEPT ![c][l] = choice] /\ Settle(c, l, state) /\ Resume(c, l, choice)
  BY DEF Decide, settings
<1>2. pc[c] = (IF l = 1 THEN "level1" ELSE "level2") /\ granted[c][2] = "none"
  BY <1>0, <1>1
<1>3. /\ cards' \in [Calls -> [1 .. 2 -> States]] /\ cards'[c][l] = state
      /\ l = 1 => cards'[c][2] = cards[c][2]
      /\ l = 2 => cards'[c][1] = cards[c][1]
      /\ \A d \in Calls \ {c} : cards'[d] = cards[d]
  BY <1>0, <1>1, SettleStep DEF States
<1>4. /\ granted' \in [Calls -> [1 .. 2 -> Choices(1) \cup Choices(2) \cup {"none"}]]
      /\ granted'[c][l] = choice
      /\ l = 1 => granted'[c][2] = granted[c][2]
      /\ l = 2 => granted'[c][1] = granted[c][1]
      /\ \A d \in Calls \ {c} : granted'[d] = granted[d]
  <2> DEFINE Answers == Choices(1) \cup Choices(2) \cup {"none"}
             row == [granted[c] EXCEPT ![l] = choice]
  <2>1. granted \in [Calls -> [1 .. 2 -> Answers]] /\ choice \in Answers
    BY <1>0 DEF TypeOK
  <2> HIDE DEF Answers
  <2>2. granted[c] \in [1 .. 2 -> Answers]
    BY <2>1
  <2>3. row \in [1 .. 2 -> Answers] /\ row[l] = choice
        /\ (l = 1 => row[2] = granted[c][2]) /\ (l = 2 => row[1] = granted[c][1])
    BY <1>0, <2>1, <2>2
  <2>4. granted' = [granted EXCEPT ![c] = row]
    BY <1>1
  <2> HIDE DEF row
  <2>5. granted' \in [Calls -> [1 .. 2 -> Answers]] /\ granted'[c] = row
        /\ \A d \in Calls \ {c} : granted'[d] = granted[d]
    BY <2>1, <2>3, <2>4
  <2> QED
    BY <2>3, <2>5 DEF Answers
<1>5. sessions' \subseteq [origin : Origins, key : Keys] /\ SessionsAreGiven'
  <2> DEFINE kept == [origin |-> Origin(c), key |-> Key[c]]
  <2>1. /\ sessions' = sessions \/ (sessions' = sessions \cup {kept} /\ choice = "Approve for This Session")
    BY <1>1 DEF Resume, Kept
  <2>2. kept \in [origin : Origins, key : Keys] /\ kept.origin = Origin(c) /\ kept.key = Key[c]
    BY CallsAssumption DEF Origin, Origins
  <2>3. choice = "Approve for This Session" => l = 2
    BY <1>0 DEF Choices
  <2>4. ASSUME NEW s \in sessions
        PROVE \E d \in Calls : /\ Origin(d) = s.origin /\ Key[d] = s.key
                               /\ granted'[d][2] = "Approve for This Session"
    <3>1. PICK d \in Calls : /\ Origin(d) = s.origin /\ Key[d] = s.key
                             /\ granted[d][2] = "Approve for This Session"
      BY DEF Safe, SessionsAreGiven
    <3>2. d # c
      BY <1>2, <3>1
    <3> QED
      BY <1>4, <3>1, <3>2
  <2>5. ASSUME choice = "Approve for This Session"
        PROVE \E d \in Calls : /\ Origin(d) = kept.origin /\ Key[d] = kept.key
                               /\ granted'[d][2] = "Approve for This Session"
    BY <1>4, <2>2, <2>3, <2>5
  <2> HIDE DEF kept
  <2>6. \A s \in sessions' : \E d \in Calls : /\ Origin(d) = s.origin /\ Key[d] = s.key
                                             /\ granted'[d][2] = "Approve for This Session"
    BY <2>1, <2>4, <2>5
  <2>7. sessions \subseteq [origin : Origins, key : Keys]
    BY <1>0 DEF TypeOK
  <2> QED
    BY <2>1, <2>2, <2>6, <2>7 DEF SessionsAreGiven, Origin
<1>6. ASSUME TypeOK', CallOk(c)', \A d \in Calls \ {c} : pc'[d] = pc[d] /\ job'[d] = job[d]
      PROVE  Safe'
  BY <1>1, <1>2, <1>3, <1>4, <1>5, <1>6, OthersOk DEF Safe
\* A call at the second level that appends its line and goes on to p.
<1>7. ASSUME l = 2, NEW o \in Outcomes, NEW p \in {"write", "declined"}, Record(c, o, p),
             p = "write" <=> choice # "none"
      PROVE  Safe'
  <2>1. p \in Places
    BY DEF Places, Ended
  <2>2. /\ pc' \in [Calls -> Places] /\ pc'[c] = "append" /\ \A d \in Calls \ {c} : pc'[d] = pc[d]
        /\ job' \in [Calls -> [outcome : Outcomes, next : Places \cup {"none"}, prior : SUBSET Lines]]
        /\ job'[c].next = p /\ \A d \in Calls \ {c} : job'[d] = job[d]
        /\ log' = log /\ overlapped' \subseteq Calls /\ struck' \subseteq Calls
    BY <1>0, <1>7, <2>1, RecordStep
  <2>3. TypeOK'
    BY <1>0, <1>1, <1>3, <1>4, <1>5, <2>2 DEF TypeOK
  <2>4. p = "write" => Covered(c)'
    BY <1>4, <1>7 DEF Covered
  <2>5. CallOk(c)'
    BY <1>0, <1>1, <1>2, <1>3, <1>4, <1>7, <2>2, <2>4
  <2> QED
    BY <1>6, <2>2, <2>3, <2>5
<1>8. ASSUME l = 1, NEW p \in {"guard", "declined"}, Goto(c, p), UNCHANGED <<job, log, overlapped, struck>>,
             p = "guard" <=> choice # "none"
      PROVE  Safe'
  <2>1. pc' \in [Calls -> Places] /\ pc'[c] = p /\ \A d \in Calls \ {c} : pc'[d] = pc[d]
    BY <1>0, <1>8, GotoStep DEF Places, Ended
  <2>2. TypeOK'
    BY <1>0, <1>1, <1>3, <1>4, <1>5, <1>8, <2>1 DEF TypeOK
  <2>3. CASE p = "guard"
    <3>1. choice = "Allow"
      BY <1>8, <2>3 DEF Choices
    <3>2. CallOk(c)'
      BY <1>0, <1>1, <1>2, <1>3, <1>4, <1>8, <2>1, <2>3, <3>1
    <3> QED
      BY <1>6, <1>8, <2>1, <2>2, <3>2
  <2>4. CASE p = "declined"
    <3>1. cards'[c][1] = "DECLINED" /\ cards'[c][2] = "none"
      BY <1>0, <1>2, <1>3, <1>8, <2>4
    <3>2. CallOk(c)'
      BY <2>1, <2>4, <3>1, EndedOk
    <3> QED
      BY <1>6, <1>8, <2>1, <2>2, <3>2
  <2> QED
    BY <2>3, <2>4
<1>9. CASE l = 1
  <2>0. l # 2
    BY <1>9
  <2>1. /\ choice = "none" => Goto(c, "declined") /\ UNCHANGED audit
        /\ choice # "none" => Goto(c, "guard") /\ UNCHANGED audit
    BY <1>1, <1>9, <2>0, Zenon DEF Resume
  <2> QED
    BY <1>8, <1>9, <2>1 DEF audit
<1>10. CASE l = 2
  <2>0. l # 1
    BY <1>10
  <2>1. /\ choice = "none" => Record(c, "declined", "declined")
        /\ choice # "none" => Record(c, "approved", "write")
    BY <1>1, <1>10, <2>0, Zenon DEF Resume
  <2> QED
    BY <1>7, <1>10, <2>1 DEF Outcomes
<1> QED
  BY <1>0, <1>9, <1>10

\* Every step keeps what lets calls go on.
LEMMA NextSafe == ASSUME Safe, [Next]_vars PROVE Safe'
<1>1. CASE UNCHANGED vars
  <2>1. TypeOK' /\ SessionsAreGiven'
    BY <1>1 DEF Safe, vars, TypeOK, SessionsAreGiven, Origin
  <2>2. ASSUME NEW c \in Calls PROVE CallOk(c)'
    <3>1. Covered(c)' = Covered(c)
      BY <1>1 DEF vars, Covered, Origin
    <3> QED
      BY <1>1, <3>1
      DEF vars, Safe, CallOk, FirstLevel, Judged, Unanswered, Card, Returns, Going, Waiting
  <2> QED
    BY <2>1, <2>2 DEF Safe
<1> QED
  BY <1>1, StartSafe, AppendSafe, GuardSafe, WriteSafe, ExpireSafe, CancelSafe, DecideSafe
  DEF Next, Step, TimedOut

-------------------------------------------------------------------------------
(***************************************************************************)
(* The audit log                                                           *)
(***************************************************************************)
\* A call begins to append: what it read is the log.
LEMMA RecordLogs ==
  ASSUME IInv, NEW c \in Calls, pc[c] # "append", NEW o \in Outcomes, NEW p \in Places,
         Record(c, o, p), \A d \in Calls \ {c} : judged'[d] = judged[d]
  PROVE  Appends' /\ AuditIsComplete'
<1>0. TypeOK /\ Appends /\ AuditIsComplete
  BY DEF IInv, Safe
<1>1. /\ pc'[c] = "append" /\ \A d \in Calls \ {c} : pc'[d] = pc[d]
      /\ \A d \in Calls \ {c} : job'[d] = job[d]
      /\ \/ job'[c].prior = log /\ struck' = struck
         \/ job'[c].prior = {} /\ struck' = struck \cup Named(log)
      /\ log' = log
      /\ overlapped' = IF Appending = {} THEN overlapped ELSE overlapped \cup Appending \cup {c}
  BY <1>0, RecordStep
<1>2. /\ Appending' = Appending \cup {c} /\ c \notin Appending
      /\ overlapped \subseteq overlapped' /\ struck \subseteq struck'
  BY <1>1 DEF Appending
<1>3. \A a, b \in Appending' : a # b => a \in overlapped'
  BY <1>1, <1>2
<1>4. ASSUME NEW d \in Calls, d \notin overlapped', d \notin struck', NEW a \in Appending', d # a
      PROVE  d \in Named(job'[a].prior) <=> d \in Named(log')
  <2>1. CASE a = c
    BY <1>1, <1>4, <2>1 DEF Named
  <2>2. CASE a # c
    <3>1. a \in Appending /\ d \in Calls \ Excused /\ job'[a] = job[a]
      BY <1>1, <1>2, <1>4, <2>2 DEF Appending, Excused
    <3> QED
      BY <1>0, <1>1, <1>4, <3>1 DEF Appends
  <2> QED
    BY <2>1, <2>2
<1>5. Appends'
  BY <1>3, <1>4 DEF Appends, Excused, Named
<1>6. \A d \in Calls : MustLog(d)' => d # c /\ MustLog(d)
  BY <1>1 DEF MustLog
<1> QED
  BY <1>0, <1>1, <1>2, <1>5, <1>6 DEF AuditIsComplete, Named

\* It writes back what it read, with its line, or fails to.
LEMMA AppendLogs ==
  ASSUME IInv, NEW c \in Calls, Append(c) \/ AppendFails(c)
  PROVE  Appends' /\ AuditIsComplete'
<1>0. TypeOK /\ Appends /\ AuditIsComplete /\ Returns(c)
  BY DEF IInv, Safe, CallOk
<1>1. pc[c] = "append" /\ job[c].next \in {"write", "refused", "declined"}
  BY <1>0 DEF Append, AppendFails, Returns
<1>2. /\ pc'[c] = job[c].next /\ \A d \in Calls \ {c} : pc'[d] = pc[d]
      /\ \A d \in Calls \ {c} : job'[d] = job[d]
      /\ \/ Named(log') = Named(job[c].prior) \cup {c} /\ struck' = struck
         \/ log' = log /\ struck' = struck \cup {c}
         \/ /\ Named(log') \subseteq Named(job[c].prior)
            /\ struck' = struck \cup {c} \cup Named(log) \cup Named(job[c].prior)
  BY <1>0, <1>1, AppendStep DEF Places, Ended
<1>3. /\ Appending' = Appending \ {c} /\ c \in Appending /\ overlapped' = overlapped /\ judged' = judged
      /\ struck \subseteq struck'
  BY <1>1, <1>2 DEF Appending, Append, AppendFails
<1>4. c \in Named(log') \/ c \in struck'
  BY <1>2
<1>5. ASSUME NEW d \in Calls, d \notin overlapped, d \notin struck', d # c
      PROVE  d \in Named(log') <=> d \in Named(log)
  <2>1. d \in Named(job[c].prior) <=> d \in Named(log)
    BY <1>0, <1>3, <1>5 DEF Appends, Excused
  <2> QED
    BY <1>2, <1>5, <2>1
<1>6. ASSUME NEW d \in Calls, d \notin overlapped', d \notin struck', NEW a \in Appending', d # a
      PROVE  d \in Named(job'[a].prior) <=> d \in Named(log')
  <2>1. a \in Appending /\ a # c /\ job'[a] = job[a]
    BY <1>2, <1>3, <1>6 DEF Appending
  <2>2. d # c
    BY <1>0, <1>3, <1>6, <2>1 DEF Appends
  <2>3. d \in Named(job[a].prior) <=> d \in Named(log)
    BY <1>0, <1>3, <1>6, <2>1 DEF Appends, Excused
  <2> QED
    BY <1>3, <1>5, <1>6, <2>1, <2>2, <2>3
<1>7. Appends'
  BY <1>0, <1>3, <1>6 DEF Appends, Excused, Named
<1>8. \A d \in Calls : MustLog(d)' /\ d # c => MustLog(d)
  BY <1>2, <1>3 DEF MustLog
<1>9. ASSUME NEW d \in Calls, MustLog(d)' PROVE d \in overlapped' \cup struck' \cup Named(log')
  BY <1>0, <1>3, <1>4, <1>5, <1>8, <1>9 DEF AuditIsComplete
<1> QED
  BY <1>7, <1>9 DEF AuditIsComplete, Named

\* A step that appends nothing and owes no line.
LEMMA QuietLogs ==
  ASSUME IInv, NEW c \in Calls, UNCHANGED <<job, log, overlapped, struck>>,
         \A d \in Calls \ {c} : pc'[d] = pc[d] /\ judged'[d] = judged[d],
         pc'[c] = "append" <=> pc[c] = "append",
         MustLog(c)' => MustLog(c)
  PROVE  Appends' /\ AuditIsComplete'
<1>1. Appending' = Appending
  BY DEF Appending
<1>2. Appends'
  BY <1>1 DEF IInv, Appends, Excused, Named
<1>3. \A d \in Calls : MustLog(d)' => MustLog(d)
  BY DEF MustLog
<1> QED
  BY <1>2, <1>3 DEF IInv, AuditIsComplete, Named

\* Every step keeps the log complete.
LEMMA NextLogs == ASSUME IInv, [Next]_vars PROVE Appends' /\ AuditIsComplete'
<1>0. TypeOK /\ \A c \in Calls : CallOk(c)
  BY DEF IInv, Safe
<1>1. ASSUME NEW c \in Calls, Start(c) PROVE Appends' /\ AuditIsComplete'
  <2>1. /\ UNCHANGED <<job, log, overlapped, struck, judged>> /\ pc[c] = "idle"
        /\ \E p \in {"guard", "level1", "cancelled"} : Goto(c, p)
    BY <1>1 DEF Start, Ask, audit
  <2>2. pc'[c] \in {"guard", "level1", "cancelled"} /\ \A d \in Calls \ {c} : pc'[d] = pc[d]
    BY <1>0, <2>1, GotoStep DEF Places, Ended
  <2>3. ~MustLog(c)'
    BY <2>2 DEF MustLog
  <2> QED
    BY <2>1, <2>2, <2>3, QuietLogs
<1>2. ASSUME NEW c \in Calls, Append(c) \/ AppendFails(c) PROVE Appends' /\ AuditIsComplete'
  BY <1>2, AppendLogs
<1>3. ASSUME NEW c \in Calls, Guard(c) PROVE Appends' /\ AuditIsComplete'
  <2>1. PICK ownership \in {Ownership[Key[c]], "UNKNOWN"} :
          LET decision == Decision(ownership, policy[Origin(c)]) IN
          /\ judged' = [judged EXCEPT ![c] = decision]
          /\ CASE decision = "allow" -> Goto(c, "write") /\ UNCHANGED <<audit, cards>>
               [] decision = "refuse" -> Record(c, "refused", "refused") /\ UNCHANGED cards
               [] decision = "audit" -> Record(c, "allowed with audit", "write") /\ UNCHANGED cards
               [] decision = "ask" ->
                    IF [origin |-> Origin(c), key |-> Key[c]] \in sessions
                    THEN Record(c, "approved", "write") /\ UNCHANGED cards
                    ELSE Ask(c, 2) /\ UNCHANGED audit
    BY <1>3 DEF Guard
  <2> DEFINE decision == Decision(ownership, policy[Origin(c)])
  <2>2. decision \in {"allow", "refuse", "audit", "ask"}
    BY DEF Decision
  <2> HIDE DEF decision
  <2>3. judged'[c] = decision /\ \A d \in Calls \ {c} : judged'[d] = judged[d]
    BY <1>0, <2>1 DEF decision, TypeOK
  <2>4. pc[c] = "guard"
    BY <1>3 DEF Guard
  <2>5. ASSUME NEW o \in Outcomes, NEW p \in Places, Record(c, o, p) PROVE Appends' /\ AuditIsComplete'
    BY <2>3, <2>4, <2>5, RecordLogs
  <2>6. ASSUME NEW p \in {"write", "level2", "cancelled"}, Goto(c, p),
               UNCHANGED <<job, log, overlapped, struck>>, p = "write" => decision = "allow"
        PROVE  Appends' /\ AuditIsComplete'
    <3>1. pc'[c] = p /\ \A d \in Calls \ {c} : pc'[d] = pc[d]
      BY <1>0, <2>6, GotoStep DEF Places, Ended
    <3>2. ~MustLog(c)'
      BY <2>3, <2>6, <3>1 DEF MustLog
    <3> QED
      BY <2>3, <2>4, <2>6, <3>1, <3>2, QuietLogs
  <2>7. CASE decision = "allow"
    BY <2>1, <2>6, <2>7 DEF decision, audit
  <2>8. CASE decision = "refuse"
    <3>1. Record(c, "refused", "refused")
      BY <2>1, <2>8 DEF decision
    <3> QED
      BY <2>5, <3>1 DEF Outcomes, Places, Ended
  <2>9. CASE decision = "audit"
    <3>1. Record(c, "allowed with audit", "write")
      BY <2>1, <2>9 DEF decision
    <3> QED
      BY <2>5, <3>1 DEF Outcomes, Places
  <2>10. CASE decision = "ask"
    <3>1. IF [origin |-> Origin(c), key |-> Key[c]] \in sessions
          THEN Record(c, "approved", "write") /\ UNCHANGED cards
          ELSE Ask(c, 2) /\ UNCHANGED audit
      BY <2>1, <2>10 DEF decision
    <3>2. CASE Record(c, "approved", "write")
      BY <2>5, <3>2 DEF Outcomes, Places
    <3>3. CASE Ask(c, 2) /\ UNCHANGED audit
      <4>1. (Goto(c, "cancelled") \/ Goto(c, "level2")) /\ UNCHANGED <<job, log, overlapped, struck>>
        BY <3>3 DEF Ask, audit
      <4> QED
        BY <2>6, <4>1
    <3> QED
      BY <3>1, <3>2, <3>3
  <2> QED
    BY <2>2, <2>7, <2>8, <2>9, <2>10
<1>4. ASSUME NEW c \in Calls, Write(c) PROVE Appends' /\ AuditIsComplete'
  <2>1. UNCHANGED <<job, log, overlapped, struck, judged>> /\ pc[c] = "write"
    BY <1>4 DEF Write, audit
  <2>2. pc'[c] \in {"written", "failed"} /\ \A d \in Calls \ {c} : pc'[d] = pc[d]
    BY <1>0, <1>4, GotoStep DEF Write, Places, Ended
  <2>3. MustLog(c)' => MustLog(c)
    BY <2>1, <2>2 DEF MustLog
  <2> QED
    BY <2>1, <2>2, <2>3, QuietLogs
<1>5. ASSUME NEW c \in Calls, NEW l \in 1 .. 2, Expire(c, l) PROVE Appends' /\ AuditIsComplete'
  <2>1. UNCHANGED <<job, log, overlapped, struck, judged>> /\ pc[c] \in {"level1", "level2"}
    BY <1>5 DEF Expire, audit, Waiting
  <2>2. pc'[c] = "expired" /\ \A d \in Calls \ {c} : pc'[d] = pc[d]
    BY <1>0, <1>5, GotoStep DEF Expire, Places, Ended
  <2>3. ~MustLog(c)'
    BY <2>2 DEF MustLog
  <2> QED
    BY <2>1, <2>2, <2>3, QuietLogs
<1>6. ASSUME NEW c \in Calls, Cancel(c) PROVE Appends' /\ AuditIsComplete'
  <2>1. UNCHANGED <<job, log, overlapped, struck, judged>>
    BY <1>6 DEF Cancel, audit
  <2>2. CASE UNCHANGED pc
    BY <2>1, <2>2, QuietLogs DEF MustLog
  <2>3. CASE Goto(c, "cancelled") /\ \E l \in 1 .. 2 : Waiting(c, l)
    <3>1. pc'[c] = "cancelled" /\ \A d \in Calls \ {c} : pc'[d] = pc[d]
      BY <1>0, <2>3, GotoStep DEF Places, Ended
    <3>2. ~MustLog(c)' /\ pc[c] # "append"
      BY <2>3, <3>1 DEF MustLog, Waiting
    <3> QED
      BY <2>1, <3>1, <3>2, QuietLogs
  <2> QED
    BY <1>6, <2>2, <2>3 DEF Cancel
<1>7. ASSUME NEW c \in Calls, NEW l \in 1 .. 2, NEW choice \in Choices(l) \cup {"none"},
             Decide(c, l, choice)
      PROVE  Appends' /\ AuditIsComplete'
  <2>1. UNCHANGED judged /\ pc[c] = (IF l = 1 THEN "level1" ELSE "level2")
    <3>1. l \in {1, 2} /\ Card(c, l)
      BY <1>0 DEF CallOk
    <3> QED
      BY <1>7, <3>1 DEF Decide, Card, Waiting
  <2>2. ASSUME NEW o \in Outcomes, NEW p \in Places, Record(c, o, p) PROVE Appends' /\ AuditIsComplete'
    BY <2>1, <2>2, RecordLogs
  <2>3. ASSUME l = 1, NEW p \in {"guard", "declined"}, Goto(c, p), UNCHANGED audit
        PROVE  Appends' /\ AuditIsComplete'
    <3>1. pc'[c] = p /\ \A d \in Calls \ {c} : pc'[d] = pc[d]
      BY <1>0, <2>3, GotoStep DEF Places, Ended
    <3>2. judged[c] = "none"
      BY <1>0, <2>1, <2>3 DEF CallOk, Judged
    <3>3. ~MustLog(c)'
      BY <2>1, <3>1, <3>2 DEF MustLog
    <3> QED
      BY <2>1, <2>3, <3>1, <3>3, QuietLogs DEF audit
  <2>4. \/ Record(c, "declined", "declined") \/ Record(c, "approved", "write")
        \/ l = 1 /\ UNCHANGED audit /\ (Goto(c, "guard") \/ Goto(c, "declined"))
    BY <1>7, Zenon DEF Decide, Resume
  <2> QED
    BY <2>2, <2>3, <2>4 DEF Outcomes, Places, Ended
<1>8. CASE UNCHANGED vars
  <2>1. Appending' = Appending
    BY <1>8 DEF vars, Appending
  <2> QED
    BY <1>8, <2>1 DEF vars, IInv, Appends, Excused, Named, AuditIsComplete, MustLog
<1> QED
  BY <1>1, <1>2, <1>3, <1>4, <1>5, <1>6, <1>7, <1>8 DEF Next, Step, TimedOut

\* Every reachable state satisfies the invariant of the approvals and their
\* audit.
THEOREM Inductive == Spec => []IInv
<1>1. Init => IInv
  <2> SUFFICES ASSUME Init PROVE IInv
    OBVIOUS
  <2>1. \A c \in Calls : pc[c] = "idle"
    BY DEF Init
  <2>2. Appends
    BY <2>1 DEF Appends, Appending
  <2>3. AuditIsComplete
    BY <2>1 DEF AuditIsComplete, MustLog
  <2> QED
    BY <2>2, <2>3, InitSafe DEF IInv
<1>2. IInv /\ [Next]_vars => IInv'
  BY NextSafe, NextLogs DEF IInv
<1> QED
  BY <1>1, <1>2, PTL DEF Spec

-------------------------------------------------------------------------------
(***************************************************************************)
(* Theorems                                                                *)
(***************************************************************************)
\* Every variable keeps its type.
THEOREM Typing == Spec => []TypeOK
<1>1. IInv => TypeOK
  BY DEF IInv, Safe
<1> QED
  BY Inductive, <1>1, PTL

\* No write goes past the first approval (writeTools.approve) or past the
\* delivered-object guard without the answers its own origin was given.
THEOREM WritesAreAuthorisedHolds == Spec => []WritesAreAuthorised
<1>1. IInv => WritesAreAuthorised
  BY DEF IInv, Safe, CallOk, FirstLevel, Judged, Going, WritesAreAuthorised
<1> QED
  BY Inductive, <1>1, PTL

\* A card says what became of its request: a click on a settled one, a timer
\* and a cancellation never contradict each other (writeApprovals.decide).
THEOREM CardsTellTheTruthHolds == Spec => []CardsTellTheTruth
<1>1. ASSUME IInv PROVE CardsTellTheTruth
  <2>1. SUFFICES ASSUME NEW c \in Calls, NEW l \in {1, 2}
        PROVE /\ cards[c][l] = "PENDING" <=> Waiting(c, l)
              /\ cards[c][l] \in {"EXPIRED", "CANCELLED", "DECLINED"} =>
                   pc[c] \notin {"guard", "level2", "write", "written", "failed"}
              /\ cards[c][l] = "APPROVED" =>
                   granted[c][l] \in Choices(l) /\ pc[c] \notin {"idle", "level1"}
              /\ cards[c][2] = "APPROVED" => pc[c] \in {"append", "write", "written", "failed"}
    BY DEF CardsTellTheTruth
  <2>2. Card(c, l) /\ Card(c, 2)
    BY <1>1 DEF IInv, Safe, CallOk
  <2> QED
    BY <2>2 DEF Card, Going
<1> QED
  BY Inductive, <1>1, PTL

\* A line is missing from the audit log only where two appends met, its own
\* failed, or a later one could not read the file or cut it short
\* (customizationGuard.audit).
THEOREM AuditIsCompleteHolds == Spec => []AuditIsComplete
<1>1. IInv => AuditIsComplete
  BY DEF IInv
<1> QED
  BY Inductive, <1>1, PTL
===============================================================================
