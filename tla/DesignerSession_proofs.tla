------------------------- MODULE DesignerSession_proofs -------------------------
(***************************************************************************)
(* Proofs about a designer's session, for any number of edits, calls and   *)
(* versions, and for any length of the undo history.                       *)
(***************************************************************************)
EXTENDS DesignerSession, TLAPS

Rising(s) == \A i, j \in 1 .. Len(s) : i < j => s[i] \subseteq s[j]
Falling(s) == \A i, j \in 1 .. Len(s) : i < j => s[j] \subseteq s[i]
Between(low, s, high) == \A i \in 1 .. Len(s) : low \subseteq s[i] /\ s[i] \subseteq high
Above(s, low) == \A i \in 1 .. Len(s) : low \subseteq s[i]

\* The undo history: one document contains the next older one, the oldest
\* contains the baseline, and what can be redone contains the document.
History ==
  /\ session.saved \subseteq session.doc
  /\ Rising(session.past) /\ Between(session.saved, session.past, session.doc)
  /\ Falling(session.future) /\ Above(session.future, session.doc)

\* A document on its way to the writer contains the version it was read from;
\* one that was just read is the version its token names.
InHand ==
  \A c \in Calls :
    /\ call[c].at \in {"sent", "preview", "prompt"} =>
         call[c].token \in 1 .. Token /\ stored[call[c].token] \subseteq call[c].doc
    /\ call[c].at = "fresh" =>
         Resetting(c) /\ call[c].token \in 1 .. Token /\ call[c].doc = stored[call[c].token]

\* The present program contains every earlier version.
Grown == \A i \in 1 .. Token : stored[i] \subseteq Present

\* The edits that must not get lost, and what keeps a call that resets the
\* session from losing them: what it sent, or the stored program, has them.
Safe == made \ (hasty \cup given)
ResetsAreSafe ==
  \A c \in Calls : Resetting(c) =>
    /\ call[c].at = "sent" => Safe \subseteq call[c].doc \cup Present
    /\ call[c].at \in {"stored", "fresh"} => Safe \subseteq Present

IInv ==
  /\ TypeOK
  /\ History
  /\ BaselineIsAVersion
  /\ InHand
  /\ Grown
  /\ ResetsAreSafe
  /\ EditsSurvive

-------------------------------------------------------------------------------
(***************************************************************************)
(* The sequences of the undo history                                       *)
(***************************************************************************)
\* Leaving out the oldest document leaves a history of at most the limit.
LEMMA BoundedHistory ==
  ASSUME NEW s \in Seq(Documents), Len(s) <= Limit + 1
  PROVE  /\ Bounded(s) \in Seq(Documents) /\ Len(Bounded(s)) <= Limit
         /\ Rising(s) => Rising(Bounded(s))
         /\ \A low, high : Between(low, s, high) => Between(low, Bounded(s), high)
<1> USE LimitAssumption DEF Bounded
<1>1. CASE Len(s) <= Limit
  BY <1>1
<1>2. CASE Len(s) > Limit
  <2>1. Tail(s) \in Seq(Documents) /\ Len(Tail(s)) = Len(s) - 1
    BY <1>2
  <2>2. \A i \in 1 .. Len(Tail(s)) : Tail(s)[i] = s[i + 1] /\ i + 1 \in 1 .. Len(s)
    BY <1>2
  <2>3. Len(s) \in Nat
    OBVIOUS
  <2>4. Rising(s) => Rising(Tail(s))
    BY <2>1, <2>2, <2>3 DEF Rising
  <2>5. \A low, high : Between(low, s, high) => Between(low, Tail(s), high)
    BY <2>2 DEF Between
  <2> QED
    BY <1>2, <2>1, <2>3, <2>4, <2>5
<1> QED
  BY <1>1, <1>2

\* A document that contains the newest one continues the history.
LEMMA AppendedHistory ==
  ASSUME NEW s \in Seq(Documents), NEW d \in Documents
  PROVE  /\ Append(s, d) \in Seq(Documents) /\ Len(Append(s, d)) = Len(s) + 1
         /\ \A low : Rising(s) /\ Between(low, s, d) /\ low \subseteq d =>
              Rising(Append(s, d)) /\ Between(low, Append(s, d), d)
         /\ Falling(s) /\ Above(s, d) => Falling(Append(s, d)) /\ Above(Append(s, d), d)
<1>1. Append(s, d) \in Seq(Documents) /\ Len(Append(s, d)) = Len(s) + 1 /\ Len(s) \in Nat
  OBVIOUS
<1>2. \A i \in 1 .. Len(s) + 1 : Append(s, d)[i] = IF i \in 1 .. Len(s) THEN s[i] ELSE d
  OBVIOUS
<1>3. ASSUME NEW low, Rising(s), Between(low, s, d), low \subseteq d
      PROVE  Rising(Append(s, d)) /\ Between(low, Append(s, d), d)
  BY <1>1, <1>2, <1>3 DEF Rising, Between
<1>4. ASSUME Falling(s), Above(s, d)
      PROVE  Falling(Append(s, d)) /\ Above(Append(s, d), d)
  BY <1>1, <1>2, <1>4 DEF Falling, Above
<1> QED
  BY <1>1, <1>3, <1>4

\* Without its newest document, a history is bounded by that document.
LEMMA FrontOfHistory ==
  ASSUME NEW s \in Seq(Documents), s # <<>>
  PROVE  /\ Front(s) \in Seq(Documents) /\ Len(Front(s)) = Len(s) - 1 /\ Last(s) \in Documents
         /\ \A low, high : Rising(s) /\ Between(low, s, high) =>
              /\ Rising(Front(s)) /\ Between(low, Front(s), Last(s))
              /\ low \subseteq Last(s) /\ Last(s) \subseteq high
         /\ \A low : Falling(s) /\ Above(s, low) =>
              Falling(Front(s)) /\ Above(Front(s), Last(s)) /\ low \subseteq Last(s)
<1>1. Len(s) \in Nat \ {0}
  OBVIOUS
<1>2. Front(s) \in Seq(Documents) /\ Len(Front(s)) = Len(s) - 1
  BY DEF Front
<1>3. \A i \in 1 .. Len(s) - 1 : Front(s)[i] = s[i]
  BY <1>1 DEF Front
<1>4. Last(s) = s[Len(s)] /\ Len(s) \in 1 .. Len(s)
  BY <1>1 DEF Last
<1>5. Last(s) \in Documents
  BY <1>4
<1>6. ASSUME NEW low, NEW high, Rising(s), Between(low, s, high)
      PROVE  /\ Rising(Front(s)) /\ Between(low, Front(s), Last(s))
             /\ low \subseteq Last(s) /\ Last(s) \subseteq high
  BY <1>1, <1>2, <1>3, <1>4, <1>6 DEF Rising, Between
<1>7. ASSUME NEW low, Falling(s), Above(s, low)
      PROVE  Falling(Front(s)) /\ Above(Front(s), Last(s)) /\ low \subseteq Last(s)
  BY <1>1, <1>2, <1>3, <1>4, <1>7 DEF Falling, Above
<1> QED
  BY <1>2, <1>5, <1>6, <1>7

\* One more version: the earlier ones stay what they were.
LEMMA AppendedVersion ==
  ASSUME NEW s \in Seq(Documents), NEW d \in Documents
  PROVE  /\ Append(s, d) \in Seq(Documents) /\ Append(s, d) # <<>>
         /\ Len(Append(s, d)) = Len(s) + 1 /\ Append(s, d)[Len(s) + 1] = d
         /\ \A i \in 1 .. Len(s) : Append(s, d)[i] = s[i]
OBVIOUS
-------------------------------------------------------------------------------
(***************************************************************************)
(* Types                                                                   *)
(***************************************************************************)
\* The types hold initially.
LEMMA InitTypeOK == Init => TypeOK
<1> SUFFICES ASSUME Init PROVE TypeOK
  OBVIOUS
<1> USE LimitAssumption DEF Init, Documents
<1>1. stored = <<{}>> /\ stored \in Seq(Documents) /\ stored # <<>> /\ Token = 1
  BY DEF Token
<1>2. session \in Sessions /\ Len(session.past) + Len(session.future) <= Limit
  BY <1>1 DEF Sessions
<1>3. call \in [Calls -> [kind : Kinds, at : Points, doc : Documents, token : 0 .. Token]]
  BY <1>1 DEF Kinds, Points, Free
<1> QED
  BY <1>1, <1>2, <1>3 DEF TypeOK

\* What a save does to the versions: nothing is forgotten or changed.
LEMMA PutVersion ==
  ASSUME TypeOK, NEW d \in Documents, NEW t, Put(d, t)
  PROVE  /\ stored' \in Seq(Documents) /\ stored' # <<>> /\ Token' >= Token /\ Token' \in Nat
         /\ \A i \in 1 .. Token : stored'[i] = stored[i]
         /\ \A i \in 1 .. Token' : i \in 1 .. Token \/ (i = Token' /\ stored'[i] = d)
         /\ t = Token /\ Present' = d
<1> USE DEF TypeOK, Put, Token, Present
<1>1. Len(stored) \in Nat \ {0}
  OBVIOUS
<1>2. CASE d = Present
  BY <1>1, <1>2
<1>3. CASE d # Present
  BY <1>1, <1>3, AppendedVersion
<1> QED
  BY <1>2, <1>3

LEMMA OtherVersion ==
  ASSUME TypeOK, NEW e \in OtherEdits, OtherSave(e)
  PROVE  /\ stored' \in Seq(Documents) /\ stored' # <<>> /\ Token' >= Token /\ Token' \in Nat
         /\ \A i \in 1 .. Token : stored'[i] = stored[i]
         /\ \A i \in 1 .. Token' : i \in 1 .. Token \/ (i = Token' /\ stored'[i] = Present \cup {e})
         /\ Present' = Present \cup {e}
<1> USE DEF TypeOK, OtherSave, Token, Present
<1>1. Len(stored) \in Nat \ {0}
  OBVIOUS
<1>2. Present \in Documents /\ Present \cup {e} \in Documents
  BY <1>1 DEF Documents, AllEdits
<1> QED
  BY <1>1, <1>2, AppendedVersion

\* The present version is a document, and so is what a call holds.
LEMMA PresentType == TypeOK => Token \in Nat \ {0} /\ Token \in 1 .. Token /\ Present \in Documents
BY DEF TypeOK, Token, Present
CallTypes == [kind : Kinds, at : Points, doc : Documents, token : 0 .. Token]

\* Typing survives what leaves the versions alone and gives session and calls
\* values of their types.
LEMMA SameVersions ==
  ASSUME TypeOK, UNCHANGED stored,
         session' \in Sessions, Len(session'.past) + Len(session'.future) <= Limit,
         call' \in [Calls -> CallTypes],
         made' \subseteq Edits, hasty' \subseteq AllEdits, given' \subseteq AllEdits
  PROVE  TypeOK'
BY DEF TypeOK, Sessions, CallTypes, Token

\* ... and what adds versions.
LEMMA MoreVersions ==
  ASSUME TypeOK, stored' \in Seq(Documents), stored' # <<>>, Token' \in Nat, Token' >= Token,
         UNCHANGED <<session, made, hasty, given>>, call' \in [Calls -> CallTypes]
  PROVE  TypeOK'
<1>1. Token \in Nat \ {0}
  BY PresentType
<1>2. 0 .. Token \subseteq 0 .. Token' /\ 1 .. Token \subseteq 1 .. Token'
  BY <1>1
<1>3. session' \in Sessions'
  BY <1>2 DEF TypeOK, Sessions
<1>4. call' \in [Calls -> CallTypes']
  BY <1>2 DEF CallTypes
<1> QED
  BY <1>3, <1>4 DEF TypeOK, CallTypes

\* Every step keeps the types.
LEMMA NextTypeOK == ASSUME TypeOK, InHand, [Next]_vars PROVE TypeOK'
<1> USE DEF kept
<1>a. session \in Sessions /\ Len(session.past) + Len(session.future) <= Limit
      /\ call \in [Calls -> CallTypes] /\ stored \in Seq(Documents)
      /\ made \subseteq Edits /\ hasty \subseteq AllEdits /\ given \subseteq AllEdits
  BY DEF TypeOK, CallTypes
<1>b. session.doc \in Documents /\ session.saved \in Documents /\ session.token \in 1 .. Token
      /\ session.past \in Seq(Documents) /\ session.future \in Seq(Documents)
      /\ Len(session.past) \in Nat /\ Len(session.future) \in Nat
  BY <1>a DEF Sessions
<1>h. Len(session.past) + Len(session.future) <= Limit
      /\ Len(session.past) \in Nat /\ Len(session.future) \in Nat /\ Limit \in Nat \ {0}
  BY <1>a, <1>b, LimitAssumption
<1>c. Token \in Nat \ {0} /\ Token \in 1 .. Token /\ Present \in Documents
  BY PresentType
<1>d. Free \in CallTypes
  BY <1>c DEF Free, CallTypes, Kinds, Points, Documents
<1>e. Edits \subseteq AllEdits /\ OtherEdits \subseteq AllEdits /\ \A c \in Calls : AgentEdit[c] \in AllEdits
  BY DEF AllEdits
<1>1. ASSUME NEW e \in Edits, Edit(e) PROVE TypeOK'
  <2> DEFINE past == Append(session.past, session.doc)
  <2>1. session.doc \cup {e} \in Documents
    BY <1>b, <1>e DEF Documents
  <2>2. past \in Seq(Documents) /\ Len(past) = Len(session.past) + 1
    BY <1>b, AppendedHistory
  <2>3. session' = [doc |-> session.doc \cup {e}, saved |-> session.saved, token |-> session.token,
                    past |-> Bounded(past), future |-> <<>>]
    BY <1>1, <1>a DEF Edit, Sessions
  <2> HIDE DEF past
  <2>4. Len(past) <= Limit + 1
    <3>1. \A a, b \in Nat : a + b <= Limit => a + 1 <= Limit + 1
      BY LimitAssumption
    <3> QED
      BY <1>h, <2>2, <3>1, Zenon
  <2>5. Bounded(past) \in Seq(Documents) /\ Len(Bounded(past)) <= Limit
    BY <2>2, <2>4, BoundedHistory
  <2>6. <<>> \in Seq(Documents) /\ Len(<<>>) = 0 /\ Len(Bounded(past)) \in Nat
    BY <2>5
  <2>7. session' \in Sessions
    BY <1>b, <2>1, <2>3, <2>5, <2>6 DEF Sessions
  <2>8. Len(session'.past) + Len(session'.future) <= Limit
    BY <2>3, <2>5, <2>6, LimitAssumption
  <2>9. made' \subseteq Edits /\ hasty' \subseteq AllEdits
    BY <1>1, <1>a, <1>e DEF Edit, Hurried
  <2> QED
    BY <1>1, <1>a, <2>7, <2>8, <2>9, SameVersions DEF Edit
<1>2. CASE Undo
  <2> USE <1>2 DEF Undo
  <2>1. session' = [doc |-> Last(session.past), saved |-> session.saved, token |-> session.token,
                    past |-> Front(session.past), future |-> Append(session.future, session.doc)]
    BY <1>a DEF Sessions
  <2>2. Front(session.past) \in Seq(Documents) /\ Len(Front(session.past)) = Len(session.past) - 1
        /\ Last(session.past) \in Documents
    BY <1>b, FrontOfHistory
  <2>3. Append(session.future, session.doc) \in Seq(Documents)
        /\ Len(Append(session.future, session.doc)) = Len(session.future) + 1
    BY <1>b, AppendedHistory
  <2>4. session' \in Sessions
    BY <1>b, <2>1, <2>2, <2>3 DEF Sessions
  <2>5. Len(session'.past) + Len(session'.future) <= Limit
    BY <1>h, <2>1, <2>2, <2>3
  <2>6. given' \subseteq AllEdits
    BY <1>a, <1>b DEF Documents
  <2> QED
    BY <1>a, <2>4, <2>5, <2>6, SameVersions
<1>3. CASE Redo
  <2> USE <1>3 DEF Redo
  <2>1. session' = [doc |-> Last(session.future), saved |-> session.saved, token |-> session.token,
                    past |-> Append(session.past, session.doc), future |-> Front(session.future)]
    BY <1>a DEF Sessions
  <2>2. Front(session.future) \in Seq(Documents) /\ Len(Front(session.future)) = Len(session.future) - 1
        /\ Last(session.future) \in Documents
    BY <1>b, FrontOfHistory
  <2>3. Append(session.past, session.doc) \in Seq(Documents)
        /\ Len(Append(session.past, session.doc)) = Len(session.past) + 1
    BY <1>b, AppendedHistory
  <2>4. session' \in Sessions
    BY <1>b, <2>1, <2>2, <2>3 DEF Sessions
  <2>5. Len(session'.past) + Len(session'.future) <= Limit
    BY <1>h, <2>1, <2>2, <2>3
  <2>6. given' \subseteq AllEdits /\ hasty' \subseteq AllEdits
    BY <1>a, <2>1, <2>2 DEF Documents, Hurried
  <2> QED
    BY <1>a, <2>4, <2>5, <2>6, SameVersions
<1>4. ASSUME NEW e \in OtherEdits, OtherSave(e) PROVE TypeOK'
  BY <1>4, <1>a, OtherVersion, MoreVersions DEF OtherSave
<1>5. ASSUME NEW c \in Calls, Save(c) PROVE TypeOK'
  <2>1. call' \in [Calls -> CallTypes]
    BY <1>5, <1>a, <1>b DEF Save, Begin, CallTypes, Kinds, Points
  <2> QED
    BY <1>5, <1>a, <2>1, SameVersions DEF Save
<1>6. ASSUME NEW c \in Calls, Reload(c) PROVE TypeOK'
  <2>1. call' \in [Calls -> CallTypes]
    BY <1>6, <1>a, <1>c DEF Reload, Begin, CallTypes, Kinds, Points, Documents
  <2> QED
    BY <1>6, <1>a, <2>1, SameVersions DEF Reload
<1>7. ASSUME NEW c \in Calls, AgentRead(c) PROVE TypeOK'
  <2>1. Present \cup {AgentEdit[c]} \in Documents
    BY <1>c, <1>e DEF Documents
  <2>2. call' \in [Calls -> CallTypes]
    BY <1>7, <1>a, <1>c, <2>1 DEF AgentRead, Begin, CallTypes, Kinds, Points
  <2> QED
    BY <1>7, <1>a, <2>2, SameVersions DEF AgentRead
<1>8. ASSUME NEW c \in Calls, CallStep(c) PROVE TypeOK'
  <2>a. /\ \A p \in Points : [call EXCEPT ![c].at = p] \in [Calls -> CallTypes]
        /\ [call EXCEPT ![c] = Free] \in [Calls -> CallTypes]
    BY <1>a, <1>d DEF CallTypes
  <2>b. \A p \in Points : Move(c, p) => call' \in [Calls -> CallTypes]
    BY <2>a DEF Move
  <2>c. Finish(c) => call' \in [Calls -> CallTypes]
    BY <2>a DEF Finish
  <2>d. call[c].doc \in Documents /\ call[c].token \in 0 .. Token
    BY <1>a DEF CallTypes
  <2>1. CASE Commit(c)
    <3>1. call' \in [Calls -> CallTypes]
      BY <2>1, <2>b, <2>c DEF Commit, Points
    <3> QED
      BY <2>1, <2>d, <3>1, PutVersion, MoreVersions DEF Commit
  <2>2. CASE Refused(c)
    BY <2>2, <2>c, <1>a, SameVersions DEF Refused
  <2>3. CASE Answer(c)
    <3>1. call' \in [Calls -> CallTypes]
      BY <2>3, <2>b, <2>c DEF Answer, Points
    <3>2. given' \subseteq AllEdits
      BY <2>3, <1>a, <1>b DEF Answer, Documents
    <3> QED
      BY <2>3, <3>1, <3>2, <1>a, SameVersions DEF Answer
  <2>4. CASE Read(c)
    <3> DEFINE read == [kind |-> call[c].kind, at |-> "fresh", doc |-> Present, token |-> Token]
    <3>0. read \in CallTypes
      BY <1>a, <1>c DEF CallTypes, Points
    <3>2. call' \in [Calls -> CallTypes]
      BY <2>4, <3>0, <1>a, <2>c DEF Read, read
    <3> QED
      BY <2>4, <3>2, <1>a, SameVersions DEF Read
  <2>5. CASE Reset(c)
    <3>0. call[c].token \in 1 .. Token
      BY <2>5 DEF Reset, InHand
    <3>1. session' \in Sessions /\ Len(session'.past) + Len(session'.future) <= Limit
      BY <2>5, <2>d, <3>0, LimitAssumption DEF Reset, Sessions
    <3> QED
      BY <2>5, <3>1, <2>c, <1>a, SameVersions DEF Reset
  <2>6. CASE AgentAsk(c)
    <3>1. call' \in [Calls -> CallTypes]
      BY <2>6, <2>b, <2>c DEF AgentAsk, Points
    <3> QED
      BY <2>6, <3>1, <1>a, SameVersions DEF AgentAsk
  <2>7. CASE AgentAnswered(c)
    <3>1. call' \in [Calls -> CallTypes]
      BY <2>7, <2>b, <2>c DEF AgentAnswered, Points
    <3> QED
      BY <2>7, <3>1, <1>a, SameVersions DEF AgentAnswered
  <2>8. CASE Refresh(c)
    <3>1. [call EXCEPT ![c].kind = "refresh"] \in [Calls -> CallTypes]
      BY <1>a DEF CallTypes, Kinds
    <3>2. call' \in [Calls -> CallTypes]
      BY <2>8, <3>1, <2>c DEF Refresh
    <3> QED
      BY <2>8, <3>2, <1>a, SameVersions DEF Refresh
  <2> QED
    BY <1>8, <2>1, <2>2, <2>3, <2>4, <2>5, <2>6, <2>7, <2>8 DEF CallStep
<1>9. CASE UNCHANGED vars
  BY <1>9 DEF vars, TypeOK, Token, Sessions
<1> QED
  BY <1>1, <1>2, <1>3, <1>4, <1>5, <1>6, <1>7, <1>8, <1>9 DEF Next
-------------------------------------------------------------------------------
(***************************************************************************)
(* The invariant                                                           *)
(***************************************************************************)
\* It holds initially.
LEMMA InitIInv == Init => IInv
<1> SUFFICES ASSUME Init PROVE IInv
  OBVIOUS
<1>1. TypeOK
  BY InitTypeOK
<1>2. stored = <<{}>> /\ Token = 1 /\ Present = {} /\ stored[1] = {}
  BY DEF Init, Token, Present
<1>3. \A c \in Calls : call[c].kind = "none" /\ call[c].at = "idle"
  BY DEF Init, Free
<1>4. session.doc = {} /\ session.saved = {} /\ session.token = 1
      /\ Len(session.past) = 0 /\ Len(session.future) = 0
  BY DEF Init
<1>5. History
  BY <1>4 DEF History, Rising, Falling, Between, Above
<1>6. BaselineIsAVersion /\ Grown
  BY <1>2, <1>4 DEF BaselineIsAVersion, Grown
<1>7. InHand /\ ResetsAreSafe
  BY <1>3 DEF InHand, ResetsAreSafe, Resetting
<1>8. EditsSurvive
  BY DEF Init, EditsSurvive
<1> QED
  BY <1>1, <1>5, <1>6, <1>7, <1>8 DEF IInv

\* The fields of the session after a step that changes it.
LEMMA SessionFields ==
  ASSUME TypeOK
  PROVE  /\ \A e : Edit(e) =>
              /\ session'.doc = session.doc \cup {e} /\ session'.saved = session.saved
              /\ session'.token = session.token /\ session'.future = <<>>
              /\ session'.past = Bounded(Append(session.past, session.doc))
         /\ Undo =>
              /\ session'.doc = Last(session.past) /\ session'.saved = session.saved
              /\ session'.token = session.token
              /\ session'.past = Front(session.past)
              /\ session'.future = Append(session.future, session.doc)
         /\ Redo =>
              /\ session'.doc = Last(session.future) /\ session'.saved = session.saved
              /\ session'.token = session.token
              /\ session'.past = Append(session.past, session.doc)
              /\ session'.future = Front(session.future)
         /\ session.doc \in Documents /\ session.saved \in Documents /\ session.token \in 1 .. Token
         /\ session.past \in Seq(Documents) /\ session.future \in Seq(Documents)
<1>1. session \in Sessions
  BY DEF TypeOK
<1> QED
  BY <1>1 DEF Sessions, Edit, Undo, Redo

\* Undoing and redoing walk along the history.
LEMMA NextHistory == ASSUME IInv, Next PROVE History'
<1>0. TypeOK /\ History
  BY DEF IInv
<1>a. /\ session.doc \in Documents /\ session.past \in Seq(Documents)
      /\ session.future \in Seq(Documents)
  BY <1>0, SessionFields
<1>b. /\ session.saved \subseteq session.doc
      /\ Rising(session.past) /\ Between(session.saved, session.past, session.doc)
      /\ Falling(session.future) /\ Above(session.future, session.doc)
  BY <1>0 DEF History
<1>e. Falling(<<>>) /\ Rising(<<>>) /\ (\A low : Above(<<>>, low))
      /\ \A low, high : Between(low, <<>>, high)
  BY DEF Falling, Rising, Above, Between
<1>1. ASSUME NEW e \in Edits, Edit(e) PROVE History'
  <2> DEFINE older == Append(session.past, session.doc)
  <2>1. /\ session'.doc = session.doc \cup {e} /\ session'.saved = session.saved
        /\ session'.past = Bounded(older) /\ session'.future = <<>>
    BY <1>0, <1>1, SessionFields
  <2>2. older \in Seq(Documents) /\ Len(older) = Len(session.past) + 1
        /\ Rising(older) /\ Between(session.saved, older, session.doc)
    BY <1>a, <1>b, AppendedHistory
  <2>3. Len(older) <= Limit + 1
    <3>1. \A a, b \in Nat : a + b <= Limit => a + 1 <= Limit + 1
      BY LimitAssumption
    <3>2. Len(session.past) \in Nat /\ Len(session.future) \in Nat
      BY <1>a
    <3>3. Len(session.past) + Len(session.future) <= Limit
      BY <1>0 DEF TypeOK
    <3> QED
      BY <2>2, <3>1, <3>2, <3>3, Zenon
  <2> HIDE DEF older
  <2>4. Rising(Bounded(older)) /\ Between(session.saved, Bounded(older), session.doc)
    BY <2>2, <2>3, BoundedHistory
  <2>5. Between(session.saved, Bounded(older), session.doc \cup {e})
    BY <2>4 DEF Between
  <2>6. session.saved \subseteq session.doc \cup {e}
    BY <1>b
  <2> QED
    BY <1>e, <2>1, <2>4, <2>5, <2>6, Zenon DEF History
<1>2. CASE Undo
  <2>1. /\ session'.doc = Last(session.past) /\ session'.saved = session.saved
        /\ session'.past = Front(session.past)
        /\ session'.future = Append(session.future, session.doc)
    BY <1>0, <1>2, SessionFields
  <2>2. /\ Rising(Front(session.past))
        /\ Between(session.saved, Front(session.past), Last(session.past))
        /\ session.saved \subseteq Last(session.past) /\ Last(session.past) \subseteq session.doc
    BY <1>2, <1>a, <1>b, FrontOfHistory DEF Undo
  <2>3. Falling(Append(session.future, session.doc))
        /\ Above(Append(session.future, session.doc), session.doc)
    BY <1>a, <1>b, AppendedHistory
  <2>4. Above(Append(session.future, session.doc), Last(session.past))
    BY <2>2, <2>3 DEF Above
  <2> QED
    BY <2>1, <2>2, <2>3, <2>4, Zenon DEF History
<1>3. CASE Redo
  <2>1. /\ session'.doc = Last(session.future) /\ session'.saved = session.saved
        /\ session'.past = Append(session.past, session.doc)
        /\ session'.future = Front(session.future)
    BY <1>0, <1>3, SessionFields
  <2>2. /\ Falling(Front(session.future)) /\ Above(Front(session.future), Last(session.future))
        /\ session.doc \subseteq Last(session.future)
    BY <1>3, <1>a, <1>b, FrontOfHistory DEF Redo
  <2>3. Rising(Append(session.past, session.doc))
        /\ Between(session.saved, Append(session.past, session.doc), session.doc)
    BY <1>a, <1>b, AppendedHistory
  <2>4. Between(session.saved, Append(session.past, session.doc), Last(session.future))
    BY <2>2, <2>3 DEF Between
  <2>5. session.saved \subseteq Last(session.future)
    BY <1>b, <2>2
  <2> QED
    BY <2>1, <2>2, <2>3, <2>4, <2>5, Zenon DEF History
<1>4. ASSUME NEW c \in Calls, Reset(c) PROVE History'
  <2>1. session'.doc = session'.saved /\ session'.past = <<>> /\ session'.future = <<>>
    BY <1>4 DEF Reset
  <2> QED
    BY <1>e, <2>1, Zenon DEF History
<1>5. CASE UNCHANGED session
  BY <1>0, <1>5 DEF History
<1> QED
  BY <1>1, <1>2, <1>3, <1>4, <1>5
  DEF Next, OtherSave, Save, Reload, AgentRead, CallStep, Commit, Refused, Answer, Read,
      AgentAsk, AgentAnswered, Refresh
\* What a call that goes on, ends, begins or has read holds afterwards.
LEMMA CallFields ==
  ASSUME TypeOK, NEW c \in Calls
  PROVE  /\ \A p : Move(c, p) =>
              call'[c].kind = call[c].kind /\ call'[c].at = p /\ call'[c].doc = call[c].doc
              /\ call'[c].token = call[c].token /\ \A d \in Calls \ {c} : call'[d] = call[d]
         /\ Finish(c) =>
              call'[c].at = "idle" /\ call'[c].kind = "none" /\ \A d \in Calls \ {c} : call'[d] = call[d]
         /\ \A k, p, x, t : Begin(c, k, p, x, t) =>
              call'[c].kind = k /\ call'[c].at = p /\ call'[c].doc = x /\ call'[c].token = t
              /\ \A d \in Calls \ {c} : call'[d] = call[d]
         /\ Refresh(c) =>
              /\ call'[c].at \in {"idle", "stored"} /\ \A d \in Calls \ {c} : call'[d] = call[d]
              /\ call'[c].at = "stored" => ~dirty
         /\ Read(c) =>
              /\ \A d \in Calls \ {c} : call'[d] = call[d]
              /\ \/ call'[c].kind = call[c].kind /\ call'[c].at = "fresh"
                    /\ call'[c].doc = Present /\ call'[c].token = Token
                 \/ call'[c].at = "idle" /\ call'[c].kind = "none"
<1>1. call \in [Calls -> CallTypes]
  BY DEF TypeOK, CallTypes
<1>2. \A p : Move(c, p) =>
        call'[c].kind = call[c].kind /\ call'[c].at = p /\ call'[c].doc = call[c].doc
        /\ call'[c].token = call[c].token /\ \A d \in Calls \ {c} : call'[d] = call[d]
  BY <1>1 DEF Move, CallTypes
<1>3. Finish(c) =>
        call'[c].at = "idle" /\ call'[c].kind = "none" /\ \A d \in Calls \ {c} : call'[d] = call[d]
  BY <1>1 DEF Finish, Free
<1>4. \A k, p, x, t : Begin(c, k, p, x, t) =>
        call'[c].kind = k /\ call'[c].at = p /\ call'[c].doc = x /\ call'[c].token = t
        /\ \A d \in Calls \ {c} : call'[d] = call[d]
  BY <1>1 DEF Begin
<1>5. Refresh(c) =>
        /\ call'[c].at \in {"idle", "stored"} /\ \A d \in Calls \ {c} : call'[d] = call[d]
        /\ call'[c].at = "stored" => ~dirty
  BY <1>1, <1>3 DEF Refresh, Is, CallTypes
<1>6. Read(c) =>
        /\ \A d \in Calls \ {c} : call'[d] = call[d]
        /\ \/ call'[c].kind = call[c].kind /\ call'[c].at = "fresh"
              /\ call'[c].doc = Present /\ call'[c].token = Token
           \/ call'[c].at = "idle" /\ call'[c].kind = "none"
  BY <1>1, <1>3 DEF Read
<1> QED
  BY <1>2, <1>3, <1>4, <1>5, <1>6

\* A save's document contains the present version, whoever wrote that: the
\* document contains the version it was read from, and an older one is refused.
LEMMA PutGrows ==
  ASSUME IInv, NEW c \in Calls, Commit(c)
  PROVE  Present \subseteq Present' /\ call[c].doc = Present' /\ call[c].doc \in Documents
<1>1. TypeOK /\ call[c].at = "sent" /\ Put(call[c].doc, call[c].token)
  BY DEF IInv, Commit
<1>2. call[c].doc \in Documents
  BY <1>1 DEF TypeOK
<1>3. call[c].token = Token /\ Present' = call[c].doc
  BY <1>1, <1>2, PutVersion
<1>4. stored[call[c].token] \subseteq call[c].doc
  BY <1>1 DEF IInv, InHand
<1> QED
  BY <1>2, <1>3, <1>4 DEF Present

\* What every step that adds versions preserves.
LEMMA GrownVersions ==
  ASSUME IInv, Token' \in Nat, Token' >= Token, Present \subseteq Present',
         \A i \in 1 .. Token : stored'[i] = stored[i],
         \A i \in 1 .. Token' : i \in 1 .. Token \/ i = Token',
         UNCHANGED session
  PROVE  BaselineIsAVersion' /\ Grown'
<1>1. session.token \in 1 .. Token /\ Token \in Nat \ {0}
  BY SessionFields, PresentType DEF IInv
<1>2. BaselineIsAVersion'
  BY <1>1 DEF IInv, BaselineIsAVersion
<1>3. ASSUME NEW i \in 1 .. Token' PROVE stored'[i] \subseteq Present'
  <2>1. CASE i \in 1 .. Token
    BY <2>1 DEF IInv, Grown
  <2>2. CASE i = Token'
    BY <2>2 DEF Present
  <2> QED
    BY <2>1, <2>2
<1> QED
  BY <1>2, <1>3 DEF Grown

\* What a call that is left alone has in hand stays right.
LEMMA InHandKept ==
  ASSUME IInv, Token' \in Nat, Token' >= Token,
         \A i \in 1 .. Token : stored'[i] = stored[i],
         NEW c \in Calls, call'[c] = call[c]
  PROVE  /\ call'[c].at \in {"sent", "preview", "prompt"} =>
              call'[c].token \in 1 .. Token' /\ stored'[call'[c].token] \subseteq call'[c].doc
         /\ call'[c].at = "fresh" =>
              Resetting(c)' /\ call'[c].token \in 1 .. Token' /\ call'[c].doc = stored'[call'[c].token]
<1>1. Token \in Nat \ {0}
  BY PresentType DEF IInv
<1>2. 1 .. Token \subseteq 1 .. Token'
  BY <1>1
<1> QED
  BY <1>2 DEF IInv, InHand, Resetting

\* Versions, baseline and what calls have in hand fit together.
LEMMA NextVersions == ASSUME IInv, Next PROVE BaselineIsAVersion' /\ InHand' /\ Grown'
<1>0. TypeOK /\ History /\ BaselineIsAVersion /\ InHand /\ Grown
  BY DEF IInv
<1>a. Token \in Nat \ {0} /\ Token \in 1 .. Token /\ Present \in Documents
  BY <1>0, PresentType
<1>b. ASSUME UNCHANGED stored PROVE Grown' /\ Token' = Token /\ Present' = Present
  BY <1>0, <1>b DEF Grown, Token, Present
<1>c. ASSUME UNCHANGED <<session, stored>> PROVE BaselineIsAVersion'
  BY <1>0, <1>c DEF BaselineIsAVersion
<1>d. ASSUME UNCHANGED stored, NEW c \in Calls, \A d \in Calls \ {c} : call'[d] = call[d],
             call'[c].at \in {"sent", "preview", "prompt"} =>
               call'[c].token \in 1 .. Token /\ stored[call'[c].token] \subseteq call'[c].doc,
             call'[c].at = "fresh" =>
               Resetting(c)' /\ call'[c].token \in 1 .. Token /\ call'[c].doc = stored[call'[c].token]
      PROVE  InHand'
  BY <1>b, <1>d, <1>0 DEF InHand, Resetting
<1>1. ASSUME NEW e \in Edits, Edit(e) PROVE BaselineIsAVersion' /\ InHand' /\ Grown'
  <2>1. session'.saved = session.saved /\ session'.token = session.token /\ UNCHANGED <<call, stored>>
    BY <1>0, <1>1, SessionFields DEF Edit
  <2> QED
    BY <1>0, <1>b, <2>1 DEF BaselineIsAVersion, InHand, Resetting
<1>2. CASE Undo
  <2>1. session'.saved = session.saved /\ session'.token = session.token /\ UNCHANGED <<call, stored>>
    BY <1>0, <1>2, SessionFields DEF Undo
  <2> QED
    BY <1>0, <1>b, <2>1 DEF BaselineIsAVersion, InHand, Resetting
<1>3. CASE Redo
  <2>1. session'.saved = session.saved /\ session'.token = session.token /\ UNCHANGED <<call, stored>>
    BY <1>0, <1>3, SessionFields DEF Redo
  <2> QED
    BY <1>0, <1>b, <2>1 DEF BaselineIsAVersion, InHand, Resetting
<1>4. ASSUME NEW e \in OtherEdits, OtherSave(e) PROVE BaselineIsAVersion' /\ InHand' /\ Grown'
  <2>1. /\ Token' \in Nat /\ Token' >= Token /\ \A i \in 1 .. Token : stored'[i] = stored[i]
        /\ \A i \in 1 .. Token' : i \in 1 .. Token \/ i = Token'
        /\ Present \subseteq Present'
    BY <1>0, <1>4, OtherVersion
  <2>2. UNCHANGED <<session, call>>
    BY <1>4 DEF OtherSave
  <2>3. BaselineIsAVersion' /\ Grown'
    BY <2>1, <2>2, GrownVersions
  <2> QED
    BY <2>1, <2>2, <2>3, InHandKept DEF InHand
<1>5. ASSUME NEW c \in Calls, Save(c) PROVE BaselineIsAVersion' /\ InHand' /\ Grown'
  <2>1. /\ call'[c].at = "sent" /\ call'[c].doc = session.doc /\ call'[c].token = session.token
        /\ \A d \in Calls \ {c} : call'[d] = call[d]
    BY <1>0, <1>5, CallFields DEF Save
  <2>2. session.token \in 1 .. Token /\ stored[session.token] \subseteq session.doc
    BY <1>0, SessionFields DEF BaselineIsAVersion, History
  <2> QED
    BY <1>5, <1>b, <1>c, <1>d, <2>1, <2>2 DEF Save
<1>6. ASSUME NEW c \in Calls, Reload(c) PROVE BaselineIsAVersion' /\ InHand' /\ Grown'
  <2>1. call'[c].at \in {"asking", "stored"} /\ \A d \in Calls \ {c} : call'[d] = call[d]
    BY <1>0, <1>6, CallFields DEF Reload
  <2> QED
    BY <1>6, <1>b, <1>c, <1>d, <2>1 DEF Reload
<1>7. ASSUME NEW c \in Calls, AgentRead(c) PROVE BaselineIsAVersion' /\ InHand' /\ Grown'
  <2>1. /\ call'[c].at = "preview" /\ call'[c].doc = Present \cup {AgentEdit[c]} /\ call'[c].token = Token
        /\ \A d \in Calls \ {c} : call'[d] = call[d]
    BY <1>0, <1>7, CallFields DEF AgentRead
  <2>2. stored[Token] = Present
    BY DEF Present
  <2> QED
    BY <1>7, <1>a, <1>b, <1>c, <1>d, <2>1, <2>2 DEF AgentRead
<1>8. ASSUME NEW c \in Calls, Commit(c) PROVE BaselineIsAVersion' /\ InHand' /\ Grown'
  <2>1. Present \subseteq Present' /\ call[c].doc \in Documents /\ Put(call[c].doc, call[c].token)
    BY <1>8, PutGrows DEF Commit
  <2>2. /\ Token' \in Nat /\ Token' >= Token /\ \A i \in 1 .. Token : stored'[i] = stored[i]
        /\ \A i \in 1 .. Token' : i \in 1 .. Token \/ i = Token'
    BY <1>0, <2>1, PutVersion
  <2>3. BaselineIsAVersion' /\ Grown'
    BY <1>8, <2>1, <2>2, GrownVersions DEF Commit
  <2>4. call'[c].at \in {"stored", "idle"} /\ \A d \in Calls \ {c} : call'[d] = call[d]
    BY <1>0, <1>8, CallFields DEF Commit
  <2> QED
    BY <2>2, <2>3, <2>4, InHandKept DEF InHand
<1>9. ASSUME NEW c \in Calls, Refused(c) \/ Answer(c) \/ Refresh(c)
      PROVE  BaselineIsAVersion' /\ InHand' /\ Grown'
  <2>1. call'[c].at \in {"idle", "stored"} /\ \A d \in Calls \ {c} : call'[d] = call[d]
    BY <1>0, <1>9, CallFields DEF Refused, Answer
  <2>2. UNCHANGED <<session, stored>>
    BY <1>9 DEF Refused, Answer, Refresh
  <2> QED
    BY <1>b, <1>c, <1>d, <2>1, <2>2
<1>10. ASSUME NEW c \in Calls, Read(c) PROVE BaselineIsAVersion' /\ InHand' /\ Grown'
  <2>1. /\ \A d \in Calls \ {c} : call'[d] = call[d]
        /\ \/ call'[c].kind = call[c].kind /\ call'[c].at = "fresh"
              /\ call'[c].doc = Present /\ call'[c].token = Token
           \/ call'[c].at = "idle" /\ call'[c].kind = "none"
    BY <1>0, <1>10, CallFields
  <2>2. Present = stored[Token]
    BY DEF Present
  <2>3. Resetting(c) /\ UNCHANGED <<session, stored>>
    BY <1>10 DEF Read
  <2> QED
    BY <1>a, <1>b, <1>c, <1>d, <2>1, <2>2, <2>3 DEF Resetting
<1>11. ASSUME NEW c \in Calls, Reset(c) PROVE BaselineIsAVersion' /\ InHand' /\ Grown'
  <2>1. session'.saved = call[c].doc /\ session'.token = call[c].token /\ UNCHANGED stored
    BY <1>11 DEF Reset
  <2>2. call[c].doc = stored[call[c].token]
    BY <1>0, <1>11 DEF Reset, InHand
  <2>3. call'[c].at = "idle" /\ \A d \in Calls \ {c} : call'[d] = call[d]
    BY <1>0, <1>11, CallFields DEF Reset
  <2> QED
    BY <1>b, <1>d, <2>1, <2>2, <2>3 DEF BaselineIsAVersion
<1>12. ASSUME NEW c \in Calls, AgentAsk(c) \/ AgentAnswered(c)
       PROVE  BaselineIsAVersion' /\ InHand' /\ Grown'
  <2>1. /\ \A d \in Calls \ {c} : call'[d] = call[d]
        /\ \/ call'[c].at = "idle"
           \/ call'[c].at \in {"prompt", "sent"} /\ call'[c].doc = call[c].doc
              /\ call'[c].token = call[c].token
    BY <1>0, <1>12, CallFields DEF AgentAsk, AgentAnswered
  <2>2. call[c].at \in {"preview", "prompt"} /\ UNCHANGED <<session, stored>>
    BY <1>12 DEF AgentAsk, AgentAnswered, Is
  <2> QED
    BY <1>0, <1>b, <1>c, <1>d, <2>1, <2>2 DEF InHand
<1> QED
  BY <1>1, <1>2, <1>3, <1>4, <1>5, <1>6, <1>7, <1>8, <1>9, <1>10, <1>11, <1>12 DEF Next, CallStep
\* The edits that must not get lost stay in the document or the stored
\* program, and what a call that will reset the session brings has them.
LEMMA NextSafe == ASSUME IInv, Next PROVE EditsSurvive' /\ ResetsAreSafe'
<1>0. TypeOK /\ History /\ BaselineIsAVersion /\ InHand /\ Grown /\ ResetsAreSafe
      /\ Safe \subseteq session.doc \cup Present
  BY DEF IInv, EditsSurvive, Safe
<1>a. UNCHANGED stored => Present' = Present
  BY DEF Present, Token
<1>b. session.saved \subseteq Present /\ session.saved \subseteq session.doc
  BY <1>0, SessionFields DEF BaselineIsAVersion, Grown, History
<1>c. ~dirty => Safe \subseteq Present
  BY <1>0, <1>b DEF dirty
<1>d. SUFFICES Safe' \subseteq session'.doc \cup Present' /\ ResetsAreSafe'
  BY DEF EditsSurvive, Safe
\* A step that keeps the session, the edits and the versions.
<1>e. ASSUME UNCHANGED <<session, stored, kept>>, NEW c \in Calls,
             \A d \in Calls \ {c} : call'[d] = call[d],
             Resetting(c)' /\ call'[c].at = "sent" => Safe \subseteq call'[c].doc \cup Present,
             Resetting(c)' /\ call'[c].at \in {"stored", "fresh"} => Safe \subseteq Present
      PROVE  Safe' \subseteq session'.doc \cup Present' /\ ResetsAreSafe'
  <2>1. Safe' = Safe /\ Present' = Present
    BY <1>e, <1>a DEF Safe, kept
  <2> QED
    BY <1>0, <1>e, <2>1 DEF ResetsAreSafe, Resetting
\* A developer's step with no call on its way, or with nothing more to keep.
<1>f. ASSUME UNCHANGED <<call, stored>>, Safe' \subseteq session'.doc \cup Present,
             Safe' \subseteq Safe \/ \A c \in Calls : ~Resetting(c)
      PROVE  Safe' \subseteq session'.doc \cup Present' /\ ResetsAreSafe'
  BY <1>0, <1>a, <1>f DEF ResetsAreSafe, Resetting
<1>1. ASSUME NEW e \in Edits, Edit(e) PROVE Safe' \subseteq session'.doc \cup Present' /\ ResetsAreSafe'
  <2>1. session'.doc = session.doc \cup {e} /\ UNCHANGED <<call, stored>>
    BY <1>0, <1>1, SessionFields DEF Edit
  <2>2. Safe' \subseteq Safe \cup {e} /\ (Safe' \subseteq Safe \/ \A c \in Calls : ~Resetting(c))
    BY <1>1 DEF Edit, Safe, Hurried
  <2> QED
    BY <1>0, <1>f, <2>1, <2>2
<1>2. CASE Undo
  <2>1. UNCHANGED <<call, stored>> /\ Safe' = Safe \ (session.doc \ session'.doc)
    BY <1>2 DEF Undo, Safe
  <2> QED
    BY <1>0, <1>f, <2>1
<1>3. CASE Redo
  <2>1. session'.doc = Last(session.future) /\ session.future \in Seq(Documents)
    BY <1>0, <1>3, SessionFields
  <2>2. session.doc \subseteq session'.doc
    BY <1>0, <1>3, <2>1, FrontOfHistory DEF Redo, History
  <2>3. Safe' \subseteq Safe \cup (session'.doc \ session.doc)
        /\ (Safe' \subseteq Safe \/ \A c \in Calls : ~Resetting(c))
    BY <1>3 DEF Redo, Safe, Hurried
  <2>4. UNCHANGED <<call, stored>>
    BY <1>3 DEF Redo
  <2> QED
    BY <1>0, <1>f, <2>2, <2>3, <2>4
<1>4. ASSUME NEW e \in OtherEdits, OtherSave(e)
      PROVE  Safe' \subseteq session'.doc \cup Present' /\ ResetsAreSafe'
  <2>1. Present \subseteq Present'
    BY <1>0, <1>4, OtherVersion
  <2>2. UNCHANGED <<session, call>> /\ Safe' = Safe
    BY <1>4 DEF OtherSave, Safe, kept
  <2> QED
    BY <1>0, <2>1, <2>2 DEF ResetsAreSafe, Resetting
<1>5. ASSUME NEW c \in Calls, Save(c) PROVE Safe' \subseteq session'.doc \cup Present' /\ ResetsAreSafe'
  <2>1. call'[c].at = "sent" /\ call'[c].doc = session.doc /\ \A d \in Calls \ {c} : call'[d] = call[d]
    BY <1>0, <1>5, CallFields DEF Save
  <2> QED
    BY <1>0, <1>5, <1>e, <2>1 DEF Save
<1>6. ASSUME NEW c \in Calls, Reload(c) PROVE Safe' \subseteq session'.doc \cup Present' /\ ResetsAreSafe'
  <2>1. /\ call'[c].at = IF dirty THEN "asking" ELSE "stored"
        /\ \A d \in Calls \ {c} : call'[d] = call[d]
    BY <1>0, <1>6, CallFields DEF Reload
  <2> QED
    BY <1>6, <1>c, <1>e, <2>1 DEF Reload
<1>7. ASSUME NEW c \in Calls, AgentRead(c) PROVE Safe' \subseteq session'.doc \cup Present' /\ ResetsAreSafe'
  <2>1. call'[c].kind = "agent" /\ \A d \in Calls \ {c} : call'[d] = call[d]
    BY <1>0, <1>7, CallFields DEF AgentRead
  <2> QED
    BY <1>7, <1>e, <2>1 DEF AgentRead, Resetting
<1>8. ASSUME NEW c \in Calls, Commit(c) PROVE Safe' \subseteq session'.doc \cup Present' /\ ResetsAreSafe'
  <2>1. Present \subseteq Present' /\ call[c].doc = Present' /\ call[c].at = "sent"
    BY <1>8, PutGrows DEF Commit
  <2>2. UNCHANGED session /\ Safe' = Safe
    BY <1>8 DEF Commit, Safe, kept
  <2>3. /\ \A d \in Calls \ {c} : call'[d] = call[d]
        /\ \/ call'[c].kind = call[c].kind /\ call'[c].at = "stored"
           \/ call'[c].kind = "none"
    BY <1>0, <1>8, CallFields DEF Commit
  <2>4. Resetting(c) => Safe \subseteq Present'
    BY <1>0, <2>1 DEF ResetsAreSafe
  <2> QED
    BY <1>0, <2>1, <2>2, <2>3, <2>4 DEF ResetsAreSafe, Resetting
<1>9. ASSUME NEW c \in Calls, Answer(c) PROVE Safe' \subseteq session'.doc \cup Present' /\ ResetsAreSafe'
  <2>0. UNCHANGED <<session, stored, made, hasty>> /\ \A d \in Calls \ {c} : call'[d] = call[d]
    BY <1>0, <1>9, CallFields DEF Answer
  <2>1. CASE Move(c, "stored") /\ given' = given \cup (session.doc \ session.saved)
    <3>1. Safe' \subseteq Safe /\ Safe' \subseteq Present
      BY <1>0, <1>b, <2>0, <2>1 DEF Safe
    <3>2. call'[c].at = "stored"
      BY <1>0, <2>1, CallFields
    <3>3. Present' = Present
      BY <1>a, <2>0
    <3> QED
      BY <1>0, <2>0, <3>1, <3>2, <3>3 DEF ResetsAreSafe, Resetting
  <2>2. CASE Finish(c) /\ UNCHANGED given
    <3>1. call'[c].kind = "none"
      BY <1>0, <2>2, CallFields
    <3> QED
      BY <1>e, <2>0, <2>2, <3>1 DEF Resetting, kept
  <2> QED
    BY <1>9, <2>1, <2>2 DEF Answer
<1>10. ASSUME NEW c \in Calls, Read(c) PROVE Safe' \subseteq session'.doc \cup Present' /\ ResetsAreSafe'
  <2>1. Safe \subseteq Present
    BY <1>0, <1>10 DEF Read, ResetsAreSafe
  <2>2. /\ \A d \in Calls \ {c} : call'[d] = call[d]
        /\ call'[c].at = "fresh" \/ call'[c].kind = "none"
    BY <1>0, <1>10, CallFields
  <2> QED
    BY <1>10, <1>e, <2>1, <2>2 DEF Read, Resetting
<1>11. ASSUME NEW c \in Calls, Reset(c) PROVE Safe' \subseteq session'.doc \cup Present' /\ ResetsAreSafe'
  <2>1. Safe \subseteq Present
    BY <1>0, <1>11 DEF Reset, ResetsAreSafe, InHand
  <2>2. UNCHANGED stored /\ Present' = Present /\ Safe' = Safe
    BY <1>11, <1>a DEF Reset, Safe, kept
  <2>3. call'[c].kind = "none" /\ \A d \in Calls \ {c} : call'[d] = call[d]
    BY <1>0, <1>11, CallFields DEF Reset
  <2> QED
    BY <1>0, <2>1, <2>2, <2>3 DEF ResetsAreSafe, Resetting
<1>12. ASSUME NEW c \in Calls, Refused(c) \/ AgentAsk(c) \/ AgentAnswered(c)
       PROVE  Safe' \subseteq session'.doc \cup Present' /\ ResetsAreSafe'
  <2>1. /\ \A d \in Calls \ {c} : call'[d] = call[d]
        /\ call'[c].kind \in {"none", "agent"}
    BY <1>0, <1>12, CallFields DEF Refused, AgentAsk, AgentAnswered, Is
  <2>2. UNCHANGED <<session, stored, kept>>
    BY <1>12 DEF Refused, AgentAsk, AgentAnswered
  <2> QED
    BY <1>e, <2>1, <2>2 DEF Resetting
<1>13. ASSUME NEW c \in Calls, Refresh(c) PROVE Safe' \subseteq session'.doc \cup Present' /\ ResetsAreSafe'
  <2>1. /\ call'[c].at \in {"idle", "stored"} /\ \A d \in Calls \ {c} : call'[d] = call[d]
        /\ call'[c].at = "stored" => ~dirty
    BY <1>0, <1>13, CallFields
  <2> QED
    BY <1>13, <1>c, <1>e, <2>1 DEF Refresh
<1> QED
  BY <1>1, <1>2, <1>3, <1>4, <1>5, <1>6, <1>7, <1>8, <1>9, <1>10, <1>11, <1>12, <1>13
  DEF Next, CallStep

\* A step that changes nothing keeps the invariant.
LEMMA StutterIInv == ASSUME IInv, UNCHANGED vars PROVE IInv'
<1>1. UNCHANGED <<session, call, stored, made, hasty, given>>
  BY DEF vars
<1>2. Present' = Present /\ Token' = Token /\ Safe' = Safe
  BY <1>1 DEF Present, Token, Safe
<1>3. TypeOK' /\ History' /\ BaselineIsAVersion'
  BY <1>1, <1>2 DEF IInv, TypeOK, Sessions, History, BaselineIsAVersion
<1>4. InHand' /\ Grown' /\ ResetsAreSafe'
  BY <1>1, <1>2 DEF IInv, InHand, Grown, ResetsAreSafe, Resetting
<1>5. EditsSurvive'
  BY <1>1, <1>2 DEF IInv, EditsSurvive
<1> QED
  BY <1>3, <1>4, <1>5 DEF IInv

\* Every reachable state satisfies the invariant of the session and its canvas.
THEOREM Inductive == Spec => []IInv
<1>1. Init => IInv
  BY InitIInv
<1>2. ASSUME IInv, Next PROVE IInv'
  <2>1. TypeOK'
    BY <1>2, NextTypeOK DEF IInv
  <2> QED
    BY <1>2, <2>1, NextHistory, NextVersions, NextSafe DEF IInv
<1>3. IInv /\ [Next]_vars => IInv'
  BY <1>2, StutterIInv
<1> QED
  BY <1>1, <1>3, PTL DEF Spec

-------------------------------------------------------------------------------
(***************************************************************************)
(* Theorems                                                                *)
(***************************************************************************)
\* Session, calls and versions keep their types, and the undo history never
\* holds more documents than its limit (AeSession's apply, undo, redo, reset).
THEOREM Typing == Spec => []TypeOK
<1>1. IInv => TypeOK
  BY DEF IInv
<1> QED
  BY Inductive, <1>1, PTL

\* What the session takes for the stored program (AeSession's baseline) was
\* the stored program at the version its token names.
THEOREM BaselineIsAVersionHolds == Spec => []BaselineIsAVersion
<1>1. IInv => BaselineIsAVersion
  BY DEF IInv
<1> QED
  BY Inductive, <1>1, PTL

\* An edit stays in the document until it is stored, undone or given up,
\* unless it was made while a call that resets the session was on its way.
THEOREM EditsSurviveHolds == Spec => []EditsSurvive
<1>1. IInv => EditsSurvive
  BY DEF IInv
<1> QED
  BY Inductive, <1>1, PTL

\* No save takes out of the stored program what its author had not seen there:
\* the writer's comparison of tokens under its lock is enough.
THEOREM NothingOverwrittenHolds == Spec => NothingOverwritten
<1>1. ASSUME IInv, [Next]_vars PROVE [Present \subseteq Present']_stored
  <2>1. ASSUME NEW e \in OtherEdits, OtherSave(e) PROVE Present \subseteq Present'
    BY <1>1, <2>1, OtherVersion DEF IInv
  <2>2. ASSUME NEW c \in Calls, Commit(c) PROVE Present \subseteq Present'
    BY <1>1, <2>2, PutGrows
  <2>3. CASE UNCHANGED stored
    BY <2>3
  <2> QED
    BY <1>1, <2>1, <2>2, <2>3
    DEF Next, vars, Edit, Undo, Redo, Save, Reload, AgentRead, CallStep, Refused, Answer, Read,
        Reset, AgentAsk, AgentAnswered, Refresh
<1> QED
  BY Inductive, <1>1, PTL DEF Spec, NothingOverwritten
===============================================================================
