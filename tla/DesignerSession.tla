---------------------------- MODULE DesignerSession ----------------------------
(***************************************************************************)
(* One App Engine program in its designer, while an agent edits it too:    *)
(* src/model/aeSession.ts (the document, its baseline, undo and redo) and  *)
(* what editors/aeDesignerPanel.ts and mcp/appEngineTools.ts do with it.   *)
(* The component interface, menu, channel and file layout designers have   *)
(* sessions and panels of the same shape.                                  *)
(*                                                                         *)
(* A document is the set of the edits it contains, and edits only add, so  *)
(* that what is lost is what disappears.  The panel handles every message  *)
(* in a call of its own: a save, a reload and the refresh after an agent's *)
(* save may be waiting for the database at the same time, and the          *)
(* developer types on meanwhile.                                           *)
(***************************************************************************)
EXTENDS Naturals, Sequences

CONSTANTS
  Edits,       \* the developer's edits
  OtherEdits,  \* edits by App Designer and other windows
  Calls,       \* calls that are waiting at the same time
  AgentEdit,   \* AgentEdit[c]: the edit of call c if it is the agent's
  Limit        \* how many documents the undo history holds

ASSUME LimitAssumption == Limit \in Nat \ {0}

VARIABLES
  session,  \* AeSession: doc, saved, token, past and future
  call,     \* the calls: what for, how far, and the document and token in hand
  stored,   \* every version of the program; the last is the present one
  made,     \* history: edits the developer made
  hasty,    \* history: edits made while a call could reset the session
  given     \* history: edits undone or discarded by the developer

vars == <<session, call, stored, made, hasty, given>>
kept == <<made, hasty, given>>

AllEdits == Edits \cup OtherEdits \cup {AgentEdit[c] : c \in Calls}
Free == [kind |-> "none", at |-> "idle", doc |-> {}, token |-> 0]
\* A token is that of one version; a save of the same content makes a new one.
Token == Len(stored)
Present == stored[Token]

Init ==
  /\ session = [doc |-> {}, saved |-> {}, token |-> 1, past |-> <<>>, future |-> <<>>]
  /\ call = [c \in Calls |-> Free]
  /\ stored = <<{}>>
  /\ made = {} /\ hasty = {} /\ given = {}

dirty == session.doc # session.saved
Resetting(c) == call[c].kind \in {"save", "reload", "refresh"}
Hurried(edits) == hasty' = IF \E c \in Calls : Resetting(c) THEN hasty \cup edits ELSE hasty

Is(c, kind, at) == call[c].kind = kind /\ call[c].at = at
Move(c, at) == call' = [call EXCEPT ![c].at = at]
Finish(c) == call' = [call EXCEPT ![c] = Free]
Begin(c, kind, at, doc, token) ==
  /\ call[c] = Free
  /\ call' = [call EXCEPT ![c] = [kind |-> kind, at |-> at, doc |-> doc, token |-> token]]

-------------------------------------------------------------------------------
(***************************************************************************)
(* The developer's edits                                                   *)
(***************************************************************************)
Last(s) == s[Len(s)]
Front(s) == [i \in 1 .. Len(s) - 1 |-> s[i]]

Bounded(s) == IF Len(s) > Limit THEN Tail(s) ELSE s

\* apply(): the new document, one more to undo, nothing to redo.
Edit(e) ==
  /\ e \notin made /\ made' = made \cup {e}
  /\ session' = [session EXCEPT !.doc = @ \cup {e}, !.future = <<>>,
                   !.past = Bounded(Append(@, session.doc))]
  /\ Hurried({e})
  /\ UNCHANGED <<call, stored, given>>

Undo ==
  /\ session.past # <<>>
  /\ session' = [session EXCEPT !.doc = Last(session.past), !.past = Front(@),
                   !.future = Append(@, session.doc)]
  /\ given' = given \cup (session.doc \ session'.doc)
  /\ UNCHANGED <<call, stored, made, hasty>>

Redo ==
  /\ session.future # <<>>
  /\ session' = [session EXCEPT !.doc = Last(session.future), !.future = Front(@),
                   !.past = Append(@, session.doc)]
  /\ given' = given \ (session'.doc \ session.doc)
  /\ Hurried(session'.doc \ session.doc)
  /\ UNCHANGED <<call, stored, made>>

-------------------------------------------------------------------------------
(***************************************************************************)
(* The database: a writer reads the stored program under lock, compares    *)
(* its token with the one the document was opened with, and writes.        *)
(***************************************************************************)
\* Faulty: the token is not compared.
PutUnchecked(doc, token) == stored' = Append(stored, doc)

\* Nothing is written when the document is the stored one.
Put(doc, token) ==
  /\ token = Token
  /\ stored' = IF doc = Present THEN stored ELSE Append(stored, doc)

\* The commit; its answer may be lost, which the panel shows as "Not saved".
Commit(c) ==
  /\ call[c].at = "sent"
  /\ Put(call[c].doc, call[c].token)
  /\ Move(c, "stored") \/ Finish(c)
  /\ UNCHANGED <<session, kept>>

\* The program changed since it was read, or the save fails otherwise.
Refused(c) == call[c].at = "sent" /\ Finish(c) /\ UNCHANGED <<session, stored, kept>>

OtherSave(e) ==
  /\ e \notin Present
  /\ stored' = Append(stored, Present \cup {e})
  /\ UNCHANGED <<session, call, kept>>

-------------------------------------------------------------------------------
(***************************************************************************)
(* The panel's save and reload                                             *)
(***************************************************************************)
\* save(): sends the document and the token as they are now.
Save(c) ==
  /\ Begin(c, "save", "sent", session.doc, session.token)
  /\ UNCHANGED <<session, stored, kept>>

\* "reload": unsaved changes are given up only after a modal question.
Reload(c) ==
  /\ Begin(c, "reload", IF dirty THEN "asking" ELSE "stored", {}, 0)
  /\ UNCHANGED <<session, stored, kept>>

Answer(c) ==
  /\ Is(c, "reload", "asking")
  /\ \/ Move(c, "stored") /\ given' = given \cup (session.doc \ session.saved)
     \/ Finish(c) /\ UNCHANGED given
  /\ UNCHANGED <<session, stored, made, hasty>>

\* host.reload() reads the program ...
Read(c) ==
  /\ call[c].at = "stored" /\ Resetting(c)
  /\ \/ call' = [call EXCEPT ![c] = [kind |-> @.kind, at |-> "fresh", doc |-> Present, token |-> Token]]
     \/ Finish(c)
  /\ UNCHANGED <<session, stored, kept>>

\* Faulty: the document on the screen is taken for the one that was stored.
ResetKeepsDocument(c) ==
  /\ call[c].at = "fresh"
  /\ session' = [session EXCEPT !.saved = session.doc, !.token = call[c].token]
  /\ Finish(c)
  /\ UNCHANGED <<stored, kept>>

\* ... and reset() makes what it read the document and the baseline.
Reset(c) ==
  /\ call[c].at = "fresh"
  /\ session' = [doc |-> call[c].doc, saved |-> call[c].doc, token |-> call[c].token,
                 past |-> <<>>, future |-> <<>>]
  /\ Finish(c)
  /\ UNCHANGED <<stored, kept>>

-------------------------------------------------------------------------------
(***************************************************************************)
(* The agent's edit of the program                                         *)
(***************************************************************************)
\* psft_ae_edit reads the program and applies its operations.
AgentRead(c) ==
  /\ AgentEdit[c] \notin Present
  /\ Begin(c, "agent", "preview", Present \cup {AgentEdit[c]}, Token)
  /\ UNCHANGED <<session, stored, kept>>

\* saveDoc previews the save and asks, unless the designer has unsaved
\* changes; the developer answers later.
AgentAsk(c) ==
  /\ Is(c, "agent", "preview")
  /\ IF call[c].token = Token /\ ~dirty THEN Move(c, "prompt") ELSE Finish(c)
  /\ UNCHANGED <<session, stored, kept>>

AgentAnswered(c) ==
  /\ Is(c, "agent", "prompt")
  /\ Move(c, "sent") \/ Finish(c)
  /\ UNCHANGED <<session, stored, kept>>

\* Faulty: the designer shows the stored program whatever it holds.
RefreshAlways(c) ==
  /\ Is(c, "agent", "stored")
  /\ call' = [call EXCEPT ![c].kind = "refresh"]
  /\ UNCHANGED <<session, stored, kept>>

\* host.saved: reloadIfOpen leaves a designer with unsaved changes alone.
Refresh(c) ==
  /\ Is(c, "agent", "stored")
  /\ IF dirty THEN Finish(c) ELSE call' = [call EXCEPT ![c].kind = "refresh"]
  /\ UNCHANGED <<session, stored, kept>>

CallStep(c) ==
  \/ Commit(c) \/ Refused(c) \/ Answer(c) \/ Read(c) \/ Reset(c)
  \/ AgentAsk(c) \/ AgentAnswered(c) \/ Refresh(c)

Next ==
  \/ \E e \in Edits : Edit(e)
  \/ Undo \/ Redo
  \/ \E e \in OtherEdits : OtherSave(e)
  \/ \E c \in Calls : Save(c) \/ Reload(c) \/ AgentRead(c) \/ CallStep(c)

Spec == Init /\ [][Next]_vars

-------------------------------------------------------------------------------
(***************************************************************************)
(* Properties                                                              *)
(***************************************************************************)
Documents == SUBSET AllEdits
Kinds == {"none", "save", "reload", "refresh", "agent"}
Points == {"idle", "sent", "stored", "asking", "fresh", "preview", "prompt"}

Sessions ==
  [doc : Documents, saved : Documents, token : 1 .. Token, past : Seq(Documents), future : Seq(Documents)]

\* Every variable has its type, and the history holds no more than its limit.
TypeOK ==
  /\ session \in Sessions
  /\ Len(session.past) + Len(session.future) <= Limit
  /\ call \in [Calls -> [kind : Kinds, at : Points, doc : Documents, token : 0 .. Token]]
  /\ stored \in Seq(Documents) /\ stored # <<>>
  /\ made \subseteq Edits /\ hasty \subseteq AllEdits /\ given \subseteq AllEdits

\* No save of the designer, of the agent or of anybody else takes out of the
\* stored program what its author had not seen there: whoever saved first,
\* the other is refused.
NothingOverwritten == [][Present \subseteq Present']_stored

\* What the session takes for the stored program was the stored program, at
\* the version its token names, whichever calls came back in which order.
BaselineIsAVersion == session.saved = stored[session.token]

\* An edit of the developer stays in the document until it is stored, undone,
\* or given up in the reload question, unless it was made while a call that
\* resets the session was on its way.
EditsSurvive == made \ (hasty \cup given) \subseteq session.doc \cup Present

\* docs/MCP_WRITES.md: an agent's write is refused when the program is open
\* in the designer with unsaved changes.
AgentSparesUnsaved ==
  [][\A c \in Calls : Is(c, "agent", "sent") /\ stored' # stored /\ call'[c] # call[c] => ~dirty]_vars
===============================================================================
