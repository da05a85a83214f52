-------------------------- MODULE ReviewLineage_proofs --------------------------
(***************************************************************************)
(* Proofs about Change Sets that follow other Change Sets, for any         *)
(* objects, dependencies and contents and any number of sets.              *)
(*                                                                         *)
(* A partial application has one follow-up because its status and its      *)
(* untouched objects outlive every other operation; an undo restores what  *)
(* a set had found because the publication checks, after the last write,   *)
(* each source against the inverse steps, and only others' saves can       *)
(* change the database from then on.  A dependent never is in the database *)
(* without its prerequisites because a set leads its objects one way, with *)
(* the dependencies turned round when it leads back, and an inverse owns   *)
(* or pins everything its chain brought about.                             *)
(***************************************************************************)
EXTENDS ReviewLineage, FiniteSetTheorems, TLAPS

SetType ==
  [status : Statuses, reverses : Ids \cup {None}, follows : Ids \cup {None}, pins : SUBSET PinType,
   mapped : SUBSET Objects, bound : BOOLEAN, sources : SUBSET PinType, revertedBy : Ids \cup {None}, objs : [Objects -> ObjectType]]

TypeInv ==
  /\ sets \in [Ids -> SetType]
  /\ db \in [Objects -> [value : Contents, version : Nat, token : Nat]]
  /\ pc \in {"idle", "writing", "writer", "publish", "mark"}
  /\ at \in Ids \cup {None} /\ op \in {"none", "apply", "recover"}
  /\ (pc = "idle") = (at = None) /\ (pc = "idle") = (op = "none")
  /\ pc \in {"writing", "writer"} => sets[at].status = "APPLYING"
  /\ edits \in Nat /\ restaged \subseteq Ids

\* Sets are numbered without gaps, follow and reverse sets that exist, and
\* pin nothing unless they follow one.
Numbered == \E n \in 0 .. MaxSets : Used = 1 .. n
Linked ==
  \A j \in Used : /\ sets[j].follows # None => sets[j].follows \in Used
                  /\ sets[j].reverses # None => sets[j].reverses \in Used
                  /\ sets[j].follows = None => sets[j].pins = {}

\* Nothing of a set is written before its application has begun, and nothing
\* but its members ever is.
Unapplied == {"NONE", "DRAFT", "APPROVED", "CONFLICTED", "FAILED", "CANCELLED"}
Untouched ==
  \A i \in Ids, o \in Objects : sets[i].objs[o].application # "PENDING" =>
    sets[i].status \notin Unapplied /\ o \in Members(sets[i])

\* A set that is continued keeps a partial outcome and the objects its
\* continuation took over, as untouched as they were.
Retained ==
  \A i \in Ids : Continuing(i) # {} => /\ sets[i].status \in {"PARTIALLY_APPLIED", "REVERTED"}
                                       /\ Unwritten(sets[i]) # {}
Single == \A i \in Ids : \A j, k \in Continuing(i) : j = k

\* What is being published has nothing left to write.
Publishing ==
  pc \in {"publish", "mark"} => /\ sets[at].status \in {"APPLIED", "REVERTED"}
                                /\ sets[at].reverses # None
                                /\ Unwritten(sets[at]) = {}

\* While an operation runs, what its set verified is what the database holds.
StillLive ==
  pc # "idle" /\ edits = 0 =>
    \A o \in InState(sets[at], {"VERIFIED"}) : db[o].value = sets[at].objs[o].after

\* An inverse of a single set, as it was made, leads every object that set
\* verified back to what it had found, and the set stays what it was.
Inverses ==
  \A j \in Used \ restaged : sets[j].reverses # None /\ ~sets[j].bound =>
    LET s == sets[j].reverses
    IN  /\ sets[s].status \in {"APPLIED", "REVERTED"} /\ at # s
        /\ \A o \in InState(sets[s], {"VERIFIED"}) :
             o \in Members(sets[j]) /\ sets[j].objs[o].after = sets[s].objs[o].before

\* Once the publication has checked the lineage, every source is undone.
Checked == sets[at].bound \/ at \notin restaged
Restored ==
  pc = "mark" /\ edits = 0 /\ Checked =>
    \A s \in SourceIds(sets[at]) : \A o \in InState(sets[s], {"VERIFIED"}) :
      db[o].value = sets[s].objs[o].before

IInv == /\ TypeInv /\ Numbered /\ Linked /\ Untouched /\ Retained /\ Single
        /\ Publishing /\ StillLive /\ Inverses /\ Restored

-------------------------------------------------------------------------------
(***************************************************************************)
(* What the operators on a record return                                   *)
(***************************************************************************)
\* The objects of a set, and a set, when there is none.
LEMMA NoValues == Absent \in Contents /\ NoObject \in ObjectType /\ NoSet \in SetType
<1>1. NoObject \in ObjectType
  BY ValuesAssumption DEF NoObject, ObjectType
<1> QED
  BY <1>1, ValuesAssumption DEF NoSet, SetType, Statuses, None

\* Tokens are numbers.
LEMMA TokenType ==
  ASSUME NEW o, NEW value \in Contents, NEW version \in Nat
  PROVE  Token(o, value, version) \in Nat
  BY FingerprintAssumption DEF Token

\* Two records of one set, before and after an operation on it.
SameLinks(a, b) ==
  /\ a.reverses = b.reverses /\ a.follows = b.follows /\ a.pins = b.pins
  /\ a.bound = b.bound /\ a.sources = b.sources
SameLineage(a, b) ==
  /\ SameLinks(a, b)
  /\ \A o \in Objects : /\ a.objs[o].in = b.objs[o].in
                        /\ a.objs[o].before = b.objs[o].before
                        /\ a.objs[o].after = b.objs[o].after

\* An application that ends early leaves no object at its writer.
LEMMA StoppedType ==
  ASSUME NEW set \in SetType
  PROVE  LET new == Stopped(set)
         IN  /\ new \in SetType /\ SameLineage(new, set)
             /\ new.status \in {"PARTIALLY_APPLIED", "FAILED"}
             /\ new.status = "FAILED" => \A o \in Objects : new.objs[o].application = "PENDING"
             /\ \A o \in Objects :
                  /\ new.objs[o].approved = set.objs[o].approved /\ new.objs[o].deps = set.objs[o].deps
                  /\ new.objs[o].application # "PENDING" <=> set.objs[o].application # "PENDING"
<1> DEFINE objs == [o \in Objects |-> IF set.objs[o].application = "APPLYING"
                                   THEN [set.objs[o] EXCEPT !.application = "UNCERTAIN"] ELSE set.objs[o]]
           touched == \E o \in Objects : objs[o].application \in {"VERIFIED", "UNCERTAIN"}
           s == IF touched THEN "PARTIALLY_APPLIED" ELSE "FAILED"
           new == [set EXCEPT !.objs = objs, !.status = s]
<1>1. ASSUME NEW o \in Objects
      PROVE  /\ objs[o] \in ObjectType
             /\ objs[o].in = set.objs[o].in /\ objs[o].before = set.objs[o].before
             /\ objs[o].after = set.objs[o].after
             /\ objs[o].application \in {"PENDING", "VERIFIED", "UNCERTAIN"}
             /\ objs[o].approved = set.objs[o].approved /\ objs[o].deps = set.objs[o].deps
             /\ objs[o].application # "PENDING" <=> set.objs[o].application # "PENDING"
  BY DEF SetType, ObjectType
<1>2. objs \in [Objects -> ObjectType]
  BY <1>1
<1>3. Stopped(set) = new
  BY DEF Stopped
<1> HIDE DEF objs
<1>4. s \in Statuses /\ s \in {"PARTIALLY_APPLIED", "FAILED"} /\ (s = "FAILED" => ~touched)
  BY DEF Statuses
<1> HIDE DEF s
<1>5. \A o \in Objects : /\ objs[o].in = set.objs[o].in
                         /\ objs[o].before = set.objs[o].before
                         /\ objs[o].after = set.objs[o].after
  BY <1>1
<1>6. new = [set EXCEPT !.objs = objs, !.status = s]
  OBVIOUS
<1> HIDE DEF new
<1>7. new \in SetType /\ SameLineage(new, set) /\ new.status = s /\ new.objs = objs
  BY <1>2, <1>4, <1>5, <1>6 DEF SetType, SameLineage, SameLinks
<1> QED
  BY <1>1, <1>3, <1>4, <1>7

\* A reconciliation decides about the outcome of an object that was handed to
\* its writer, and calls it verified when its value is live.
LEMMA ReconciledType ==
  ASSUME NEW c \in ObjectType, NEW o \in Objects, db[o].token \in Nat
  PROVE  LET new == Reconciled(c, o)
         IN  /\ new \in ObjectType
             /\ new.in = c.in /\ new.before = c.before /\ new.after = c.after /\ new.approved = c.approved
             /\ new.deps = c.deps
             /\ c.application # "PENDING" /\ db[o].value = c.after => new.application = "VERIFIED"
             /\ c.application = "PENDING" => new = c
             /\ c.application # "PENDING" /\ new.application = "VERIFIED" => db[o].value = c.after
<1> DEFINE verified == [c EXCEPT !.application = "VERIFIED", !.verified = db[o].token]
           pending == [c EXCEPT !.application = "PENDING", !.verified = 0]
           uncertain == [c EXCEPT !.application = "UNCERTAIN"]
           Same(d) == d \in ObjectType /\ d.in = c.in /\ d.before = c.before /\ d.after = c.after /\ d.approved = c.approved /\ d.deps = c.deps
<1>1. Same(verified) /\ verified.application = "VERIFIED"
  BY DEF ObjectType
<1>2. Same(pending) /\ pending.application = "PENDING"
  BY DEF ObjectType
<1>3. Same(uncertain) /\ uncertain.application = "UNCERTAIN"
  BY DEF ObjectType
<1>4. Reconciled(c, o) = IF c.application = "PENDING" THEN c
                         ELSE IF db[o].value = c.after THEN verified
                         ELSE IF c.application # "VERIFIED" /\ AtBaseline(c, o) THEN pending ELSE uncertain
  BY DEF Reconciled
<1> HIDE DEF verified, pending, uncertain
<1> QED
  BY <1>1, <1>2, <1>3, <1>4

-------------------------------------------------------------------------------
(***************************************************************************)
(* Steps that put one record                                               *)
(***************************************************************************)
\* The parts of the invariant that are about the records.
Records == Numbered /\ Linked /\ Untouched /\ Retained /\ Single /\ Inverses

\* Whatever is continued keeps a partial outcome in this step.
Outcomes == \A i \in Ids : Continuing(i) # {} => sets'[i].status \in {"PARTIALLY_APPLIED", "REVERTED"}

\* The record of one set is replaced.
LEMMA PutType ==
  ASSUME TypeInv, NEW i \in Ids, NEW set \in SetType, Put(i, set)
  PROVE  sets' \in [Ids -> SetType] /\ \A k \in Ids : sets'[k] = IF k = i THEN set ELSE sets[k]
  BY DEF Put, TypeInv

\* The new record of a set proposes what the old one does; it does not revive
\* a cancelled set, keeps what a continuation rests on, and is no source of an
\* inverse unless only its status changes.
LEMMA RevisedKeeps ==
  ASSUME IInv, NEW i \in Used, NEW set \in SetType, Put(i, set), restaged \subseteq restaged',
         \/ SameLineage(set, sets[i])
         \/ SameLinks(set, sets[i]) /\ i \in restaged' /\ sets[i].status \notin {"APPLIED", "REVERTED"},
         set.status # "NONE", sets[i].status = "CANCELLED" => set.status = "CANCELLED",
         Continuing(i) # {} =>
           set.status \in {"PARTIALLY_APPLIED", "REVERTED"} /\ Unwritten(set) # {},
         \A o \in Objects : set.objs[o].application # "PENDING" =>
           set.status \notin Unapplied /\ o \in Members(set),
         \/ set.objs = sets[i].objs /\ set.status \in {"APPLIED", "REVERTED"}
         \/ sets[i].status \notin {"APPLIED", "REVERTED"}
         \/ at = i,
         at' \in {at, None} \/ (at' = i /\ sets[i].status \notin {"APPLIED", "REVERTED"})
  PROVE  Records' /\ Outcomes /\ sets' \in [Ids -> SetType]
<1>0. TypeInv /\ i \in Ids
  BY DEF IInv, Used
<1>1. sets' \in [Ids -> SetType] /\ \A k \in Ids : sets'[k] = IF k = i THEN set ELSE sets[k]
  BY <1>0, PutType
<1>2. Used' = Used
  BY <1>0, <1>1 DEF Used
<1>3. \A k \in Ids : /\ sets'[k].follows = sets[k].follows /\ sets'[k].reverses = sets[k].reverses
                     /\ sets'[k].pins = sets[k].pins /\ sets'[k].bound = sets[k].bound
  BY <1>0, <1>1 DEF SameLinks, SameLineage
<1>4. Numbered' /\ Linked'
  BY <1>2, <1>3 DEF IInv, Numbered, Linked, Used
<1>5. Untouched'
  BY <1>1 DEF IInv, Untouched, Members
<1>6. \A k \in Ids : Continuing(k)' \subseteq Continuing(k)
  BY <1>1, <1>2, <1>3 DEF Continuing, Used
<1>7. \A k \in Ids : Continuing(k) # {} => /\ sets'[k].status \in {"PARTIALLY_APPLIED", "REVERTED"}
                                           /\ Unwritten(sets'[k]) # {}
  BY <1>0, <1>1 DEF IInv, Retained
<1>8. Retained' /\ Single'
  <2>1. \A k \in Ids : Unwritten(sets[k])' = Unwritten(sets'[k])
    BY DEF Unwritten, Approved, Members
  <2> QED
    BY <1>6, <1>7, <2>1 DEF IInv, Retained, Single
<1>9. Inverses'
  <2> SUFFICES ASSUME NEW j \in Used \ restaged', sets'[j].reverses # None, ~sets'[j].bound
               PROVE  LET s == sets'[j].reverses
                      IN  /\ sets'[s].status \in {"APPLIED", "REVERTED"} /\ at' # s
                          /\ \A o \in InState(sets'[s], {"VERIFIED"}) :
                               o \in Members(sets'[j]) /\ sets'[j].objs[o].after = sets'[s].objs[o].before
    BY <1>2 DEF Inverses, InState, Members
  <2> DEFINE s == sets[j].reverses
  <2>1. j \in Ids \ restaged /\ sets'[j].reverses = s /\ s # None /\ ~sets[j].bound
    BY <1>3 DEF Used
  <2>2. s \in Used /\ s \in Ids
    BY <2>1 DEF IInv, Linked, Used
  <2>3. /\ sets[s].status \in {"APPLIED", "REVERTED"} /\ at # s
        /\ \A o \in InState(sets[s], {"VERIFIED"}) :
             o \in Members(sets[j]) /\ sets[j].objs[o].after = sets[s].objs[o].before
    BY <2>1 DEF IInv, Inverses
  <2> HIDE DEF s
  <2>4. sets'[s].objs = sets[s].objs /\ sets'[s].status \in {"APPLIED", "REVERTED"} /\ at' # s
    <3>1. CASE s = i
      BY <1>1, <2>1, <2>2, <2>3, <3>1
    <3>2. CASE s # i
      BY <1>1, <2>1, <2>2, <2>3, <3>2
    <3> QED
      BY <3>1, <3>2
  <2>5. InState(sets'[s], {"VERIFIED"}) = InState(sets[s], {"VERIFIED"})
    BY <2>4 DEF InState, Members
  <2>6. \A o \in Objects : /\ sets'[j].objs[o].in = sets[j].objs[o].in
                           /\ sets'[j].objs[o].after = sets[j].objs[o].after
    BY <1>0, <1>1, <2>1 DEF SameLineage
  <2>7. \A o \in InState(sets[s], {"VERIFIED"}) :
          o \in Members(sets'[j]) /\ sets'[j].objs[o].after = sets'[s].objs[o].before
    BY <2>1, <2>2, <2>3, <2>4, <2>6 DEF InState, Members
  <2> QED
    BY <2>1, <2>4, <2>5, <2>7
<1> QED
  BY <1>1, <1>4, <1>5, <1>7, <1>8, <1>9 DEF Records, Outcomes

\* A step that puts no record and starts no operation.
LEMMA UnputKeeps ==
  ASSUME IInv, UNCHANGED sets, restaged \subseteq restaged', at' \in {at, None}
  PROVE  Records' /\ Outcomes /\ sets' \in [Ids -> SetType]
<1>1. Numbered' /\ Linked' /\ Untouched' /\ Retained' /\ Single'
  BY DEF IInv, Numbered, Linked, Untouched, Retained, Single, Used, Members, Continuing, Unwritten, Approved
<1>2. Inverses'
  <2> SUFFICES ASSUME NEW j \in Used \ restaged', sets[j].reverses # None, ~sets[j].bound
               PROVE  at' # sets[j].reverses
    BY DEF IInv, Inverses, Used, InState, Members
  <2> QED
    BY DEF IInv, Inverses
<1> QED
  BY <1>1, <1>2 DEF IInv, TypeInv, Records, Outcomes, Retained

\* The next number is free, and leaves no gap.
LEMMA FreshIsNext ==
  ASSUME IInv, Cardinality(Used) < MaxSets
  PROVE  FreshId \in Ids /\ FreshId \notin Used /\ FreshId \in 1 .. MaxSets /\ Used \cup {FreshId} = 1 .. FreshId
<1>1. PICK n \in 0 .. MaxSets : Used = 1 .. n
  BY DEF IInv, Numbered
<1>2. n \in Nat /\ MaxSets \in Nat
  BY BoundAssumption
<1>3. Cardinality(1 .. n) = n
  BY <1>2, FS_Interval
<1>4. FreshId = n + 1 /\ n < MaxSets
  BY <1>1, <1>3 DEF FreshId
<1>5. n + 1 \in Ids /\ n + 1 \notin 1 .. n /\ (1 .. n) \cup {n + 1} = 1 .. (n + 1)
  BY <1>2, <1>4 DEF Ids
<1> QED
  BY <1>1, <1>4, <1>5 DEF Ids

\* A new set follows a partial outcome nobody else continues, or reverses a
\* set that was applied.
LEMMA AddedKeeps ==
  ASSUME IInv, Cardinality(Used) < MaxSets, at = None, at' = at, restaged \subseteq restaged',
         NEW set \in SetType, Put(FreshId, set), set.status = "DRAFT",
         \A o \in Objects : set.objs[o].application = "PENDING",
         set.follows = None => set.pins = {},
         set.follows # None => /\ set.follows \in Used /\ Continuing(set.follows) = {}
                               /\ sets[set.follows].status = "PARTIALLY_APPLIED"
                               /\ Unwritten(sets[set.follows]) # {},
         set.reverses # None => set.reverses \in Used,
         set.reverses # None /\ ~set.bound =>
           /\ sets[set.reverses].status \in {"APPLIED", "REVERTED"}
           /\ \A o \in InState(sets[set.reverses], {"VERIFIED"}) :
                o \in Members(set) /\ set.objs[o].after = sets[set.reverses].objs[o].before
  PROVE  Records' /\ Outcomes /\ sets' \in [Ids -> SetType]
<1>0. TypeInv /\ FreshId \in Ids /\ FreshId \notin Used /\ FreshId \in 1 .. MaxSets /\ Used \cup {FreshId} = 1 .. FreshId
  BY FreshIsNext DEF IInv
<1>1. sets' \in [Ids -> SetType] /\ \A k \in Ids : sets'[k] = IF k = FreshId THEN set ELSE sets[k]
  BY <1>0, PutType
<1> PICK n \in Ids : n = FreshId
  BY <1>0
<1>2. /\ n \in Ids /\ n \notin Used /\ n \in 0 .. MaxSets /\ Used \cup {n} = 1 .. n /\ n # None
      /\ sets'[n] = set /\ \A k \in Ids \ {n} : sets'[k] = sets[k]
  BY <1>0, <1>1 DEF Ids, None
<1>3. Used' = Used \cup {n} /\ Used \subseteq Ids
  <2>1. \A k \in Ids : sets'[k].status # "NONE" <=> k \in Used \/ k = n
    BY <1>2 DEF Used
  <2> QED
    BY <1>2, <2>1 DEF Used
<1>4. Numbered'
  BY <1>2, <1>3 DEF Numbered
<1>5. Linked'
  BY <1>2, <1>3 DEF IInv, Linked
<1>6. Untouched'
  BY <1>2 DEF IInv, Untouched, Members
<1>7. \A j \in Used : sets[j].follows # n
  BY <1>2 DEF IInv, Linked
<1>8. Continuing(n)' = {}
  BY <1>2, <1>3, <1>7 DEF Continuing
<1>9. \A k \in Ids \ {n} : Continuing(k)' = IF k = set.follows THEN {n} ELSE Continuing(k)
  <2>1. \A k \in Ids \ {n}, j \in Ids : j \in Continuing(k)' <=> j \in Continuing(k) \/ (j = n /\ k = set.follows)
    BY <1>2, <1>3 DEF Continuing
  <2>2. \A k \in Ids : Continuing(k) \subseteq Ids /\ Continuing(k)' \subseteq Ids
    BY <1>2, <1>3 DEF Continuing
  <2>3. \A k \in Ids \ {n} : k = set.follows => Continuing(k) = {}
    BY <1>2 DEF Ids, None
  <2>4. ASSUME NEW k \in Ids \ {n}, k = set.follows PROVE Continuing(k)' = {n}
    <3>1. \A j \in Ids : j \in Continuing(k)' <=> j = n
      BY <2>1, <2>3, <2>4
    <3>2. Continuing(k)' \subseteq Ids /\ n \in Ids
      BY <2>2
    <3> QED
      BY <3>1, <3>2
  <2>5. ASSUME NEW k \in Ids \ {n}, k # set.follows PROVE Continuing(k)' = Continuing(k)
    <3>1. \A j : j \in Continuing(k)' <=> j \in Continuing(k)
      BY <2>1, <2>2, <2>5
    <3> QED
      BY <3>1
  <2> QED
    BY <2>4, <2>5
<1>10. \A k \in Ids \ {n} : Unwritten(sets[k])' = Unwritten(sets[k])
  BY <1>2 DEF Unwritten, Approved, Members
<1>11. set.follows # None => set.follows \in Ids \ {n}
  BY <1>2, <1>3
<1>12. ASSUME NEW k \in Ids, Continuing(k)' # {}
       PROVE  sets'[k].status \in {"PARTIALLY_APPLIED", "REVERTED"} /\ Unwritten(sets[k])' # {}
  <2>1. k \in Ids \ {n}
    BY <1>8, <1>12
  <2>2. CASE k = set.follows
    BY <1>2, <1>10, <2>1, <2>2 DEF Ids, None
  <2>3. CASE k # set.follows
    BY <1>2, <1>9, <1>10, <1>12, <2>1, <2>3 DEF IInv, Retained
  <2> QED
    BY <2>2, <2>3
<1>13. Retained'
  BY <1>12 DEF Retained
<1>14. Single'
  BY <1>8, <1>9 DEF IInv, Single
<1>15. Outcomes
  <2>1. Continuing(n) = {}
    BY <1>7 DEF Continuing
  <2> QED
    BY <1>2, <2>1 DEF IInv, Retained, Outcomes
<1>16. Inverses'
  <2> SUFFICES ASSUME NEW j \in (Used \ restaged)', sets'[j].reverses # None, ~sets'[j].bound
               PROVE  LET s == sets'[j].reverses
                      IN  /\ sets'[s].status \in {"APPLIED", "REVERTED"} /\ at' # s
                          /\ \A o \in InState(sets'[s], {"VERIFIED"}) :
                               o \in Members(sets'[j]) /\ sets'[j].objs[o].after = sets'[s].objs[o].before
    BY DEF Inverses, InState, Members
  <2> DEFINE s == sets'[j].reverses
  <2>1. s \in Used /\ s # None
    BY <1>2, <1>3 DEF IInv, Linked
  <2>2. /\ sets[s].status \in {"APPLIED", "REVERTED"}
        /\ \A o \in InState(sets[s], {"VERIFIED"}) :
             o \in Members(sets'[j]) /\ sets'[j].objs[o].after = sets[s].objs[o].before
    <3>1. CASE j = n
      BY <1>2, <3>1
    <3>2. CASE j # n
      BY <1>2, <1>3, <3>2 DEF IInv, Inverses
    <3> QED
      BY <3>1, <3>2
  <2> HIDE DEF s
  <2>3. sets'[s] = sets[s] /\ at' # s
    BY <1>2, <1>3, <2>1
  <2> QED
    BY <2>2, <2>3 DEF s
<1> QED
  BY <1>1, <1>4, <1>5, <1>6, <1>13, <1>14, <1>15, <1>16 DEF Records

\* What the database stores keeps its type, and is read back.
LEMMA StoredType ==
  ASSUME TypeInv, NEW o \in Objects, NEW v \in Contents, Stored(o, v)
  PROVE  /\ db' \in [Objects -> [value : Contents, version : Nat, token : Nat]]
         /\ \A p \in Objects : db'[p].value = IF p = o THEN v ELSE db[p].value
<1> DEFINE new == [value |-> v, version |-> db[o].version + 1, token |-> Token(o, v, db[o].version + 1)]
<1>1. db[o].version + 1 \in Nat
  BY DEF TypeInv
<1>2. Token(o, v, db[o].version + 1) \in Nat
  BY <1>1, TokenType
<1>3. new \in [value : Contents, version : Nat, token : Nat] /\ new.value = v
  BY <1>1, <1>2
<1>4. db' = [db EXCEPT ![o] = new]
  BY DEF Stored
<1> HIDE DEF new
<1> QED
  BY <1>3, <1>4 DEF TypeInv

\* Nothing runs after the step.
LEMMA Rests ==
  ASSUME IInv, Records', sets' \in [Ids -> SetType], pc' = "idle", at' = None, op' = "none",
         db' \in [Objects -> [value : Contents, version : Nat, token : Nat]], edits' \in Nat, restaged' \subseteq Ids
  PROVE  IInv'
<1>1. TypeInv'
  BY DEF TypeInv
<1>2. Publishing' /\ StillLive' /\ Restored'
  BY DEF Publishing, StillLive, Restored
<1> QED
  BY <1>1, <1>2 DEF IInv, Records

-------------------------------------------------------------------------------
(***************************************************************************)
(* Planning                                                                *)
(***************************************************************************)
\* A record outside an application becomes another one outside.
LEMMA PlanKeeps ==
  ASSUME IInv, NEW i \in Used, NEW set \in SetType, Put(i, set), SameLineage(set, sets[i]), UNCHANGED <<db, edits, restaged>>,
         pc = "idle", UNCHANGED <<pc, at, op>>,
         sets[i].status \in {"DRAFT", "APPROVED", "CONFLICTED", "FAILED"},
         set.status \in {"DRAFT", "APPROVED", "CONFLICTED", "CANCELLED"},
         \A o \in Objects : set.objs[o].application = sets[i].objs[o].application
  PROVE  IInv' /\ Outcomes
<1>1. TypeInv /\ i \in Ids /\ at = None /\ op = "none"
  BY DEF IInv, TypeInv, Used
<1>2. Continuing(i) = {}
  BY <1>1 DEF IInv, Retained
<1>3. \A o \in Objects : set.objs[o].application = "PENDING"
  BY <1>1 DEF IInv, Untouched, Unapplied
<1>4. Records' /\ Outcomes /\ sets' \in [Ids -> SetType]
  BY <1>1, <1>2, <1>3, RevisedKeeps
<1> QED
  BY <1>1, <1>4, Rests DEF TypeInv

\* Reviews and cancellations.
LEMMA ReviewSafe ==
  ASSUME IInv, NEW i \in Used, (\E ids \in SUBSET Objects : Approve(i, ids)) \/ Cancel(i) \/ ApplyRefused(i)
  PROVE  IInv' /\ Outcomes
<1>0. i \in Ids /\ sets[i] \in SetType
  BY DEF IInv, TypeInv, Used
<1>1. ASSUME NEW ids \in SUBSET Objects, Approve(i, ids) PROVE IInv' /\ Outcomes
  <2> DEFINE objs == [o \in Objects |-> [sets[i].objs[o] EXCEPT !.approved = o \in ids]]
             set == [sets[i] EXCEPT !.status = "APPROVED", !.objs = objs]
  <2>1. ASSUME NEW o \in Objects
        PROVE  /\ objs[o] \in ObjectType /\ objs[o].in = sets[i].objs[o].in
               /\ objs[o].before = sets[i].objs[o].before /\ objs[o].after = sets[i].objs[o].after
               /\ objs[o].application = sets[i].objs[o].application
    <3> DEFINE c == sets[i].objs[o]
    <3>1. c \in ObjectType
      BY <1>0 DEF SetType
    <3> HIDE DEF c
    <3>2. \A b \in BOOLEAN : LET d == [c EXCEPT !.approved = b]
                             IN  /\ d \in ObjectType /\ d.in = c.in /\ d.before = c.before
                                 /\ d.after = c.after /\ d.application = c.application
      BY <3>1 DEF ObjectType
    <3>3. (o \in ids) \in BOOLEAN
      OBVIOUS
    <3> QED
      BY <3>2, <3>3 DEF c
  <2>2. objs \in [Objects -> ObjectType]
    BY <2>1
  <2>3. Put(i, set)
    BY <1>1 DEF Approve
  <2> HIDE DEF objs
  <2>4. set \in SetType /\ SameLineage(set, sets[i]) /\ set.status = "APPROVED" /\ set.objs = objs
    BY <1>0, <2>1, <2>2 DEF SetType, SameLineage, SameLinks, Statuses
  <2> HIDE DEF set
  <2>5. /\ pc = "idle" /\ UNCHANGED <<db, edits, pc, at, op, restaged>>
        /\ sets[i].status \in {"DRAFT", "APPROVED", "CONFLICTED", "FAILED"}
    BY <1>1 DEF Approve, Idle
  <2> QED
    BY <2>1, <2>3, <2>4, <2>5, PlanKeeps
<1>2. ASSUME NEW s \in {"CANCELLED", "CONFLICTED"}, Put(i, [sets[i] EXCEPT !.status = s]), Idle,
             UNCHANGED <<db, edits, restaged>>, sets[i].status \in {"DRAFT", "APPROVED", "CONFLICTED"}
      PROVE  IInv' /\ Outcomes
  <2> DEFINE set == [sets[i] EXCEPT !.status = s]
  <2>1. set \in SetType /\ SameLineage(set, sets[i]) /\ set.status = s /\ set.objs = sets[i].objs
    BY <1>0 DEF Statuses, SetType, SameLineage, SameLinks
  <2>2. Put(i, set)
    BY <1>2
  <2> HIDE DEF set
  <2> QED
    BY <1>2, <2>1, <2>2, PlanKeeps DEF Idle
<1>3. CASE Cancel(i)
  BY <1>2, <1>3 DEF Cancel
<1>4. CASE ApplyRefused(i)
  BY <1>2, <1>4 DEF ApplyRefused
<1> QED
  BY <1>1, <1>3, <1>4

\* A revised record keeps its lineage and its proposals, and forgets approvals.
LEMMA RevisedType ==
  ASSUME NEW set \in SetType
  PROVE  LET new == Revised(set)
         IN  /\ new \in SetType /\ SameLineage(new, set) /\ new.status = "DRAFT" /\ new.mapped = set.mapped
             /\ \A o \in Objects :
                  /\ new.objs[o].application = set.objs[o].application /\ new.objs[o].deps = set.objs[o].deps
                  /\ new.objs[o].approved = FALSE
<1> DEFINE objs == [o \in Objects |-> [set.objs[o] EXCEPT !.approved = FALSE]]
           new == [set EXCEPT !.status = "DRAFT", !.objs = objs]
<1>1. ASSUME NEW o \in Objects
      PROVE  /\ objs[o] \in ObjectType /\ objs[o].in = set.objs[o].in /\ objs[o].before = set.objs[o].before
             /\ objs[o].after = set.objs[o].after /\ objs[o].application = set.objs[o].application
             /\ objs[o].deps = set.objs[o].deps /\ objs[o].approved = FALSE
  <2> DEFINE c == set.objs[o]
             d == [c EXCEPT !.approved = FALSE]
  <2>1. c \in ObjectType /\ objs[o] = d
    BY DEF SetType
  <2> HIDE DEF c, objs
  <2>2. /\ d \in ObjectType /\ d.in = c.in /\ d.before = c.before /\ d.after = c.after
        /\ d.application = c.application /\ d.deps = c.deps /\ d.approved = FALSE
    BY <2>1 DEF ObjectType
  <2> QED
    BY <2>1, <2>2 DEF c
<1>2. objs \in [Objects -> ObjectType]
  BY <1>1
<1>3. Revised(set) = new
  BY DEF Revised
<1> HIDE DEF objs
<1>4. /\ new \in SetType /\ SameLineage(new, set) /\ new.status = "DRAFT" /\ new.mapped = set.mapped
      /\ new.objs = objs
  BY <1>1, <1>2 DEF SetType, SameLineage, SameLinks, Statuses
<1> QED
  BY <1>1, <1>3, <1>4

\* A set staged again keeps its lineage.
LEMMA RestagedType ==
  ASSUME TypeInv, NEW set \in SetType, NEW o \in Objects, NEW value \in Contents, NEW deps \in SUBSET Objects
  PROVE  LET new == RestagedSet(set, o, value, deps)
         IN  /\ new \in SetType /\ SameLinks(new, set) /\ new.status = "DRAFT"
             /\ \A d \in Objects : new.objs[d].application \in {"PENDING", set.objs[d].application}
<1> DEFINE revised == Revised(set)
           object == [NoObject EXCEPT !.in = TRUE, !.before = db[o].value, !.base = db[o].token,
                        !.after = value, !.deps = deps]
           new == [revised EXCEPT !.objs[o] = object]
<1>1. /\ revised \in SetType /\ SameLinks(revised, set) /\ revised.status = "DRAFT"
      /\ \A d \in Objects : revised.objs[d].application = set.objs[d].application
  BY RevisedType DEF SameLineage
<1>2. object \in ObjectType /\ object.application = "PENDING"
  <2>1. db[o].value \in Contents /\ db[o].token \in Nat
    BY DEF TypeInv
  <2> QED
    BY <2>1, NoValues DEF NoObject, ObjectType
<1>3. RestagedSet(set, o, value, deps) = new
  BY DEF RestagedSet
<1> HIDE DEF revised, object
<1>4. new \in SetType /\ SameLinks(new, revised) /\ new.status = revised.status
      /\ \A d \in Objects : new.objs[d] = IF d = o THEN object ELSE revised.objs[d]
  BY <1>1, <1>2 DEF SetType, SameLinks
<1> HIDE DEF new
<1>5. SameLinks(new, set)
  BY <1>1, <1>4 DEF SameLinks
<1> QED
  BY <1>1, <1>2, <1>3, <1>4, <1>5

\* An agent stages something in a set, or has its plan revised.
LEMMA ReviseSafe ==
  ASSUME IInv, NEW i \in Used,
         Replan(i) \/ \E o \in Objects, value \in Contents, deps \in SUBSET Objects : Restage(i, o, value, deps)
  PROVE  IInv' /\ Outcomes
<1>0. TypeInv /\ i \in Ids /\ sets[i] \in SetType
  BY DEF IInv, TypeInv, Used
<1>1. CASE Replan(i)
  <2> DEFINE set == Revised(sets[i])
  <2>1. /\ set \in SetType /\ SameLineage(set, sets[i]) /\ set.status = "DRAFT"
        /\ \A o \in Objects : set.objs[o].application = sets[i].objs[o].application
    BY <1>0, RevisedType
  <2>2. /\ Put(i, set) /\ pc = "idle" /\ UNCHANGED <<db, edits, pc, at, op, restaged>>
        /\ sets[i].status \in {"DRAFT", "APPROVED", "CONFLICTED", "FAILED"}
    BY <1>1 DEF Replan, Revisable, Idle
  <2> HIDE DEF set
  <2> QED
    BY <2>1, <2>2, PlanKeeps
<1>2. ASSUME NEW o \in Objects, NEW value \in Contents, NEW deps \in SUBSET Objects, Restage(i, o, value, deps)
      PROVE  IInv' /\ Outcomes
  <2> DEFINE set == RestagedSet(sets[i], o, value, deps)
  <2>1. /\ Put(i, set) /\ pc = "idle" /\ UNCHANGED <<db, edits, pc, at, op>>
        /\ sets[i].status \in {"DRAFT", "APPROVED", "CONFLICTED", "FAILED"}
        /\ restaged' = restaged \cup {i}
    BY <1>2 DEF Restage, Revisable, Idle
  <2>2. \A d \in Objects : sets[i].objs[d].application = "PENDING"
    BY <1>0, <2>1 DEF IInv, Untouched, Unapplied
  <2>3. /\ set \in SetType /\ SameLinks(set, sets[i]) /\ set.status = "DRAFT"
        /\ \A d \in Objects : set.objs[d].application = "PENDING"
    BY <1>0, <2>2, RestagedType
  <2> HIDE DEF set
  <2>4. Continuing(i) = {} /\ at = None /\ op = "none"
    BY <1>0, <2>1 DEF IInv, Retained, TypeInv
  <2>5. Records' /\ Outcomes /\ sets' \in [Ids -> SetType]
    BY <2>1, <2>3, <2>4, RevisedKeeps
  <2> QED
    BY <1>0, <2>1, <2>4, <2>5, Rests DEF TypeInv
<1> QED
  BY <1>1, <1>2

\* The names of verified objects.
LEMMA PinsType ==
  ASSUME TypeInv, NEW i \in Ids
  PROVE  /\ Pins(i) \subseteq PinType
         /\ \A p \in Pins(i) : p.set = i /\ p.obj \in InState(sets[i], {"VERIFIED"})
                               /\ p.value = sets[i].objs[p.obj].after
         /\ \A o \in InState(sets[i], {"VERIFIED"}) : \E p \in Pins(i) : p.obj = o
<1>1. \A o \in Objects : sets[i].objs[o].after \in Contents /\ sets[i].objs[o].verified \in Nat
  BY DEF TypeInv, SetType, ObjectType
<1> DEFINE pin(o) == [set |-> i, obj |-> o, value |-> sets[i].objs[o].after, token |-> sets[i].objs[o].verified]
<1>2. ASSUME NEW o \in InState(sets[i], {"VERIFIED"})
      PROVE  /\ pin(o) \in PinType
             /\ pin(o).set = i /\ pin(o).obj = o /\ pin(o).value = sets[i].objs[o].after
  BY <1>1 DEF InState, Members, PinType
<1>3. Pins(i) = {pin(o) : o \in InState(sets[i], {"VERIFIED"})}
  BY DEF Pins
<1> HIDE DEF pin
<1>4. ASSUME NEW p \in Pins(i)
      PROVE  \E o \in InState(sets[i], {"VERIFIED"}) : p = pin(o)
  BY <1>3
<1>5. ASSUME NEW o \in InState(sets[i], {"VERIFIED"})
      PROVE  pin(o) \in Pins(i)
  BY <1>3
<1> QED
  BY <1>2, <1>4, <1>5

\* A follow-up takes over the untouched objects and pins the verified ones.
Carried(i, set) ==
  /\ set.pins = sets[i].pins \cup Pins(i)
  /\ \A o \in Objects : set.objs[o].approved = FALSE
  /\ Members(set) = Unwritten(sets[i])
  /\ \A o \in Unwritten(sets[i]) :
       /\ set.objs[o].before = sets[i].objs[o].before /\ set.objs[o].after = sets[i].objs[o].after
       /\ set.objs[o].deps = sets[i].objs[o].deps \cap Unwritten(sets[i])

\* The follow-up of a partial outcome.
LEMMA ContinuationType ==
  ASSUME IInv, NEW i \in Used
  PROVE  LET new == Continuation(i)
         IN  /\ new \in SetType /\ new.status = "DRAFT" /\ new.follows = i
             /\ new.reverses = sets[i].reverses /\ (new.bound <=> sets[i].reverses # None)
             /\ \A o \in Objects : new.objs[o].application = "PENDING"
             /\ Carried(i, new)
<1> DEFINE set == sets[i]
           remaining == Unwritten(set)
           pins == set.pins \cup Pins(i)
           bound == set.reverses # None
           sources == IF set.reverses = None THEN {} ELSE Bindings(set)
           object(o) == [NoObject EXCEPT !.in = TRUE, !.before = set.objs[o].before,
                 !.base = set.objs[o].base, !.after = set.objs[o].after, !.deps = set.objs[o].deps \cap remaining]
           objs == [o \in Objects |-> IF o \in remaining THEN object(o) ELSE NoObject]
           new == [NoSet EXCEPT !.status = "DRAFT", !.follows = i, !.pins = pins, !.mapped = remaining, !.reverses = set.reverses,
                     !.bound = bound, !.sources = sources, !.objs = objs]
<1>1. i \in Ids /\ set \in SetType /\ TypeInv
  BY DEF IInv, TypeInv, Used
<1>2. pins \in SUBSET PinType
  BY <1>1, PinsType DEF SetType
<1>3. sources \in SUBSET PinType
  <2>1. set.reverses # None => set.reverses \in Ids
    BY <1>1 DEF SetType
  <2>2. set.sources \in SUBSET PinType
    BY <1>1 DEF SetType
  <2> QED
    BY <1>1, <2>1, <2>2, PinsType DEF Bindings
<1>4. ASSUME NEW o \in Objects
      PROVE  /\ objs[o] \in ObjectType /\ objs[o].application = "PENDING" /\ objs[o].approved = FALSE
             /\ objs[o].in <=> o \in remaining
             /\ o \in remaining => /\ objs[o].before = set.objs[o].before /\ objs[o].after = set.objs[o].after
                                  /\ objs[o].deps = set.objs[o].deps \cap remaining
  <2>1. set.objs[o].deps \cap remaining \in SUBSET Objects
    BY <1>1 DEF SetType, ObjectType
  <2>2. set.objs[o].before \in Contents /\ set.objs[o].after \in Contents /\ set.objs[o].base \in Nat
    BY <1>1 DEF SetType, ObjectType
  <2>3. /\ object(o) \in ObjectType /\ object(o).application = "PENDING" /\ object(o).approved = FALSE
        /\ object(o).in = TRUE /\ object(o).before = set.objs[o].before /\ object(o).after = set.objs[o].after
        /\ object(o).deps = set.objs[o].deps \cap remaining
    BY <2>1, <2>2, NoValues DEF NoObject, ObjectType
  <2>4. /\ NoObject \in ObjectType /\ NoObject.application = "PENDING" /\ NoObject.approved = FALSE
        /\ NoObject.in = FALSE
    BY NoValues DEF NoObject
  <2> QED
    BY <2>3, <2>4
<1>5. objs \in [Objects -> ObjectType]
  BY <1>4
<1>6. Continuation(i) = new
  BY DEF Continuation
<1>7. bound \in BOOLEAN /\ set.reverses \in Ids \cup {None} /\ i \in Ids \cup {None}
  BY <1>1 DEF SetType
<1>8. bound <=> sets[i].reverses # None
  OBVIOUS
<1>9. set = sets[i] /\ remaining = Unwritten(set) /\ remaining \subseteq Objects /\ pins = set.pins \cup Pins(i)
  BY DEF Unwritten, Approved, Members
<1> HIDE DEF set, remaining, pins, bound, sources, objs
<1>10. /\ new \in SetType /\ new.status = "DRAFT" /\ new.follows = i /\ new.reverses = set.reverses
       /\ new.bound = bound /\ new.objs = objs /\ new.pins = pins
  BY <1>2, <1>3, <1>5, <1>7, <1>9, NoValues DEF SetType, Statuses
<1> HIDE DEF new
<1>11. Members(new) = remaining
  BY <1>4, <1>9, <1>10 DEF Members
<1>12. Carried(i, new)
  BY <1>4, <1>9, <1>10, <1>11 DEF Carried
<1> QED
  BY <1>4, <1>6, <1>8, <1>9, <1>10, <1>12

\* The objects of an inverse lead from what is live back to what the sets of
\* the chain had found, with the dependencies turned round.
Turned(i, set) ==
  /\ \A o \in Objects : set.objs[o].approved = FALSE
  /\ Members(set) = AchievedObjects(i)
  /\ \A o \in AchievedObjects(i) :
       /\ set.objs[o].before = db[o].value
       /\ \E p \in Achieved(i) : p.obj = o /\ set.objs[o].after = sets[p.set].objs[o].before
       /\ \A q \in Achieved(i) : o \in ForwardDependencies(q) => q.obj \in set.objs[o].deps

\* The combined inverse of a chain, whose objects lead back to what their
\* sets had found.
LEMMA InverseType ==
  ASSUME IInv, NEW i \in Used
  PROVE  LET new == InverseSet(i)
         IN  /\ new \in SetType /\ new.status = "DRAFT" /\ new.follows = None /\ new.pins = {}
             /\ new.reverses = i /\ (new.bound <=> sets[i].follows # None)
             /\ \A o \in Objects : new.objs[o].application = "PENDING"
             /\ Turned(i, new)
             /\ sets[i].follows = None =>
                  \A o \in InState(sets[i], {"VERIFIED"}) :
                    o \in Members(new) /\ new.objs[o].after = sets[i].objs[o].before
<1> DEFINE step(o) == CHOOSE p \in Achieved(i) : p.obj = o
           bound == sets[i].follows # None
           sources == IF bound THEN Achieved(i) ELSE {}
           object(o) == [NoObject EXCEPT !.in = TRUE, !.before = db[o].value, !.base = db[o].token,
                      !.after = sets[step(o).set].objs[o].before,
                      !.deps = {q.obj : q \in {q \in Achieved(i) : o \in ForwardDependencies(q)}}]
           objs == [o \in Objects |-> IF o \in AchievedObjects(i) THEN object(o) ELSE NoObject]
           new == [NoSet EXCEPT !.status = "DRAFT", !.reverses = i, !.bound = bound, !.sources = sources,
                     !.objs = objs]
<1>1. i \in Ids /\ sets[i] \in SetType /\ TypeInv
  BY DEF IInv, TypeInv, Used
<1>2. Achieved(i) \in SUBSET PinType
  BY <1>1, PinsType DEF SetType, Achieved
<1>3. sources \in SUBSET PinType
  BY <1>2
<1>4. ASSUME NEW o \in AchievedObjects(i)
      PROVE  step(o) \in Achieved(i) /\ step(o).obj = o /\ o \in Objects /\ step(o).set \in Ids
  BY <1>2 DEF AchievedObjects, PinType
<1>5. ASSUME NEW o \in Objects
      PROVE  /\ objs[o] \in ObjectType /\ objs[o].application = "PENDING" /\ objs[o].approved = FALSE
             /\ objs[o].in <=> o \in AchievedObjects(i)
             /\ o \in AchievedObjects(i) =>
                  /\ objs[o].before = db[o].value /\ objs[o].after = sets[step(o).set].objs[o].before
                  /\ \A q \in Achieved(i) : o \in ForwardDependencies(q) => q.obj \in objs[o].deps
  <2>1. /\ NoObject \in ObjectType /\ NoObject.application = "PENDING" /\ NoObject.approved = FALSE
        /\ NoObject.in = FALSE
    BY NoValues DEF NoObject
  <2>2. CASE o \in AchievedObjects(i)
    <3> DEFINE before == sets[step(o).set].objs[o].before
               deps == {q.obj : q \in {q \in Achieved(i) : o \in ForwardDependencies(q)}}
    <3>1. before \in Contents
      BY <1>1, <1>4, <2>2 DEF TypeInv, SetType, ObjectType
    <3>2. deps \in SUBSET Objects
      BY <1>2 DEF PinType
    <3>3. db[o].value \in Contents /\ db[o].token \in Nat
      BY <1>1 DEF TypeInv
    <3>4. objs[o] = [NoObject EXCEPT !.in = TRUE, !.before = db[o].value, !.base = db[o].token,
                                     !.after = before, !.deps = deps]
      BY <2>2
    <3>7. \A q \in Achieved(i) : o \in ForwardDependencies(q) => q.obj \in deps
      OBVIOUS
    <3> HIDE DEF before, deps, objs
    <3>5. objs[o] \in ObjectType
      BY <3>1, <3>2, <3>3, <3>4, NoValues DEF NoObject, ObjectType
    <3>6. /\ objs[o].application = "PENDING" /\ objs[o].approved = FALSE /\ objs[o].in = TRUE
          /\ objs[o].before = db[o].value /\ objs[o].after = before /\ objs[o].deps = deps
      BY <3>4 DEF NoObject
    <3> QED
      BY <2>2, <3>5, <3>6, <3>7 DEF before
  <2>3. CASE o \notin AchievedObjects(i)
    BY <2>1, <2>3
  <2> QED
    BY <2>2, <2>3
<1>6. objs \in [Objects -> ObjectType]
  BY <1>5
<1>7. InverseSet(i) = new
  BY DEF InverseSet
<1>8. bound \in BOOLEAN /\ i \in Ids \cup {None} /\ (bound <=> sets[i].follows # None)
  BY <1>1
<1>9. ASSUME sets[i].follows = None, NEW o \in InState(sets[i], {"VERIFIED"})
      PROVE  o \in Objects /\ objs[o].in /\ objs[o].after = sets[i].objs[o].before
  <2>1. Achieved(i) = Pins(i)
    BY <1>9 DEF IInv, Linked, Achieved
  <2>2. o \in AchievedObjects(i)
    BY <1>1, <2>1, PinsType DEF AchievedObjects
  <2>3. step(o).set = i /\ o \in Objects
    BY <1>1, <1>4, <2>1, <2>2, PinsType
  <2> HIDE DEF objs, step
  <2> QED
    BY <1>5, <2>2, <2>3
<1> HIDE DEF bound, sources, objs
<1>10. /\ new \in SetType /\ new.status = "DRAFT" /\ new.follows = None /\ new.pins = {} /\ new.reverses = i
       /\ new.bound = bound /\ new.objs = objs
  BY <1>3, <1>6, <1>8, NoValues DEF SetType, Statuses, NoSet
<1> HIDE DEF new, step
<1>11. Members(new) = AchievedObjects(i)
  BY <1>4, <1>5, <1>10 DEF Members
<1>12. ASSUME NEW o \in AchievedObjects(i)
       PROVE  /\ new.objs[o].before = db[o].value
              /\ \E p \in Achieved(i) : p.obj = o /\ new.objs[o].after = sets[p.set].objs[o].before
              /\ \A q \in Achieved(i) : o \in ForwardDependencies(q) => q.obj \in new.objs[o].deps
  BY <1>4, <1>5, <1>10
<1>13. sets[i].follows = None =>
         \A o \in InState(sets[i], {"VERIFIED"}) : o \in Members(new) /\ new.objs[o].after = sets[i].objs[o].before
  BY <1>9, <1>10 DEF Members
<1>14. Turned(i, new)
  BY <1>5, <1>10, <1>11, <1>12 DEF Turned
<1> QED
  BY <1>5, <1>7, <1>8, <1>10, <1>13, <1>14

\* Continuations and reversals.
LEMMA LineageSafe ==
  ASSUME IInv, NEW i \in Used, PrepareRemaining(i) \/ Reverse(i)
  PROVE  IInv' /\ Outcomes
<1>1. /\ pc = "idle" /\ UNCHANGED <<db, edits, pc, at, op, restaged>> /\ Cardinality(Used) < MaxSets
      /\ at = None /\ op = "none"
  BY DEF PrepareRemaining, Reverse, Idle, IInv, TypeInv
<1>2. CASE PrepareRemaining(i)
  <2> DEFINE new == Continuation(i)
  <2>1. /\ new \in SetType /\ new.status = "DRAFT" /\ new.follows = i
        /\ new.reverses = sets[i].reverses /\ (new.bound <=> sets[i].reverses # None)
        /\ \A o \in Objects : new.objs[o].application = "PENDING"
    BY ContinuationType
  <2>2. /\ Put(FreshId, new) /\ sets[i].status = "PARTIALLY_APPLIED" /\ Unwritten(sets[i]) # {}
        /\ Continuing(i) = {}
    BY <1>2 DEF PrepareRemaining, FollowUps, Continuing
  <2>3. i # None /\ (sets[i].reverses # None => sets[i].reverses \in Used)
    BY DEF IInv, Linked, Used, Ids, None
  <2> HIDE DEF new
  <2>4. Records' /\ Outcomes /\ sets' \in [Ids -> SetType]
    BY <1>1, <2>1, <2>2, <2>3, AddedKeeps
  <2> QED
    BY <1>1, <2>4, Rests DEF IInv, TypeInv
<1>3. CASE Reverse(i)
  <2> DEFINE new == InverseSet(i)
  <2>1. /\ new \in SetType /\ new.status = "DRAFT" /\ new.follows = None /\ new.pins = {}
        /\ new.reverses = i /\ (new.bound <=> sets[i].follows # None)
        /\ \A o \in Objects : new.objs[o].application = "PENDING"
    BY InverseType
  <2>2. sets[i].follows = None =>
          \A o \in InState(sets[i], {"VERIFIED"}) : o \in Members(new) /\ new.objs[o].after = sets[i].objs[o].before
    BY InverseType
  <2>3. Put(FreshId, new) /\ sets[i].status = "APPLIED"
    BY <1>3 DEF Reverse
  <2> HIDE DEF new
  <2>4. Records' /\ Outcomes /\ sets' \in [Ids -> SetType]
    BY <1>1, <2>1, <2>2, <2>3, AddedKeeps
  <2> QED
    BY <1>1, <2>4, Rests DEF IInv, TypeInv
<1> QED
  BY <1>2, <1>3

-------------------------------------------------------------------------------
(***************************************************************************)
(* Applying                                                                *)
(***************************************************************************)
\* An operation works on a set that exists.
LEMMA AtWork ==
  ASSUME IInv, pc # "idle"
  PROVE  at \in Used /\ at \in Ids /\ sets[at] \in SetType /\ at # None
<1>1. at \in Ids /\ sets[at] \in SetType /\ at # None
  BY DEF IInv, TypeInv, Ids, None
<1>2. sets[at].status # "NONE"
  BY DEF IInv, TypeInv, Publishing
<1> QED
  BY <1>1, <1>2 DEF Used

\* An application goes on.
LEMMA WritingKeeps ==
  ASSUME IInv, NEW i \in Used, NEW set \in SetType, Put(i, set), SameLineage(set, sets[i]),
         sets[i].status \in {"APPROVED", "APPLYING"}, set.status = "APPLYING",
         pc' \in {"writing", "writer"}, at' = i, op' \in {"apply", "recover"}, UNCHANGED <<edits, restaged>>,
         db' \in [Objects -> [value : Contents, version : Nat, token : Nat]],
         \A o \in Objects : set.objs[o].application # "PENDING" => o \in Members(set),
         edits = 0 => \A o \in InState(set, {"VERIFIED"}) : db'[o].value = set.objs[o].after
  PROVE  IInv' /\ Outcomes
<1>1. TypeInv /\ i \in Ids /\ i # None
  BY DEF IInv, Used, Ids, None
<1>2. Continuing(i) = {}
  BY <1>1 DEF IInv, Retained
<1>3. \A o \in Objects : set.objs[o].application # "PENDING" => set.status \notin Unapplied /\ o \in Members(set)
  BY DEF Unapplied
<1>4. Records' /\ Outcomes /\ sets' \in [Ids -> SetType]
  BY <1>1, <1>2, <1>3, RevisedKeeps
<1>5. sets'[i] = set
  BY <1>1, PutType
<1>6. TypeInv'
  BY <1>1, <1>4, <1>5 DEF TypeInv
<1>7. Publishing' /\ Restored'
  BY DEF Publishing, Restored
<1>8. StillLive'
  BY <1>5 DEF StillLive, InState, Members
<1> QED
  BY <1>4, <1>6, <1>7, <1>8 DEF IInv, Records

\* The first save of an application.
LEMMA ApplyBeginSafe ==
  ASSUME IInv, NEW i \in Used, ApplyBegin(i)
  PROVE  IInv' /\ Outcomes
<1> DEFINE set == [sets[i] EXCEPT !.status = "APPLYING"]
<1>1. TypeInv /\ i \in Ids /\ sets[i] \in SetType
  BY DEF IInv, TypeInv, Used
<1>2. set \in SetType /\ SameLineage(set, sets[i]) /\ set.status = "APPLYING" /\ set.objs = sets[i].objs
  BY <1>1 DEF Statuses, SetType, SameLineage, SameLinks
<1>3. Put(i, set)
  BY DEF ApplyBegin
<1> HIDE DEF set
<1>4. sets[i].status = "APPROVED" /\ pc' = "writing" /\ at' = i /\ op' = "apply" /\ UNCHANGED <<db, edits, restaged>>
  BY DEF ApplyBegin, Enter
<1>5. \A o \in Objects : set.objs[o].application = "PENDING"
  BY <1>1, <1>2, <1>4 DEF IInv, Untouched, Unapplied
<1> QED
  BY <1>1, <1>2, <1>3, <1>4, <1>5, WritingKeeps DEF TypeInv, InState, Members

\* A call of a writer.
LEMMA StartWriterSafe ==
  ASSUME IInv, NEW o \in Objects, StartWriter(o)
  PROVE  IInv' /\ Outcomes
<1> DEFINE set == sets[at]
           c == set.objs[o]
           called == [c EXCEPT !.application = "APPLYING"]
           new == [set EXCEPT !.objs[o] = called]
<1>0. pc = "writing" /\ pc' = "writer" /\ UNCHANGED <<at, op, db, edits, restaged>> /\ o \in Unwritten(set)
  BY DEF StartWriter, Goto
<1>1. TypeInv /\ at \in Used /\ at \in Ids /\ set \in SetType /\ set.status = "APPLYING" /\ op # "none"
  BY <1>0, AtWork DEF IInv, TypeInv
<1>2. Put(at, new)
  BY DEF StartWriter
<1>3. c \in ObjectType
  BY <1>1 DEF SetType
<1>4. o \in Members(set)
  BY <1>0 DEF Unwritten, Approved
<1> HIDE DEF set, c
<1>5. /\ called \in ObjectType /\ called.application = "APPLYING"
      /\ called.in = c.in /\ called.before = c.before /\ called.after = c.after
  BY <1>3 DEF ObjectType
<1> HIDE DEF called
<1>6. /\ new \in SetType /\ SameLineage(new, set) /\ new.status = set.status
      /\ \A p \in Objects : new.objs[p] = IF p = o THEN called ELSE set.objs[p]
  BY <1>1, <1>5 DEF SetType, SameLineage, SameLinks, c
<1> HIDE DEF new
<1>7. \A p \in Objects : set.objs[p].application # "PENDING" => p \in Members(set)
  BY <1>1 DEF IInv, Untouched, set
<1>8. \A p \in Objects : new.objs[p].application # "PENDING" => p \in Members(new)
  BY <1>4, <1>6, <1>7 DEF Members, SameLineage, SameLinks
<1>9. edits = 0 => \A p \in InState(new, {"VERIFIED"}) : db'[p].value = new.objs[p].after
  <2> SUFFICES ASSUME edits = 0, NEW p \in InState(new, {"VERIFIED"})
               PROVE  db[p].value = new.objs[p].after
    BY <1>0
  <2>1. p \in Objects /\ p # o /\ p \in InState(set, {"VERIFIED"})
    BY <1>5, <1>6 DEF InState, Members
  <2> QED
    BY <1>0, <1>6, <2>1 DEF IInv, StillLive, set
<1>10. op' \in {"apply", "recover"} /\ db' \in [Objects -> [value : Contents, version : Nat, token : Nat]]
  BY <1>0, <1>1 DEF TypeInv
<1>11. SameLineage(new, sets[at]) /\ sets[at].status = "APPLYING"
  BY <1>1, <1>6 DEF set
<1> QED
  BY <1>0, <1>1, <1>2, <1>6, <1>8, <1>9, <1>10, <1>11, WritingKeeps

\* A writer's transaction stores the object's after-image.
LEMMA WrittenType ==
  ASSUME TypeInv, at \in Ids, NEW o \in Objects, Written(o)
  PROVE  /\ db' \in [Objects -> [value : Contents, version : Nat, token : Nat]]
         /\ \A p \in Objects : db'[p].value = IF p = o THEN sets[at].objs[o].after ELSE db[p].value
<1>1. sets[at].objs[o].after \in Contents
  BY DEF TypeInv, SetType, ObjectType
<1>2. Stored(o, sets[at].objs[o].after)
  BY DEF Written
<1> QED
  BY <1>1, <1>2, StoredType

\* The answer of a writer.
LEMMA WriterAnswersSafe ==
  ASSUME IInv, NEW o \in Objects, WriterAnswers(o)
  PROVE  IInv' /\ Outcomes
<1> DEFINE set == sets[at]
           c == set.objs[o]
           done == [c EXCEPT !.application = "VERIFIED", !.verified = db'[o].token]
           new == [set EXCEPT !.objs[o] = done]
<1>0. pc = "writer" /\ pc' = "writing" /\ UNCHANGED <<at, op, edits, restaged>> /\ Written(o) /\ o \in AtWriter
  BY DEF WriterAnswers, Goto
<1>1. TypeInv /\ at \in Used /\ at \in Ids /\ set \in SetType /\ set.status = "APPLYING" /\ op # "none"
  BY <1>0, AtWork DEF IInv, TypeInv
<1>2. /\ db' \in [Objects -> [value : Contents, version : Nat, token : Nat]]
      /\ \A p \in Objects : db'[p].value = IF p = o THEN c.after ELSE db[p].value
  BY <1>0, <1>1, WrittenType
<1>3. c \in ObjectType /\ db'[o].token \in Nat
  BY <1>1, <1>2 DEF SetType
<1>4. c.application = "APPLYING"
  BY <1>0 DEF AtWriter
<1>5. Put(at, [set EXCEPT !.objs[o].application = "VERIFIED", !.objs[o].verified = db'[o].token])
  BY DEF WriterAnswers
<1>6. \A p \in Objects : set.objs[p].application # "PENDING" => p \in Members(set)
  BY <1>1 DEF IInv, Untouched
<1>7. edits = 0 => \A p \in InState(set, {"VERIFIED"}) : db[p].value = set.objs[p].after
  BY <1>0 DEF IInv, StillLive
<1>8. SameLineage(new, set) => SameLineage(new, sets[at])
  OBVIOUS
<1>9. sets[at].status = "APPLYING"
  BY <1>1
<1> HIDE DEF set
<1>10. [set EXCEPT !.objs[o].application = "VERIFIED", !.objs[o].verified = db'[o].token] = new
  BY <1>1, <1>3 DEF SetType
<1> HIDE DEF c
<1>11. /\ done \in ObjectType /\ done.application = "VERIFIED"
       /\ done.in = c.in /\ done.before = c.before /\ done.after = c.after
  BY <1>3 DEF ObjectType
<1> HIDE DEF done
<1>12. /\ new \in SetType /\ SameLineage(new, set) /\ new.status = set.status
       /\ \A p \in Objects : new.objs[p] = IF p = o THEN done ELSE set.objs[p]
  BY <1>1, <1>11 DEF SetType, SameLineage, SameLinks, c
<1> HIDE DEF new
<1>13. \A p \in Objects : new.objs[p].application # "PENDING" => p \in Members(new)
  BY <1>4, <1>6, <1>12 DEF Members, SameLineage, SameLinks, c
<1>14. edits = 0 => \A p \in InState(new, {"VERIFIED"}) : db'[p].value = new.objs[p].after
  <2> SUFFICES ASSUME edits = 0, NEW p \in InState(new, {"VERIFIED"})
               PROVE  db'[p].value = new.objs[p].after
    OBVIOUS
  <2>1. CASE p = o
    BY <1>2, <1>11, <1>12, <2>1
  <2>2. CASE p # o
    <3>1. p \in Objects /\ p \in InState(set, {"VERIFIED"})
      BY <1>12, <2>2 DEF InState, Members
    <3> QED
      BY <1>2, <1>7, <1>12, <2>2, <3>1
  <2> QED
    BY <2>1, <2>2
<1>15. op' \in {"apply", "recover"}
  BY <1>0, <1>1 DEF TypeInv
<1> QED
  BY <1>0, <1>1, <1>2, <1>5, <1>8, <1>9, <1>10, <1>12, <1>13, <1>14, <1>15, WritingKeeps

\* An operation ends before its set is complete.
LEMMA StopKeeps ==
  ASSUME IInv, pc # "idle", Put(at, Stopped(sets[at])), Continuing(at) = {},
         sets[at].status \in {"APPLYING", "APPLIED", "REVERTED"}, Return, UNCHANGED <<edits, restaged>>,
         db' \in [Objects -> [value : Contents, version : Nat, token : Nat]]
  PROVE  IInv' /\ Outcomes
<1> PICK i \in Used : i = at
  BY AtWork
<1> DEFINE set == Stopped(sets[i])
<1>1. TypeInv /\ i \in Ids /\ sets[i] \in SetType /\ i # None
  BY AtWork DEF IInv
<1>2. /\ set \in SetType /\ SameLineage(set, sets[i])
      /\ set.status \in {"PARTIALLY_APPLIED", "FAILED"}
      /\ set.status = "FAILED" => \A o \in Objects : set.objs[o].application = "PENDING"
      /\ \A o \in Objects : set.objs[o].application # "PENDING" => sets[i].objs[o].application # "PENDING"
  BY <1>1, StoppedType
<1>3. Put(i, set) /\ at' = None /\ pc' = "idle" /\ op' = "none"
  BY DEF Return
<1> HIDE DEF set
<1>4. \A o \in Objects : set.objs[o].application # "PENDING" => set.status \notin Unapplied /\ o \in Members(set)
  BY <1>1, <1>2 DEF IInv, Untouched, Unapplied, Members, SameLineage, SameLinks
<1>5. Records' /\ Outcomes /\ sets' \in [Ids -> SetType]
  BY <1>1, <1>2, <1>3, <1>4, RevisedKeeps
<1>6. edits' \in Nat /\ restaged' \subseteq Ids
  BY <1>1 DEF TypeInv
<1> QED
  BY <1>3, <1>5, <1>6, Rests

\* A refusal, a lost answer or a differing readback, and every stop between
\* two writers.
LEMMA StopSafe ==
  ASSUME IInv, StopWriting \/ \E o \in Objects : WriterFails(o)
  PROVE  IInv' /\ Outcomes
<1>1. /\ pc \in {"writing", "writer"} /\ Put(at, Stopped(sets[at])) /\ Return /\ UNCHANGED <<edits, restaged>>
      /\ UNCHANGED db \/ \E o \in Objects : Written(o)
  BY DEF StopWriting, WriterFails, NotWritten
<1>2. TypeInv /\ at \in Ids /\ sets[at].status = "APPLYING"
  BY <1>1, AtWork DEF IInv, TypeInv
<1>3. Continuing(at) = {}
  BY <1>2 DEF IInv, Retained
<1>4. db' \in [Objects -> [value : Contents, version : Nat, token : Nat]]
  BY <1>1, <1>2, WrittenType DEF TypeInv
<1> QED
  BY <1>1, <1>2, <1>3, <1>4, StopKeeps

\* The publication failed: an application pauses, a reconciliation leaves
\* everything as it is.
LEMMA PublicationFailsSafe ==
  ASSUME IInv, PublicationFails
  PROVE  IInv' /\ Outcomes
<1>1. pc \in {"publish", "mark"} /\ Return /\ UNCHANGED <<db, edits, restaged>>
  BY DEF PublicationFails
<1>2. TypeInv /\ at \in Ids /\ sets[at].status \in {"APPLIED", "REVERTED"} /\ Unwritten(sets[at]) = {}
  BY <1>1, AtWork DEF IInv, Publishing
<1>3. Continuing(at) = {}
  BY <1>2 DEF IInv, Retained
<1>4. db' \in [Objects -> [value : Contents, version : Nat, token : Nat]] /\ edits' \in Nat /\ restaged' \subseteq Ids
  BY <1>1, <1>2 DEF TypeInv
<1>5. CASE op = "apply"
  <2>1. Put(at, Stopped(sets[at]))
    BY <1>5 DEF PublicationFails
  <2> QED
    BY <1>1, <1>2, <1>3, <1>4, <2>1, StopKeeps
<1>6. CASE op # "apply"
  <2>1. UNCHANGED sets /\ at' = None /\ pc' = "idle" /\ op' = "none"
    BY <1>6 DEF PublicationFails, Return
  <2> QED
    BY <1>1, <1>4, <2>1, UnputKeeps, Rests
<1> QED
  BY <1>5, <1>6

\* The last save of an application; an inverse goes on to its publication.
LEMMA FinishSafe ==
  ASSUME IInv, Finish
  PROVE  IInv' /\ Outcomes
<1> PICK i \in Used : i = at
  BY AtWork DEF Finish
<1> DEFINE set == [sets[i] EXCEPT !.status = "APPLIED"]
<1>1. /\ TypeInv /\ i \in Ids /\ i # None /\ sets[i] \in SetType
      /\ sets[i].status = "APPLYING" /\ op \in {"apply", "recover"}
  BY AtWork DEF Finish, IInv, TypeInv
<1>2. set \in SetType /\ SameLineage(set, sets[i]) /\ set.status = "APPLIED" /\ set.objs = sets[i].objs
  BY <1>1 DEF Statuses, SetType, SameLineage, SameLinks
<1>3. /\ Put(i, set) /\ UNCHANGED <<db, edits, restaged>> /\ Unwritten(sets[i]) = {}
      /\ IF sets[i].reverses = None THEN Return ELSE Goto("publish")
  BY DEF Finish
<1> HIDE DEF set
<1>4. Continuing(i) = {}
  BY <1>1 DEF IInv, Retained
<1>5. \A o \in Objects : set.objs[o].application # "PENDING" => set.status \notin Unapplied /\ o \in Members(set)
  BY <1>1, <1>2 DEF IInv, Untouched, Unapplied, Members
<1>6. at' \in {at, None}
  BY <1>3 DEF Return, Goto
<1>7. Records' /\ Outcomes /\ sets' \in [Ids -> SetType]
  BY <1>1, <1>2, <1>3, <1>4, <1>5, <1>6, RevisedKeeps
<1>8. sets'[i] = set
  BY <1>1, <1>2, <1>3, PutType
<1>9. CASE sets[i].reverses = None
  BY <1>1, <1>3, <1>7, <1>9, Rests DEF Return, TypeInv
<1>10. CASE sets[i].reverses # None
  <2>1. pc' = "publish" /\ at' = i /\ op' = op
    BY <1>3, <1>10 DEF Goto
  <2>2. TypeInv'
    BY <1>1, <1>3, <1>7, <2>1 DEF TypeInv
  <2>3. Publishing'
    BY <1>2, <1>3, <1>8, <1>10, <2>1 DEF Publishing, Unwritten, Approved, Members, SameLineage, SameLinks
  <2>4. InState(set, {"VERIFIED"}) = InState(sets[i], {"VERIFIED"})
    BY <1>2 DEF InState, Members
  <2>5. edits = 0 => \A o \in InState(set, {"VERIFIED"}) : db[o].value = set.objs[o].after
    BY <1>2, <2>4 DEF IInv, StillLive, Finish
  <2>6. StillLive'
    BY <1>3, <1>8, <2>1, <2>5 DEF StillLive, InState, Members
  <2>7. Restored'
    BY <2>1 DEF Restored
  <2> QED
    BY <1>7, <2>2, <2>3, <2>6, <2>7 DEF IInv, Records
<1> QED
  BY <1>9, <1>10

-------------------------------------------------------------------------------
(***************************************************************************)
(* Publishing a reversal                                                   *)
(***************************************************************************)
\* When everything of an inverse is verified and its lineage is intact, every
\* source is back at what it had found.
LEMMA SourcesRestored ==
  ASSUME IInv, BeginPublication, edits = 0, Checked, NEW s \in SourceIds(sets[at]),
         NEW o \in InState(sets[s], {"VERIFIED"})
  PROVE  db[o].value = sets[s].objs[o].before
<1> DEFINE set == sets[at]
<1>0. /\ TypeInv /\ at \in Used /\ at \in Ids /\ set \in SetType
      /\ ReversalIntact(at, set) /\ ContinuationIntact(set) /\ set.reverses # None /\ o \in Objects
  BY AtWork DEF BeginPublication, IInv, Publishing, Intact, InState, Members
<1>1. \A p \in Members(set) : db[p].value = set.objs[p].after
  BY DEF BeginPublication, IInv, StillLive, InState
<1>2. CASE ~set.bound
  <2>1. s = set.reverses
    BY <1>2 DEF SourceIds
  <2>2. o \in Members(set) /\ set.objs[o].after = sets[s].objs[o].before
    BY <1>0, <1>2, <2>1 DEF IInv, Inverses, Checked
  <2> QED
    BY <1>1, <2>2
<1>3. CASE set.bound
  <2>0. /\ Members(set) \cup {p.obj : p \in set.pins} = {b.obj : b \in set.sources}
        /\ \A k \in SourceIds(set) : Pins(k) = {b \in set.sources : b.set = k}
        /\ \A b \in set.sources : b.obj \in Members(set) =>
             set.objs[b.obj].after = sets[b.set].objs[b.obj].before
        /\ \A b \in set.sources : b.obj \notin Members(set) =>
             sets[(CHOOSE p \in set.pins : p.obj = b.obj).set].objs[b.obj].after = sets[b.set].objs[b.obj].before
    BY <1>0, <1>3 DEF ReversalIntact
  <2>1. s \in Ids
    BY <1>0, <1>3 DEF SourceIds, SetType, PinType
  <2>2. PICK b \in Pins(s) : b.obj = o
    BY <1>0, <2>1, PinsType
  <2>3. b \in set.sources /\ b.set = s
    BY <2>0, <2>2
  <2>4. CASE o \in Members(set)
    <3>1. set.objs[o].after = sets[s].objs[o].before
      BY <2>0, <2>2, <2>3, <2>4
    <3> QED
      BY <1>1, <2>4, <3>1
  <2>5. CASE o \notin Members(set)
    <3> DEFINE q == CHOOSE p \in set.pins : p.obj = b.obj
    <3>1. b.obj \in {p.obj : p \in set.pins}
      BY <2>0, <2>2, <2>3, <2>5
    <3>2. q \in set.pins /\ q.obj = o
      BY <2>2, <3>1
    <3>3. sets[q.set].objs[o].after = sets[s].objs[o].before
      <4>1. b.obj \notin Members(set)
        BY <2>2, <2>5
      <4>2. sets[q.set].objs[b.obj].after = sets[b.set].objs[b.obj].before
        BY <2>0, <2>3, <4>1
      <4> HIDE DEF q
      <4> QED
        BY <2>2, <2>3, <4>2
    <3> HIDE DEF q
    <3>4. set.follows # None
      BY <1>0, <3>2 DEF IInv, Linked
    <3>5. q \in Pins(q.set) /\ PinHolds(q) /\ q.set \in Ids
      BY <1>0, <3>2, <3>4 DEF ContinuationIntact, SetType, PinType
    <3>6. q.value = sets[q.set].objs[o].after
      BY <1>0, <3>2, <3>5, PinsType
    <3>7. db[o].value = q.value
      BY <3>2, <3>5 DEF PinHolds, Live
    <3> QED
      BY <3>3, <3>6, <3>7
  <2> QED
    BY <2>4, <2>5
<1> QED
  BY <1>2, <1>3

\* The check before the sources are marked.
LEMMA BeginPublicationSafe ==
  ASSUME IInv, BeginPublication
  PROVE  IInv' /\ Outcomes
<1>1. pc = "publish" /\ pc' = "mark" /\ UNCHANGED <<sets, db, at, op, edits, restaged>>
  BY DEF BeginPublication, Goto
<1>2. Records' /\ Outcomes
  BY <1>1, UnputKeeps
<1>3. TypeInv'
  BY <1>1 DEF IInv, TypeInv
<1>4. Publishing' /\ StillLive'
  BY <1>1 DEF IInv, Publishing, StillLive, Unwritten, Approved, Members, InState
<1>5. Restored'
  BY <1>1, SourcesRestored DEF Restored, Checked, SourceIds, InState, Members
<1> QED
  BY <1>2, <1>3, <1>4, <1>5 DEF IInv, Records

\* One source becomes REVERTED.
LEMMA MarkSafe ==
  ASSUME IInv, NEW s \in Ids, Mark(s)
  PROVE  IInv' /\ Outcomes
<1> DEFINE set == [sets[s] EXCEPT !.status = "REVERTED", !.revertedBy = at]
<1>1. TypeInv /\ sets[s] \in SetType /\ at \in Ids
  BY AtWork DEF Mark, IInv, TypeInv
<1>2. set \in SetType /\ SameLineage(set, sets[s]) /\ set.status = "REVERTED" /\ set.objs = sets[s].objs
  BY <1>1 DEF Statuses, SetType, SameLineage, SameLinks
<1>3. Put(s, set) /\ pc = "mark" /\ UNCHANGED <<db, pc, at, op, edits, restaged>>
  BY DEF Mark
<1>4. sets[s].status \in {"APPLIED", "PARTIALLY_APPLIED"} /\ s \in Used
  BY DEF Mark, Unmarked, Used
<1> HIDE DEF set
<1>5. Unwritten(set) = Unwritten(sets[s])
  BY <1>2 DEF Unwritten, Approved, Members
<1>6. \A o \in Objects : set.objs[o].application # "PENDING" => set.status \notin Unapplied /\ o \in Members(set)
  BY <1>2 DEF IInv, Untouched, Unapplied, Members
<1>7. Records' /\ Outcomes /\ sets' \in [Ids -> SetType]
  BY <1>2, <1>3, <1>4, <1>5, <1>6, RevisedKeeps DEF IInv, Retained
<1>8. \A k \in Ids : /\ sets'[k].objs = sets[k].objs /\ sets'[k].bound = sets[k].bound
                     /\ sets'[k].sources = sets[k].sources /\ sets'[k].reverses = sets[k].reverses
                     /\ k # s => sets'[k].status = sets[k].status
                     /\ k = s => sets'[k].status = "REVERTED"
  BY <1>1, <1>2, <1>3, PutType DEF SameLineage, SameLinks
<1>9. TypeInv'
  BY <1>1, <1>3, <1>7 DEF TypeInv
<1>10. Publishing' /\ StillLive'
  BY <1>1, <1>3, <1>8 DEF IInv, Publishing, StillLive, Unwritten, Approved, Members, InState
<1>11. Restored'
  <2>1. SourceIds(sets[at])' = SourceIds(sets[at])
    BY <1>1, <1>3, <1>8 DEF SourceIds
  <2>2. SourceIds(sets[at]) \subseteq Ids
    <3>1. sets[at].bound => sets[at].sources \subseteq PinType
      BY <1>1 DEF TypeInv, SetType
    <3>2. sets[at].reverses \in Ids
      BY <1>1, <1>3 DEF TypeInv, SetType, IInv, Publishing
    <3> QED
      BY <3>1, <3>2 DEF SourceIds, PinType
  <2> QED
    BY <1>1, <1>3, <1>8, <2>1, <2>2 DEF IInv, Restored, Checked, InState, Members
<1> QED
  BY <1>7, <1>9, <1>10, <1>11 DEF IInv, Records

-------------------------------------------------------------------------------
(***************************************************************************)
(* Interruptions, reconciliation and others' saves                         *)
(***************************************************************************)
\* The lock is released, or its holder dies.
LEMMA ReleaseSafe ==
  ASSUME IInv, EndPublication \/ Crash
  PROVE  IInv' /\ Outcomes
<1>1. /\ pc # "idle" /\ pc' = "idle" /\ at' = None /\ op' = "none" /\ UNCHANGED <<sets, edits, restaged>>
      /\ UNCHANGED db \/ \E o \in Objects : Written(o)
  BY DEF EndPublication, Crash, Return, NotWritten, AtWriter
<1>2. TypeInv /\ at \in Ids
  BY <1>1, AtWork DEF IInv
<1>3. db' \in [Objects -> [value : Contents, version : Nat, token : Nat]] /\ edits' \in Nat /\ restaged' \subseteq Ids
  BY <1>1, <1>2, WrittenType DEF TypeInv
<1> QED
  BY <1>1, <1>3, UnputKeeps, Rests

\* A reconciliation.
LEMMA RecoverSafe ==
  ASSUME IInv, NEW i \in Used, Recover(i)
  PROVE  IInv' /\ Outcomes
<1> DEFINE old == sets[i]
           objs == [o \in Objects |-> Reconciled(old.objs[o], o)]
           read == [old EXCEPT !.objs = objs]
           status == IF Complete(read) THEN "APPLIED" ELSE "PARTIALLY_APPLIED"
           set == [read EXCEPT !.status = status]
<1>1. TypeInv /\ i \in Ids /\ old \in SetType /\ i # None
  BY DEF IInv, TypeInv, Used, Ids, None
<1>2. /\ Put(i, set) /\ UNCHANGED <<db, edits, restaged>> /\ pc = "idle" /\ old.status \in {"APPLYING", "PARTIALLY_APPLIED"}
      /\ IF Complete(read) /\ read.reverses # None THEN Enter(i, "recover", "publish") ELSE UNCHANGED <<pc, at, op>>
  BY DEF Recover
<1>3. at = None /\ op = "none"
  BY <1>1, <1>2 DEF TypeInv
<1>4. ASSUME NEW o \in Objects
      PROVE  /\ objs[o] \in ObjectType
             /\ objs[o].in = old.objs[o].in /\ objs[o].before = old.objs[o].before
             /\ objs[o].after = old.objs[o].after /\ objs[o].approved = old.objs[o].approved
             /\ old.objs[o].application = "PENDING" => objs[o].application = "PENDING"
             /\ objs[o].application = "VERIFIED" => db[o].value = old.objs[o].after
  <2>1. old.objs[o] \in ObjectType /\ db[o].token \in Nat
    BY <1>1 DEF SetType, TypeInv
  <2>2. objs[o] = Reconciled(old.objs[o], o)
    OBVIOUS
  <2> HIDE DEF old, objs
  <2> QED
    BY <2>1, <2>2, ReconciledType
<1>5. objs \in [Objects -> ObjectType]
  BY <1>4
<1>6. SameLineage(set, old) => SameLineage(set, sets[i])
  OBVIOUS
<1>7. Continuing(i) # {} => old.status = "PARTIALLY_APPLIED" /\ Unwritten(old) # {}
  BY <1>1, <1>2 DEF IInv, Retained
<1>8. \A o \in Objects : old.objs[o].application # "PENDING" => o \in Members(old)
  BY <1>1 DEF IInv, Untouched
<1>9. old.status # "CANCELLED" /\ old.status \notin {"APPLIED", "REVERTED"} /\ old = sets[i]
  BY <1>2
<1> HIDE DEF old, objs
<1>10. /\ read \in SetType /\ read.objs = objs /\ read.status = old.status /\ read.reverses = old.reverses
       /\ read.follows = old.follows /\ read.pins = old.pins /\ read.bound = old.bound
       /\ read.sources = old.sources
  BY <1>1, <1>5 DEF SetType
<1> HIDE DEF read
<1>11. status \in Statuses /\ status \in {"APPLIED", "PARTIALLY_APPLIED"} /\ (status = "APPLIED" <=> Complete(read))
  BY DEF Statuses
<1> HIDE DEF status
<1>12. /\ set \in SetType /\ set.objs = objs /\ set.status = status /\ set.reverses = old.reverses
       /\ SameLineage(set, old)
  BY <1>4, <1>10, <1>11 DEF SetType, SameLineage, SameLinks
<1> HIDE DEF set
<1>13. Complete(read) => Unwritten(read) = {}
  BY DEF Complete, Unwritten, InState
<1>14. Unwritten(old) \subseteq Unwritten(read) /\ Unwritten(set) = Unwritten(read)
  BY <1>4, <1>10, <1>12 DEF Unwritten, Approved, Members
<1>15. Continuing(i) # {} => set.status = "PARTIALLY_APPLIED" /\ Unwritten(set) # {}
  BY <1>7, <1>11, <1>12, <1>13, <1>14
<1>16. \A o \in Objects : set.objs[o].application # "PENDING" => set.status \notin Unapplied /\ o \in Members(set)
  BY <1>4, <1>8, <1>11, <1>12 DEF Members, Unapplied
<1>17. set.status # "NONE" /\ SameLineage(set, sets[i])
  BY <1>6, <1>11, <1>12
<1>18. at' \in {at, None} \/ at' = i
  BY <1>2 DEF Enter
<1>19. Records' /\ Outcomes /\ sets' \in [Ids -> SetType]
  BY <1>2, <1>9, <1>12, <1>15, <1>16, <1>17, <1>18, RevisedKeeps
<1>20. CASE Complete(read) /\ read.reverses # None
  <2>1. pc' = "publish" /\ at' = i /\ op' = "recover"
    BY <1>2, <1>20 DEF Enter
  <2>2. sets'[i] = set
    BY <1>1, <1>2, <1>12, PutType
  <2>3. TypeInv'
    BY <1>1, <1>2, <1>19, <2>1 DEF TypeInv
  <2>4. set.status = "APPLIED" /\ set.reverses # None /\ Unwritten(set) = {}
    BY <1>10, <1>11, <1>12, <1>13, <1>14, <1>20
  <2>5. Publishing'
    BY <2>1, <2>2, <2>4 DEF Publishing, Unwritten, Approved, Members
  <2>6. \A o \in InState(set, {"VERIFIED"}) : db[o].value = set.objs[o].after
    BY <1>4, <1>12 DEF InState, Members
  <2>7. StillLive'
    BY <1>2, <2>1, <2>2, <2>6 DEF StillLive, InState, Members
  <2>8. Restored'
    BY <2>1 DEF Restored
  <2> QED
    BY <1>19, <2>3, <2>5, <2>7, <2>8 DEF IInv, Records
<1>21. CASE ~(Complete(read) /\ read.reverses # None)
  BY <1>1, <1>2, <1>3, <1>19, <1>21, Rests DEF TypeInv
<1> QED
  BY <1>20, <1>21

\* Another developer or tool saves a definition.
LEMMA EditSafe ==
  ASSUME IInv, NEW o \in Objects, NEW v \in Contents, Edit(o, v)
  PROVE  IInv' /\ Outcomes
<1>1. TypeInv /\ Stored(o, v) /\ edits' = edits + 1 /\ UNCHANGED <<sets, pc, at, op, restaged>>
  BY DEF Edit, IInv
<1>2. Records' /\ Outcomes
  BY <1>1, UnputKeeps
<1>3. edits' \in Nat /\ edits' # 0
  BY <1>1, BoundAssumption DEF TypeInv
<1>4. TypeInv'
  BY <1>1, <1>3, StoredType DEF TypeInv
<1>5. Publishing'
  BY <1>1 DEF IInv, Publishing, Unwritten, Approved, Members
<1>6. StillLive' /\ Restored'
  BY <1>3 DEF StillLive, Restored
<1> QED
  BY <1>2, <1>4, <1>5, <1>6 DEF IInv, Records

-------------------------------------------------------------------------------
(***************************************************************************)
(* The invariant and the properties                                        *)
(***************************************************************************)
\* Nothing but the first set, over the initial values, and nothing of it
\* written.
LEMMA InitSafe ==
  ASSUME Init
  PROVE  IInv
<1> DEFINE value(o) == [value |-> InitialValue[o], version |-> 1, token |-> Token(o, InitialValue[o], 1)]
           object(o) == [NoObject EXCEPT !.in = TRUE, !.before = InitialValue[o], !.base = db[o].token,
                           !.after = ProposedValue[o], !.deps = Depends[o]]
           objs == [o \in Objects |-> object(o)]
           first == [NoSet EXCEPT !.status = "DRAFT", !.objs = objs]
<1>1. db \in [Objects -> [value : Contents, version : Nat, token : Nat]]
  <2>1. ASSUME NEW o \in Objects PROVE value(o) \in [value : Contents, version : Nat, token : Nat]
    BY ValuesAssumption, TokenType
  <2>2. db = [o \in Objects |-> value(o)]
    BY DEF Init
  <2> HIDE DEF value
  <2> QED
    BY <2>1, <2>2
<1>2. sets = [i \in Ids |-> IF i # 1 THEN NoSet ELSE first]
  BY DEF Init
<1>3. ASSUME NEW o \in Objects PROVE object(o) \in ObjectType /\ object(o).application = "PENDING"
  <2>1. /\ InitialValue[o] \in Contents /\ ProposedValue[o] \in Contents /\ Depends[o] \in SUBSET Objects
        /\ db[o].token \in Nat
    BY <1>1, ValuesAssumption, DependsAssumption
  <2> QED
    BY <2>1, NoValues DEF NoObject, ObjectType
<1>4. objs \in [Objects -> ObjectType] /\ \A o \in Objects : objs[o].application = "PENDING"
  BY <1>3
<1> HIDE DEF objs
<1>5. /\ first \in SetType /\ first.status = "DRAFT" /\ first.objs = objs /\ first.follows = None
      /\ first.reverses = None /\ first.pins = {}
  BY <1>4, NoValues DEF NoSet, SetType, Statuses
<1>6. NoSet \in SetType /\ NoSet.status = "NONE" /\ \A o \in Objects : NoSet.objs[o].application = "PENDING"
  BY NoValues DEF NoSet, NoObject
<1> HIDE DEF first
<1>7. sets \in [Ids -> SetType] /\ \A i \in Ids : sets[i] = IF i # 1 THEN NoSet ELSE first
  BY <1>2, <1>5, <1>6
<1>8. 1 \in Ids /\ 1 # None /\ 1 \in 0 .. MaxSets /\ {1} = 1 .. 1 /\ 0 \in Nat
  BY BoundAssumption DEF Ids, None
<1>9. Used = {1}
  BY <1>5, <1>6, <1>7, <1>8 DEF Used
<1>10. TypeInv
  BY <1>1, <1>7, <1>8 DEF Init, TypeInv
<1>11. Numbered /\ Linked
  BY <1>5, <1>7, <1>8, <1>9 DEF Numbered, Linked
<1>12. Untouched
  BY <1>4, <1>5, <1>6, <1>7 DEF Untouched
<1>13. \A i \in Ids : Continuing(i) = {}
  BY <1>5, <1>7, <1>8, <1>9 DEF Continuing, Ids, None
<1>14. Retained /\ Single
  BY <1>13 DEF Retained, Single
<1>15. Publishing /\ StillLive /\ Restored
  BY DEF Init, Publishing, StillLive, Restored
<1>16. Inverses
  BY <1>5, <1>7, <1>8, <1>9 DEF Inverses
<1> QED
  BY <1>10, <1>11, <1>12, <1>14, <1>15, <1>16 DEF IInv

\* Every step keeps the invariant, and what is continued partial.
LEMMA StepSafe ==
  ASSUME IInv, [Next]_vars
  PROVE  IInv' /\ Outcomes
<1>1. ASSUME NEW i \in Used, Plan(i) PROVE IInv' /\ Outcomes
  BY <1>1, ReviewSafe, ReviseSafe, LineageSafe DEF Plan
<1>2. ASSUME NEW i \in Used, Apply(i) PROVE IInv' /\ Outcomes
  BY <1>2, ApplyBeginSafe, ReviewSafe DEF Apply
<1>3. ASSUME NEW o \in Objects, Write(o) PROVE IInv' /\ Outcomes
  BY <1>3, StartWriterSafe, WriterAnswersSafe, StopSafe DEF Write
<1>4. CASE Publish
  BY <1>4, BeginPublicationSafe, MarkSafe, ReleaseSafe, PublicationFailsSafe DEF Publish
<1>5. CASE UNCHANGED vars
  <2>1. UNCHANGED <<sets, db, pc, at, op, edits, restaged>>
    BY <1>5 DEF vars
  <2>2. Records' /\ Outcomes
    BY <2>1, UnputKeeps
  <2>3. TypeInv'
    BY <2>1 DEF IInv, TypeInv
  <2>4. Publishing' /\ StillLive' /\ Restored'
    BY <2>1 DEF IInv, Publishing, StillLive, Restored, Checked, Unwritten, Approved, Members, InState, SourceIds
  <2> QED
    BY <2>2, <2>3, <2>4 DEF IInv, Records
<1> QED
  BY <1>1, <1>2, <1>3, <1>4, <1>5, RecoverSafe, StopSafe, FinishSafe, ReleaseSafe, EditSafe DEF Next

\* Nothing but the publication of its inverse reverts a set.
LEMMA OnlyMarkReverts ==
  ASSUME IInv, Next, NEW s \in Ids, sets[s].status # "REVERTED", sets'[s].status = "REVERTED"
  PROVE  Mark(s)
<1>0. TypeInv /\ sets \in [Ids -> SetType]
  BY DEF IInv, TypeInv
<1>1. ASSUME NEW i \in Ids, NEW set, Put(i, set) PROVE sets'[s] = IF s = i THEN set ELSE sets[s]
  BY <1>0, <1>1 DEF Put
<1>2. ASSUME NEW i \in Ids, NEW set, set.status # "REVERTED" PROVE ~Put(i, set)
  BY <1>1, <1>2
<1>3. \A i \in Ids : Stopped(sets[i]).status # "REVERTED"
  BY <1>0, StoppedType
<1>4. ASSUME NEW i \in Ids, NEW v \in {"CANCELLED", "CONFLICTED", "APPLYING", "APPLIED"},
             Put(i, [sets[i] EXCEPT !.status = v])
      PROVE  FALSE
  BY <1>0, <1>2, <1>4 DEF SetType
<1>5. ASSUME NEW i \in Used, Plan(i) \/ Apply(i) \/ Recover(i) PROVE FALSE
  <2>0. i \in Ids /\ sets[i] \in SetType
    BY <1>0 DEF Used
  <2>1. ASSUME NEW ids \in SUBSET Objects, Approve(i, ids) PROVE FALSE
    <3> DEFINE objs == [o \in Objects |-> [sets[i].objs[o] EXCEPT !.approved = o \in ids]]
    <3>1. Put(i, [sets[i] EXCEPT !.status = "APPROVED", !.objs = objs])
      BY <2>1 DEF Approve
    <3> HIDE DEF objs
    <3>2. [sets[i] EXCEPT !.status = "APPROVED", !.objs = objs].status = "APPROVED"
      BY <2>0 DEF SetType
    <3> QED
      BY <1>2, <2>0, <3>1, <3>2
  <2>2. CASE Cancel(i) \/ ApplyBegin(i) \/ ApplyRefused(i)
    BY <1>4, <2>0, <2>2 DEF Cancel, ApplyBegin, ApplyRefused
  <2>5. Revised(sets[i]).status = "DRAFT"
    BY <2>0, RevisedType
  <2>6. ASSUME NEW o \in Objects, NEW value \in Contents, NEW deps \in SUBSET Objects, Restage(i, o, value, deps)
        PROVE  FALSE
    <3>1. RestagedSet(sets[i], o, value, deps).status = "DRAFT" /\ Put(i, RestagedSet(sets[i], o, value, deps))
      BY <1>0, <2>0, <2>6, RestagedType DEF Restage
    <3> QED
      BY <1>2, <2>0, <3>1
  <2>7. ~Replan(i)
    BY <1>2, <2>0, <2>5 DEF Replan
  <2>3. CASE PrepareRemaining(i) \/ Reverse(i)
    <3>1. Continuation(i).status = "DRAFT" /\ InverseSet(i).status = "DRAFT"
      BY ContinuationType, InverseType
    <3>2. FreshId \in Ids
      BY <2>3, FreshIsNext DEF PrepareRemaining, Reverse
    <3> QED
      BY <1>2, <2>3, <3>1, <3>2 DEF PrepareRemaining, Reverse
  <2>4. CASE Recover(i)
    <3> DEFINE objs == [o \in Objects |-> Reconciled(sets[i].objs[o], o)]
               read == [sets[i] EXCEPT !.objs = objs]
               status == IF Complete(read) THEN "APPLIED" ELSE "PARTIALLY_APPLIED"
    <3>1. Put(i, [read EXCEPT !.status = status])
      BY <2>4 DEF Recover
    <3>2. status # "REVERTED"
      OBVIOUS
    <3> HIDE DEF objs, status
    <3>3. [read EXCEPT !.status = status].status = status
      BY <2>0 DEF SetType
    <3> QED
      BY <1>2, <2>0, <3>1, <3>2, <3>3
  <2> QED
    BY <1>5, <2>1, <2>2, <2>3, <2>4, <2>6, <2>7 DEF Plan, Apply
<1>6. ASSUME NEW o \in Objects, Write(o) PROVE FALSE
  <2>1. at \in Ids /\ sets[at] \in SetType /\ sets[at].status = "APPLYING"
    BY <1>6, AtWork DEF Write, StartWriter, WriterAnswers, WriterFails, IInv, TypeInv
  <2>2. CASE StartWriter(o)
    <3>1. [sets[at] EXCEPT !.objs[o].application = "APPLYING"].status = "APPLYING"
      BY <2>1 DEF SetType
    <3> QED
      BY <1>2, <2>1, <2>2, <3>1 DEF StartWriter
  <2>3. CASE WriterAnswers(o)
    <3>1. [sets[at] EXCEPT !.objs[o].application = "VERIFIED", !.objs[o].verified = db'[o].token].status = "APPLYING"
      BY <2>1 DEF SetType
    <3> QED
      BY <1>2, <2>1, <2>3, <3>1 DEF WriterAnswers
  <2>4. CASE WriterFails(o)
    BY <1>2, <1>3, <2>1, <2>4 DEF WriterFails
  <2> QED
    BY <1>6, <2>2, <2>3, <2>4 DEF Write
<1>7. ASSUME StopWriting \/ Finish \/ Crash PROVE FALSE
  <2>1. at \in Ids
    BY <1>7, AtWork DEF StopWriting, Finish, Crash
  <2> QED
    BY <1>2, <1>3, <1>4, <1>7, <2>1 DEF StopWriting, Finish, Crash
<1>8. CASE Publish
  <2>1. at \in Ids
    BY <1>8, AtWork DEF Publish, BeginPublication, Mark, EndPublication, PublicationFails
  <2>2. ~BeginPublication /\ ~EndPublication
    BY DEF BeginPublication, EndPublication
  <2>3. ~PublicationFails
    BY <1>2, <1>3, <2>1 DEF PublicationFails
  <2>4. ASSUME NEW k \in Ids, Mark(k), k # s PROVE FALSE
    BY <1>1, <2>4 DEF Mark
  <2> QED
    BY <1>8, <2>2, <2>3, <2>4 DEF Publish
<1> QED
  BY <1>5, <1>6, <1>7, <1>8 DEF Next, Edit

\* The invariant is inductive: everything below follows from it.
THEOREM Inductive == Spec => []IInv
<1>1. Init => IInv
  BY InitSafe
<1>2. IInv /\ [Next]_vars => IInv'
  BY StepSafe
<1> QED
  BY <1>1, <1>2, PTL DEF Spec

\* Every variable has its type, and the lock is held exactly while an
\* application or a reconciliation is under way: no handler of
\* changeReview/service.ts stores a record of another shape.
THEOREM Typing == Spec => []TypeOK
<1>1. IInv => TypeOK
  BY DEF IInv, TypeInv, TypeOK, SetType
<1> QED
  BY <1>1, Inductive, PTL

\* A partial application is continued by one set at a time: prepareRemaining
\* starts another only when the one before was cancelled, and nothing revives
\* a cancelled set.
THEOREM OneFollowUpHolds == Spec => []OneFollowUp
<1>1. ASSUME IInv PROVE OneFollowUp
  <2> SUFFICES ASSUME NEW i \in Used PROVE Cardinality(Continuing(i)) <= 1
    BY DEF OneFollowUp
  <2>1. \A j, k \in Continuing(i) : j = k
    BY <1>1 DEF IInv, Single, Used
  <2>2. CASE Continuing(i) = {}
    BY <2>2, FS_EmptySet
  <2>3. CASE Continuing(i) # {}
    <3>1. PICK j : j \in Continuing(i)
      BY <2>3
    <3>2. Continuing(i) = {j}
      BY <2>1, <3>1
    <3> QED
      BY <3>2, FS_Singleton
  <2> QED
    BY <2>2, <2>3
<1> QED
  BY <1>1, Inductive, PTL

\* Once somebody continues it, a partial outcome is never relabelled APPLIED:
\* recover finds the objects its continuation took over as untouched as they
\* were, and calls no such set complete.
THEOREM PartialOutcomeRetainedHolds == Spec => PartialOutcomeRetained
<1> DEFINE Step == \A i \in Ids : Continuing(i) # {} => sets'[i].status \in {"PARTIALLY_APPLIED", "REVERTED"}
<1>1. IInv /\ [Next]_vars => [Step]_vars
  BY StepSafe DEF Outcomes
<1>2. Spec => [][Step]_vars
  BY <1>1, Inductive, PTL DEF Spec
<1> QED
  BY <1>2 DEF PartialOutcomeRetained

\* When a set becomes REVERTED, and nobody else saved anything, every object
\* it verified is back at what the set had found, whatever was staged in the
\* sets of a combined undo: the lineage is checked after the last write, and the
\* lock is held until the last source is marked.  Only an inverse that names no
\* sources, and was staged again, is checked against nothing.
THEOREM UndoRestoresHolds == Spec => UndoRestores
<1> DEFINE Step == edits' = 0 => \A s \in Ids :
                     Reverts(s) => Restores(s) \/ (~sets[at].bound /\ at \in restaged)
<1>1. ASSUME IInv, Next PROVE Step
  <2> SUFFICES ASSUME edits' = 0, NEW s \in Ids, sets[s].status # "REVERTED", sets'[s].status = "REVERTED",
                      sets[at].bound \/ at \notin restaged, NEW o \in InState(sets[s], {"VERIFIED"})
               PROVE  db'[o].value = sets[s].objs[o].before
    BY DEF Reverts, Restores
  <2>1. Mark(s)
    BY <1>1, OnlyMarkReverts
  <2>2. s \in SourceIds(sets[at]) /\ pc = "mark" /\ UNCHANGED <<db, edits>>
    BY <2>1 DEF Mark, Unmarked
  <2> QED
    BY <1>1, <2>2 DEF IInv, Restored, Checked
<1>2. IInv /\ [Next]_vars => [Step]_vars
  BY <1>1
<1>3. Spec => [][Step]_vars
  BY <1>2, Inductive, PTL DEF Spec
<1> QED
  BY <1>3 DEF UndoRestores

-------------------------------------------------------------------------------
(***************************************************************************)
(* The order of what is in the database                                    *)
(***************************************************************************)
\* The objects a set is responsible for: its own, and those it pins.
Pinned(set) == {p.obj : p \in set.pins}
Scope(set) == Members(set) \cup Pinned(set)

\* A set leads its objects from one of the two states to the other, and its
\* dependencies are the proposal's, or the proposal's turned round.
Leads(set, from, to) ==
  /\ \A o \in Members(set) : set.objs[o].before = from[o] /\ set.objs[o].after = to[o]
  /\ \A p \in set.pins : p.value = to[p.obj]
Forward(set) ==
  /\ Leads(set, InitialValue, ProposedValue)
  /\ \A o \in Members(set) : \A d \in Depends[o] :
       d \in Scope(set) /\ (d \in Members(set) => d \in set.objs[o].deps)
Backward(set) ==
  /\ Leads(set, ProposedValue, InitialValue)
  /\ \A o, d \in Members(set) : d \in Depends[o] => o \in set.objs[d].deps
Directed ==
  \A i \in Used : /\ Forward(sets[i]) \/ Backward(sets[i])
                  /\ sets[i].reverses = None => Forward(sets[i])

\* A set reverses what the set it continues does, and pins what its chain did.
PinChain ==
  \A i \in Used :
    /\ sets[i].follows # None => sets[i].reverses = sets[sets[i].follows].reverses
    /\ \A p \in sets[i].pins : p.set \in Used /\ sets[p.set].pins \subseteq sets[i].pins

\* Only approved objects have outcomes, with what they depend on; an inverse
\* is approved as a whole; an applied set verified what was approved.
Chosen(set) ==
  /\ \A o \in Objects : set.objs[o].application # "PENDING" => o \in Approved(set)
  /\ \A o \in Approved(set) : set.objs[o].deps \subseteq Approved(set)
  /\ set.reverses # None /\ set.status \notin Unapplied => Approved(set) = Members(set)
  /\ set.status = "APPLIED" => \A o \in Approved(set) : set.objs[o].application = "VERIFIED"
Choices == \A i \in Ids : Chosen(sets[i])

\* The sets that reverse nothing form one chain, along which nothing is
\* written but by the last.
Original(i) == i \in Used /\ sets[i].reverses = None /\ sets[i].status # "CANCELLED"
Chain ==
  \A i, j \in Ids : Original(i) /\ Original(j) /\ j < i =>
    /\ Continuing(j) # {} /\ j <= sets[i].follows
    /\ \A o \in Objects : sets[j].objs[o].application # "PENDING" => o \in Pinned(sets[i])

\* Every reversal is about what the chain achieved.
Ending(e) ==
  /\ Original(e) /\ sets[e].status \in {"APPLIED", "REVERTED"}
  /\ \A o \in Approved(sets[e]) : sets[e].objs[o].application = "VERIFIED"
Achieving(e) == Pinned(sets[e]) \cup InState(sets[e], {"VERIFIED"})
Scoped ==
  \A i \in Used : sets[i].reverses # None =>
    /\ \E e \in Used : Ending(e) /\ Scope(sets[i]) = Achieving(e)
    /\ \A o \in Scope(sets[i]) : Depends[o] \subseteq Scope(sets[i])

\* While nobody else saves, a proposed value is there because a set of the
\* chain put it there, or a reversal is responsible for it.
Explained ==
  edits = 0 => \A o \in Objects : db[o].value = ProposedValue[o] =>
    \/ \E j \in Ids : Original(j) /\ sets[j].objs[o].application # "PENDING"
    \/ \E i \in Used : sets[i].reverses # None /\ o \in Scope(sets[i])

\* One object at a time is at its writer, with its prerequisites in place, or
\* what depends on it gone.
Allowed(o) ==
  /\ sets[at].objs[o].after = ProposedValue[o] =>
       \A d \in Depends[o] : db[d].value = ProposedValue[d]
  /\ sets[at].objs[o].after # ProposedValue[o] =>
       \A d \in Objects : o \in Depends[d] => db[d].value # ProposedValue[d]
OneWriter ==
  /\ pc = "writing" => \A o \in Objects : sets[at].objs[o].application \in {"PENDING", "VERIFIED"}
  /\ pc = "writer" => \A o, d \in Objects :
       sets[at].objs[o].application = "APPLYING" =>
         /\ d # o => sets[at].objs[d].application \in {"PENDING", "VERIFIED"}
         /\ edits = 0 => Allowed(o)

InPlace ==
  edits = 0 => \A o \in Objects : db[o].value = ProposedValue[o] =>
    \A d \in Depends[o] : db[d].value = ProposedValue[d]

Placed ==
  /\ IInv /\ Directed /\ PinChain /\ Choices /\ Chain /\ Scoped /\ Explained /\ OneWriter
  /\ InPlace

\* The parts that are about the records.
Lineage == Directed /\ PinChain /\ Choices /\ Chain /\ Scoped /\ Explained

\* Two records of one set, dependencies included.
SameProposal(a, b) == SameLineage(a, b) /\ \A o \in Objects : a.objs[o].deps = b.objs[o].deps

\* Such records have the same objects and lead the same way.
LEMMA SameProposalKeeps ==
  ASSUME NEW a, NEW b, SameProposal(a, b)
  PROVE  /\ Members(a) = Members(b) /\ Pinned(a) = Pinned(b) /\ Scope(a) = Scope(b)
         /\ Forward(a) <=> Forward(b)
         /\ Backward(a) <=> Backward(b)
<1>1. Members(a) = Members(b) /\ Pinned(a) = Pinned(b) /\ Scope(a) = Scope(b)
  BY DEF SameProposal, SameLineage, SameLinks, Members, Pinned, Scope
<1>2. Members(b) \subseteq Objects
  BY DEF Members
<1>3. \A from, to : Leads(a, from, to) <=> Leads(b, from, to)
  BY <1>1, <1>2 DEF SameProposal, SameLineage, SameLinks, Leads
<1>4. Forward(a) <=> Forward(b)
  BY <1>1, <1>2, <1>3 DEF Forward, SameProposal
<1>5. Backward(a) <=> Backward(b)
  BY <1>1, <1>2, <1>3 DEF Backward, SameProposal
<1> QED
  BY <1>1, <1>4, <1>5

\* A record of a set that was not cancelled is replaced: what is in the
\* database stays explained, and what a reversal is about is not touched.
LEMMA RevisedPlaced ==
  ASSUME Placed, IInv', NEW i \in Used, NEW set \in SetType, Put(i, set), SameProposal(set, sets[i]), Chosen(set),
         set.status # "NONE", sets[i].status # "CANCELLED", edits' = edits,
         set.status = "CANCELLED" => sets[i].status \in {"DRAFT", "APPROVED", "CONFLICTED"},
         \/ Continuing(i) = {}
         \/ \A o \in Objects : set.objs[o].application # "PENDING" => sets[i].objs[o].application # "PENDING",
         sets[i].reverses = None /\ sets[i].status \in {"APPLIED", "REVERTED"} =>
           set.objs = sets[i].objs /\ set.status \in {"APPLIED", "REVERTED"},
         \A o \in Objects : edits = 0 /\ db'[o].value = ProposedValue[o] =>
           /\ db[o].value = ProposedValue[o] \/ set.objs[o].application # "PENDING"
           /\ set.reverses = None /\ sets[i].objs[o].application # "PENDING" => set.objs[o].application # "PENDING"
  PROVE  Lineage'
<1>0. IInv /\ TypeInv /\ i \in Ids /\ Directed /\ PinChain /\ Choices /\ Chain /\ Scoped /\ Explained
  BY DEF Placed, IInv, Used
<1>1. sets' \in [Ids -> SetType] /\ \A k \in Ids : sets'[k] = IF k = i THEN set ELSE sets[k]
  BY <1>0, PutType
<1>2. Used' = Used /\ Used \subseteq Ids
  BY <1>0, <1>1 DEF Used
<1>3. \A k \in Ids : SameProposal(sets'[k], sets[k])
  BY <1>0, <1>1 DEF SameProposal, SameLineage, SameLinks
<1>4. \A k \in Ids : /\ sets'[k].reverses = sets[k].reverses /\ sets'[k].follows = sets[k].follows
                     /\ sets'[k].pins = sets[k].pins
                     /\ Members(sets'[k]) = Members(sets[k]) /\ Pinned(sets'[k]) = Pinned(sets[k])
                     /\ Scope(sets'[k]) = Scope(sets[k])
                     /\ Forward(sets'[k]) <=> Forward(sets[k])
                     /\ Backward(sets'[k]) <=> Backward(sets[k])
  BY <1>3, SameProposalKeeps DEF SameProposal, SameLineage, SameLinks
<1>5. \A k \in Ids : /\ Forward(sets[k])' <=> Forward(sets'[k])
                     /\ Backward(sets[k])' <=> Backward(sets'[k])
                     /\ Scope(sets[k])' = Scope(sets'[k]) /\ Pinned(sets[k])' = Pinned(sets'[k])
                     /\ Chosen(sets[k])' <=> Chosen(sets'[k])
  BY DEF Forward, Backward, Leads, Scope, Pinned, Members, Chosen, Approved
<1>6. Directed' /\ PinChain'
  <2>1. Directed'
    BY <1>0, <1>2, <1>4, <1>5 DEF Directed
  <2>2. \A k \in Used : sets[k].follows # None => sets[k].follows \in Ids
    BY <1>0, <1>2 DEF IInv, Linked
  <2>3. PinChain'
    BY <1>0, <1>2, <1>4, <2>2 DEF PinChain
  <2> QED
    BY <2>1, <2>3
<1>7. Choices'
  BY <1>0, <1>1, <1>5 DEF Choices
<1>8. set.status = "CANCELLED" => Continuing(i) = {} /\ \A o \in Objects : sets[i].objs[o].application = "PENDING"
  BY <1>0 DEF IInv, Retained, Untouched, Unapplied
<1>9. \A k \in Ids : Original(k)' <=> Original(k) /\ (k = i => set.status # "CANCELLED")
  BY <1>0, <1>1, <1>2, <1>4 DEF Original
<1>10. \A k \in Ids : \A j \in Continuing(k) : j # i \/ set.status # "CANCELLED" => j \in Continuing(k)'
  BY <1>0, <1>1, <1>2, <1>4 DEF Continuing
<1>11. Chain'
  <2> SUFFICES ASSUME NEW a \in Ids, NEW b \in Ids, Original(a)', Original(b)', b < a
               PROVE  /\ Continuing(b)' # {} /\ b <= sets'[a].follows
                      /\ \A o \in Objects : sets'[b].objs[o].application # "PENDING" => o \in Pinned(sets'[a])
    BY DEF Chain, Pinned
  <2>1. /\ Original(a) /\ Original(b) /\ Continuing(b) # {} /\ b <= sets[a].follows
        /\ \A o \in Objects : sets[b].objs[o].application # "PENDING" => o \in Pinned(sets[a])
    BY <1>0, <1>9 DEF Chain
  <2>2. Continuing(b)' # {}
    <3>1. PICK k \in Continuing(b) : TRUE
      BY <2>1
    <3>2. CASE k # i \/ set.status # "CANCELLED"
      BY <1>10, <3>1, <3>2
    <3>3. CASE k = i /\ set.status = "CANCELLED"
      <4>1. sets[i].follows = b /\ sets[i].reverses = sets[b].reverses /\ b # None
        BY <1>0, <3>1, <3>3 DEF Continuing, PinChain, Ids, None
      <4>2. Original(i) /\ a # i
        BY <1>0, <1>9, <2>1, <3>3, <4>1 DEF Original
      <4>3. ~(i < a)
        BY <1>0, <1>8, <2>1, <3>3, <4>2 DEF Chain
      <4>4. ~(a < i)
        BY <1>0, <2>1, <4>1, <4>2 DEF Chain, Ids
      <4> QED
        BY <1>0, <4>2, <4>3, <4>4 DEF Ids
    <3> QED
      BY <3>2, <3>3
  <2>3. ASSUME NEW o \in Objects, sets'[b].objs[o].application # "PENDING"
        PROVE  sets[b].objs[o].application # "PENDING"
    BY <1>1, <2>1, <2>3
  <2> QED
    BY <1>4, <2>1, <2>2, <2>3
<1>12. Scoped'
  <2> SUFFICES ASSUME NEW k \in Used, sets'[k].reverses # None
               PROVE  /\ \E e \in Used : Ending(e)' /\ Scope(sets[k])' = Achieving(e)'
                      /\ \A o \in Scope(sets[k])' : Depends[o] \subseteq Scope(sets[k])'
    BY <1>2 DEF Scoped
  <2>1. PICK e \in Used : Ending(e) /\ Scope(sets[k]) = Achieving(e)
    BY <1>0, <1>2, <1>4 DEF Scoped
  <2>2. sets'[e].objs = sets[e].objs /\ sets'[e].status \in {"APPLIED", "REVERTED"} /\ e \in Ids
    BY <1>1, <1>2, <2>1 DEF Ending, Original
  <2>3. Ending(e)'
    BY <1>2, <1>4, <2>1, <2>2 DEF Ending, Original, Approved, Members
  <2>4. Achieving(e)' = Achieving(e)
    BY <1>4, <1>5, <2>2 DEF Achieving, InState, Members
  <2>5. k \in Ids /\ Scope(sets[k])' = Scope(sets[k])
    BY <1>2, <1>4, <1>5
  <2> QED
    BY <1>0, <1>4, <2>1, <2>3, <2>4, <2>5 DEF Scoped
<1>13. Explained'
  <2> SUFFICES ASSUME edits = 0, NEW o \in Objects, db'[o].value = ProposedValue[o]
               PROVE  \/ \E j \in Ids : Original(j)' /\ sets'[j].objs[o].application # "PENDING"
                      \/ \E k \in Used : sets'[k].reverses # None /\ o \in Scope(sets'[k])
    BY <1>2, <1>5 DEF Explained
  <2>1. CASE set.objs[o].application # "PENDING"
    <3>1. o \in Members(set) /\ set.status # "CANCELLED"
      BY <1>0, <1>1, <2>1 DEF IInv, Untouched, Unapplied, Members
    <3>2. Original(i)' \/ set.reverses # None
      BY <1>0, <1>2, <1>1, <3>1 DEF Original
    <3> QED
      BY <1>0, <1>1, <2>1, <3>1, <3>2 DEF Scope
  <2>2. CASE db[o].value = ProposedValue[o] /\ \E j \in Ids : Original(j) /\ sets[j].objs[o].application # "PENDING"
    <3>1. PICK j \in Ids : Original(j) /\ sets[j].objs[o].application # "PENDING"
      BY <2>2
    <3>2. sets'[j].objs[o].application # "PENDING" /\ Original(j)'
      BY <1>1, <1>4, <1>8, <1>9, <3>1 DEF Original
    <3> QED
      BY <3>2
  <2>3. CASE db[o].value = ProposedValue[o] /\ \E k \in Used : sets[k].reverses # None /\ o \in Scope(sets[k])
    BY <1>2, <1>4, <2>3
  <2> QED
    BY <1>0, <2>1, <2>2, <2>3 DEF Explained
<1> QED
  BY <1>6, <1>7, <1>11, <1>12, <1>13 DEF Lineage

\* No record is put.
LEMMA UnputPlaced ==
  ASSUME Placed, UNCHANGED sets,
         \A o \in Objects : edits' = 0 /\ db'[o].value = ProposedValue[o] =>
           edits = 0 /\ (db[o].value = ProposedValue[o] \/ (at \in Used /\ sets[at].objs[o].application # "PENDING"))
  PROVE  Lineage'
<1>0. IInv /\ TypeInv /\ Directed /\ PinChain /\ Choices /\ Chain /\ Scoped /\ Explained
  BY DEF Placed, IInv
<1>1. /\ Used' = Used /\ \A k \in Ids : Original(k)' <=> Original(k)
      /\ \A k \in Used : Scope(sets[k])' = Scope(sets[k])
      /\ Used \subseteq Ids
  BY DEF Used, Original, Scope, Members, Pinned
<1>2. Directed' /\ PinChain' /\ Choices'
  BY <1>0, <1>1 DEF Directed, Forward, Backward, Leads, Scope, Pinned, Members, PinChain, Choices, Chosen, Approved
<1>3. Chain'
  BY <1>0, <1>1 DEF Chain, Continuing, Pinned
<1>4. Scoped'
  <2>1. \A e \in Used : (Ending(e)' <=> Ending(e)) /\ Achieving(e)' = Achieving(e)
    BY <1>1 DEF Ending, Approved, Members, Achieving, Pinned, InState
  <2> QED
    BY <1>0, <1>1, <2>1 DEF Scoped
<1>5. Explained'
  <2> SUFFICES ASSUME edits' = 0, NEW o \in Objects, db'[o].value = ProposedValue[o]
               PROVE  \/ \E j \in Ids : Original(j) /\ sets[j].objs[o].application # "PENDING"
                      \/ \E k \in Used : sets[k].reverses # None /\ o \in Scope(sets[k])
    BY <1>1 DEF Explained
  <2>1. CASE edits = 0 /\ db[o].value = ProposedValue[o]
    BY <1>0, <2>1 DEF Explained
  <2>2. CASE at \in Used /\ sets[at].objs[o].application # "PENDING"
    <3>1. at \in Ids /\ o \in Members(sets[at]) /\ sets[at].status # "CANCELLED"
      BY <1>0, <1>1, <2>2 DEF IInv, Untouched, Unapplied
    <3> QED
      BY <2>2, <3>1 DEF Original, Scope
  <2> QED
    BY <2>1, <2>2
<1> QED
  BY <1>2, <1>3, <1>4, <1>5 DEF Lineage

\* A new set continues the chain, or a reversal, or reverses what the chain
\* achieved.
LEMMA AddedPlaced ==
  ASSUME Placed, IInv', Cardinality(Used) < MaxSets, NEW set \in SetType, Put(FreshId, set), UNCHANGED <<db, edits>>,
         set.status = "DRAFT",
         \A o \in Objects : set.objs[o].application = "PENDING" /\ set.objs[o].approved = FALSE,
         Forward(set) \/ Backward(set), set.reverses = None => Forward(set),
         set.follows # None => set.follows \in Used /\ set.reverses = sets[set.follows].reverses,
         \A p \in set.pins : p.set \in Used /\ sets[p.set].pins \subseteq set.pins,
         set.reverses = None =>
           /\ Original(set.follows) /\ Continuing(set.follows) = {}
           /\ Pinned(sets[set.follows]) \subseteq Pinned(set)
           /\ \A o \in Objects : sets[set.follows].objs[o].application # "PENDING" => o \in Pinned(set),
         set.reverses # None =>
           /\ \E e \in Used : Ending(e) /\ Scope(set) = Achieving(e)
           /\ \A o \in Scope(set) : Depends[o] \subseteq Scope(set)
  PROVE  Lineage'
<1>0. /\ IInv /\ TypeInv /\ Directed /\ PinChain /\ Choices /\ Chain /\ Scoped /\ Explained
      /\ FreshId \in Ids /\ FreshId \notin Used /\ FreshId \in 1 .. MaxSets /\ Used \cup {FreshId} = 1 .. FreshId
  BY FreshIsNext DEF Placed, IInv
<1>1. sets' \in [Ids -> SetType] /\ \A k \in Ids : sets'[k] = IF k = FreshId THEN set ELSE sets[k]
  BY <1>0, PutType
<1> PICK n \in Ids : n = FreshId
  BY <1>0
<1>2. n \notin Used /\ sets'[n] = set /\ (\A k \in Ids \ {n} : sets'[k] = sets[k]) /\ n # None /\ Used \subseteq Ids
  BY <1>0, <1>1 DEF Ids, None, Used
<1>3. Used' = Used \cup {n}
  <2>1. \A k \in Ids : sets'[k].status # "NONE" <=> k \in Used \/ k = n
    BY <1>2 DEF Used
  <2> QED
    BY <1>2, <2>1 DEF Used
<1>4. \A k \in Used : k < n
  BY <1>0, <1>2 DEF Ids
<1>5. \A k \in Used : k # n /\ k \in Ids
  BY <1>2
<1>6. \A k \in Ids : /\ Forward(sets[k])' <=> Forward(sets'[k])
                     /\ Backward(sets[k])' <=> Backward(sets'[k])
                     /\ Scope(sets[k])' = Scope(sets'[k]) /\ Pinned(sets[k])' = Pinned(sets'[k])
                     /\ Chosen(sets[k])' <=> Chosen(sets'[k])
  BY DEF Forward, Backward, Leads, Scope, Pinned, Members, Chosen, Approved
<1>7. Directed'
  BY <1>0, <1>2, <1>3, <1>5, <1>6 DEF Directed
<1>8. PinChain'
  <2>1. \A k \in Used : sets[k].follows # None => sets[k].follows \in Used
    BY <1>0 DEF IInv, Linked
  <2> QED
    BY <1>0, <1>2, <1>3, <1>5, <2>1 DEF PinChain
<1>9. Choices'
  <2>0. Approved(set) = {}
    BY DEF Approved, Members
  <2>1. Chosen(set)
    BY <2>0 DEF Chosen, Unapplied
  <2> QED
    BY <1>0, <1>2, <1>6, <2>1 DEF Choices
<1>10. \A k \in Ids : Original(k)' <=> Original(k) \/ (k = n /\ set.reverses = None)
  BY <1>2, <1>3 DEF Original
<1>11. \A k \in Used : Continuing(k) \subseteq Continuing(k)'
  BY <1>2, <1>3, <1>5 DEF Continuing
<1>12. Chain'
  <2> SUFFICES ASSUME NEW a \in Ids, NEW b \in Ids, Original(a)', Original(b)', b < a
               PROVE  /\ Continuing(b)' # {} /\ b <= sets'[a].follows
                      /\ \A o \in Objects : sets'[b].objs[o].application # "PENDING" => o \in Pinned(sets'[a])
    BY DEF Chain, Pinned
  <2>1. Original(b) /\ b \in Used /\ sets'[b] = sets[b]
    <3>1. a \in Used \cup {n}
      BY <1>10 DEF Original
    <3>2. b # n
      BY <1>4, <3>1 DEF Ids
    <3> QED
      BY <1>2, <1>10, <3>2 DEF Original
  <2>2. CASE a = n
    <3> DEFINE f == set.follows
    <3>1. set.reverses = None /\ Original(f) /\ f \in Used /\ f \in Ids /\ sets'[a] = set
      BY <1>2, <1>5, <1>10, <2>2 DEF Original
    <3>2. Continuing(f) = {} /\ Pinned(sets[f]) \subseteq Pinned(set)
          /\ \A o \in Objects : sets[f].objs[o].application # "PENDING" => o \in Pinned(set)
      BY <3>1
    <3>3. n \in Continuing(f)'
      BY <1>2, <1>3, <3>1 DEF Continuing
    <3>4. CASE b = f
      BY <2>1, <3>1, <3>2, <3>3, <3>4 DEF Ids
    <3>5. CASE b # f
      <4>1. ~(f < b)
        BY <1>0, <2>1, <3>1, <3>2 DEF Chain
      <4>2. b < f
        BY <3>1, <3>5, <4>1 DEF Ids
      <4>3. /\ Continuing(b) # {}
            /\ \A o \in Objects : sets[b].objs[o].application # "PENDING" => o \in Pinned(sets[f])
        BY <1>0, <2>1, <3>1, <4>2 DEF Chain
      <4> HIDE DEF f
      <4> QED
        BY <1>11, <2>1, <3>1, <3>2, <4>2, <4>3 DEF f, Ids
    <3> QED
      BY <3>4, <3>5
  <2>3. CASE a # n
    <3>1. Original(a) /\ sets'[a] = sets[a]
      BY <1>2, <1>10, <2>3
    <3> QED
      BY <1>0, <1>11, <2>1, <3>1 DEF Chain
  <2> QED
    BY <2>2, <2>3
<1>13. Scoped'
  <2>1. \A e \in Used : Ending(e) => Ending(e)' /\ Achieving(e)' = Achieving(e)
    BY <1>2, <1>3, <1>5 DEF Ending, Original, Approved, Members, Achieving, Pinned, InState
  <2> SUFFICES ASSUME NEW k \in Used \cup {n}, sets'[k].reverses # None
               PROVE  /\ \E e \in Used : Ending(e)' /\ Scope(sets'[k]) = Achieving(e)'
                      /\ \A o \in Scope(sets'[k]) : Depends[o] \subseteq Scope(sets'[k])
    BY <1>3, <1>5, <1>6 DEF Scoped
  <2>2. CASE k = n
    BY <1>2, <2>1, <2>2
  <2>3. CASE k # n
    BY <1>0, <1>2, <1>5, <2>1, <2>3 DEF Scoped
  <2> QED
    BY <2>2, <2>3
<1>14. Explained'
  <2> SUFFICES ASSUME edits = 0, NEW o \in Objects, db[o].value = ProposedValue[o]
               PROVE  \/ \E j \in Ids : Original(j)' /\ sets'[j].objs[o].application # "PENDING"
                      \/ \E k \in Used \cup {n} : sets'[k].reverses # None /\ o \in Scope(sets'[k])
    BY <1>3, <1>5, <1>6 DEF Explained
  <2>1. CASE \E j \in Ids : Original(j) /\ sets[j].objs[o].application # "PENDING"
    BY <1>2, <1>5, <1>10, <2>1 DEF Original
  <2>2. CASE \E k \in Used : sets[k].reverses # None /\ o \in Scope(sets[k])
    BY <1>2, <1>5, <2>2
  <2> QED
    BY <1>0, <2>1, <2>2 DEF Explained
<1> QED
  BY <1>7, <1>8, <1>9, <1>12, <1>13, <1>14 DEF Lineage

\* Nothing of the chain comes after a set that can be reversed.
LEMMA NothingAfter ==
  ASSUME Placed, NEW e \in Used, Ending(e), NEW j \in Ids, Original(j)
  PROVE  j = e \/ j < e
<1>1. e \in Ids /\ Original(e) /\ IInv /\ Chain
  BY DEF Used, Ending, Placed
<1>2. Unwritten(sets[e]) = {}
  BY DEF Ending, Unwritten
<1>3. Continuing(e) = {}
  BY <1>1, <1>2 DEF IInv, Retained
<1>4. ~(e < j)
  BY <1>1, <1>3 DEF Chain
<1> QED
  BY <1>1, <1>4 DEF Ids

\* All reversals are about the same objects.
LEMMA SameScope ==
  ASSUME Placed, NEW i \in Used, NEW k \in Used, sets[i].reverses # None, sets[k].reverses # None
  PROVE  Scope(sets[i]) = Scope(sets[k])
<1>1. PICK e \in Used : Ending(e) /\ Scope(sets[i]) = Achieving(e)
  BY DEF Placed, Scoped
<1>2. PICK f \in Used : Ending(f) /\ Scope(sets[k]) = Achieving(f)
  BY DEF Placed, Scoped
<1>3. e \in Ids /\ Original(e) /\ f \in Ids /\ Original(f)
  BY <1>1, <1>2 DEF Used, Ending
<1>4. e = f \/ e < f
  BY <1>2, <1>3, NothingAfter
<1>5. f = e \/ f < e
  BY <1>1, <1>3, NothingAfter
<1> QED
  BY <1>1, <1>2, <1>3, <1>4, <1>5 DEF Ids

\* While nobody else saves, a reversal is responsible for all proposed values
\* that are in the database.
LEMMA Covered ==
  ASSUME Placed, NEW i \in Used, sets[i].reverses # None, edits = 0,
         NEW o \in Objects, db[o].value = ProposedValue[o]
  PROVE  o \in Scope(sets[i])
<1>1. PICK e \in Used : Ending(e) /\ Scope(sets[i]) = Achieving(e)
  BY DEF Placed, Scoped
<1>2. e \in Ids /\ Original(e)
  BY <1>1 DEF Used, Ending
<1>3. CASE \E j \in Ids : Original(j) /\ sets[j].objs[o].application # "PENDING"
  <2>1. PICK j \in Ids : Original(j) /\ sets[j].objs[o].application # "PENDING"
    BY <1>3
  <2>2. CASE j = e
    <3>1. o \in Approved(sets[e])
      BY <1>2, <2>1, <2>2 DEF Placed, Choices, Chosen
    <3>2. o \in InState(sets[e], {"VERIFIED"})
      BY <1>1, <3>1 DEF Ending, Approved, InState
    <3> QED
      BY <1>1, <3>2 DEF Achieving
  <2>3. CASE j < e
    <3>1. o \in Pinned(sets[e])
      BY <1>2, <2>1, <2>3 DEF Placed, Chain
    <3> QED
      BY <1>1, <3>1 DEF Achieving
  <2> QED
    BY <1>1, <2>1, <2>2, <2>3, NothingAfter
<1>4. CASE \E k \in Used : sets[k].reverses # None /\ o \in Scope(sets[k])
  <2>1. PICK k \in Used : sets[k].reverses # None /\ o \in Scope(sets[k])
    BY <1>4
  <2> QED
    BY <2>1, SameScope
<1> QED
  BY <1>3, <1>4 DEF Placed, Explained

\* What a set pins is live when its lineage is intact.
LEMMA PinnedIsLive ==
  ASSUME IInv, NEW i \in Used, ContinuationIntact(sets[i]), NEW p \in sets[i].pins
  PROVE  db[p.obj].value = p.value
<1>1. sets[i].follows # None
  BY DEF IInv, Linked
<1>2. PinHolds(p)
  BY <1>1 DEF ContinuationIntact
<1> QED
  BY <1>2 DEF PinHolds, Live

\* A writer is called for a dependent when its prerequisites are there, and for
\* a prerequisite when its dependents are gone.
LEMMA AllowedHere ==
  ASSUME Placed, NEW o \in Objects, StartWriter(o), edits = 0
  PROVE  Allowed(o)
<1> DEFINE set == sets[at]
<1>1. /\ at \in Used /\ IInv /\ ContinuationIntact(set) /\ DependenciesHold(set, o) /\ o \in Members(set)
      /\ Forward(set) \/ Backward(set)
      /\ set.reverses = None => Forward(set)
  BY AtWork DEF StartWriter, Placed, Intact, Unwritten, Approved, Directed
<1>2. \A d \in set.objs[o].deps \cap Objects : db[d].value = set.objs[d].after
  <2>1. \A d \in set.objs[o].deps \cap Objects : d \in Above(set, o)
    BY DEF Above
  <2>2. \A d \in Above(set, o) : Live(d) = [value |-> set.objs[d].after, token |-> set.objs[d].verified]
    BY <1>1 DEF DependenciesHold
  <2> QED
    BY <2>1, <2>2 DEF Live
<1>3. \A p \in set.pins : db[p.obj].value = p.value
  BY <1>1, PinnedIsLive
<1>4. InitialValue[o] # ProposedValue[o]
  BY ValuesAssumption
<1>5. ASSUME set.objs[o].after = ProposedValue[o], NEW d \in Depends[o]
      PROVE  db[d].value = ProposedValue[d]
  <2>1. Forward(set)
    BY <1>1, <1>4, <1>5 DEF Backward, Leads
  <2>2. d \in Objects
    BY DependsAssumption
  <2>3. CASE d \in Members(set)
    BY <1>1, <1>2, <2>1, <2>2, <2>3 DEF Forward, Leads
  <2>4. CASE d \in Pinned(set)
    <3>1. PICK p \in set.pins : p.obj = d
      BY <2>4 DEF Pinned
    <3> QED
      BY <1>3, <2>1, <3>1 DEF Forward, Leads
  <2> QED
    BY <1>1, <1>5, <2>1, <2>3, <2>4 DEF Forward, Scope
<1>6. ASSUME set.objs[o].after # ProposedValue[o], NEW d \in Objects, o \in Depends[d],
             db[d].value = ProposedValue[d]
      PROVE  FALSE
  <2>1. Backward(set) /\ set.reverses # None
    BY <1>1, <1>6 DEF Forward, Leads
  <2>2. d \in Scope(set)
    BY <1>1, <1>6, <2>1, Covered
  <2>3. InitialValue[d] # ProposedValue[d]
    BY ValuesAssumption
  <2>4. CASE d \in Members(set)
    BY <1>1, <1>2, <1>6, <2>1, <2>3, <2>4 DEF Backward, Leads
  <2>5. CASE d \in Pinned(set)
    <3>1. PICK p \in set.pins : p.obj = d
      BY <2>5 DEF Pinned
    <3> QED
      BY <1>3, <1>6, <2>1, <2>3, <3>1 DEF Backward, Leads
  <2> QED
    BY <2>2, <2>4, <2>5 DEF Scope
<1> QED
  BY <1>5, <1>6 DEF Allowed

\* The transaction of the writer keeps the order.
LEMMA WrittenInOrder ==
  ASSUME Placed, pc = "writer", NEW o \in AtWriter, Written(o), edits' = edits
  PROVE  InPlace'
<1>1. o \in Objects /\ TypeInv /\ at \in Ids /\ sets[at].objs[o].application = "APPLYING"
  BY AtWork DEF AtWriter, Placed, IInv
<1>2. \A p \in Objects : db'[p].value = IF p = o THEN sets[at].objs[o].after ELSE db[p].value
  BY <1>1, WrittenType
<1>3. edits = 0 => Allowed(o)
  BY <1>1 DEF Placed, OneWriter
<1> SUFFICES ASSUME edits = 0, NEW x \in Objects, db'[x].value = ProposedValue[x], NEW d \in Depends[x]
             PROVE  db'[d].value = ProposedValue[d]
  BY DEF InPlace
<1>4. d \in Objects
  BY DependsAssumption
<1>5. CASE sets[at].objs[o].after = ProposedValue[o]
  BY <1>1, <1>2, <1>3, <1>4, <1>5 DEF Allowed, Placed, InPlace
<1>6. CASE sets[at].objs[o].after # ProposedValue[o]
  <2>1. x # o /\ db[x].value = ProposedValue[x]
    BY <1>1, <1>2, <1>6
  <2>2. d # o
    BY <1>3, <1>6, <2>1 DEF Allowed
  <2> QED
    BY <1>2, <1>4, <2>1, <2>2 DEF Placed, InPlace
<1> QED
  BY <1>5, <1>6

-------------------------------------------------------------------------------
(***************************************************************************)
(* The steps that keep it                                                  *)
(***************************************************************************)
\* Only the status changes, outside an application.
LEMMA RelabelledKeeps ==
  ASSUME NEW i \in Ids, TypeInv, Chosen(sets[i]),
         NEW s \in {"APPROVED", "CANCELLED", "CONFLICTED", "APPLYING", "APPLIED", "REVERTED"},
         s \in {"APPLYING", "APPLIED", "REVERTED"} /\ sets[i].reverses # None => Approved(sets[i]) = Members(sets[i]),
         s = "APPLIED" => \A o \in Approved(sets[i]) : sets[i].objs[o].application = "VERIFIED"
  PROVE  LET set == [sets[i] EXCEPT !.status = s]
         IN  /\ set \in SetType /\ set.status = s /\ set.objs = sets[i].objs /\ set.reverses = sets[i].reverses
             /\ SameProposal(set, sets[i]) /\ Chosen(set)
<1> DEFINE set == [sets[i] EXCEPT !.status = s]
<1>1. sets[i] \in SetType
  BY DEF TypeInv
<1>2. set \in SetType /\ SameLineage(set, sets[i]) /\ set.status = s /\ set.objs = sets[i].objs
  BY <1>1 DEF Statuses, SetType, SameLineage, SameLinks
<1> HIDE DEF set
<1>3. SameProposal(set, sets[i]) /\ set.reverses = sets[i].reverses
  BY <1>2 DEF SameProposal, SameLineage, SameLinks
<1>4. Approved(set) = Approved(sets[i]) /\ Members(set) = Members(sets[i])
  BY <1>2 DEF Approved, Members
<1>5. Chosen(set)
  BY <1>2, <1>3, <1>4 DEF Chosen, Unapplied
<1> QED
  BY <1>2, <1>3, <1>5 DEF set

\* What the database holds is as it was.
LEMMA OrderKept ==
  ASSUME Placed, UNCHANGED <<db, edits>>
  PROVE  InPlace'
  BY DEF Placed, InPlace

\* No writer is called.
LEMMA NoWriterAfter ==
  ASSUME pc' \notin {"writing", "writer"}
  PROVE  OneWriter'
  BY DEF OneWriter

\* A cancellation, or an application refused before its first save.
LEMMA RefusedPlaced ==
  ASSUME Placed, IInv', NEW i \in Used, Cancel(i) \/ ApplyRefused(i)
  PROVE  Lineage' /\ OneWriter' /\ InPlace'
<1>0. IInv /\ TypeInv /\ i \in Ids /\ Chosen(sets[i])
  BY DEF Placed, IInv, Used, Choices
<1>1. ASSUME NEW s \in {"CANCELLED", "CONFLICTED"}, Put(i, [sets[i] EXCEPT !.status = s]),
             sets[i].status \in {"DRAFT", "APPROVED", "CONFLICTED"}, UNCHANGED <<db, edits>>
      PROVE  Lineage'
  <2> DEFINE set == [sets[i] EXCEPT !.status = s]
  <2>1. /\ set \in SetType /\ set.status = s /\ set.objs = sets[i].objs /\ set.reverses = sets[i].reverses
        /\ SameProposal(set, sets[i]) /\ Chosen(set)
    <3>1. /\ s \in {"APPROVED", "CANCELLED", "CONFLICTED", "APPLYING", "APPLIED", "REVERTED"}
          /\ s \notin {"APPLYING", "APPLIED", "REVERTED"} /\ s # "APPLIED"
      BY <1>1
    <3> QED
      BY <1>0, <3>1, RelabelledKeeps
  <2>2. Put(i, set)
    BY <1>1
  <2> HIDE DEF set
  <2> QED
    BY <1>1, <2>1, <2>2, RevisedPlaced
<1>2. UNCHANGED <<db, edits, pc>> /\ pc = "idle"
  BY DEF Cancel, ApplyRefused, Idle
<1>3. Lineage'
  BY <1>1, <1>2 DEF Cancel, ApplyRefused
<1> QED
  BY <1>2, <1>3, OrderKept, NoWriterAfter

\* An application begins with nothing written.
LEMMA ApplyBeginPlaced ==
  ASSUME Placed, IInv', NEW i \in Used, ApplyBegin(i)
  PROVE  Lineage' /\ OneWriter' /\ InPlace'
<1> DEFINE set == [sets[i] EXCEPT !.status = "APPLYING"]
<1>0. IInv /\ TypeInv /\ i \in Ids /\ Chosen(sets[i])
  BY DEF Placed, IInv, Used, Choices
<1>1. /\ Put(i, set) /\ sets[i].status = "APPROVED" /\ UNCHANGED <<db, edits>> /\ pc' = "writing" /\ at' = i
      /\ sets[i].reverses # None => Approved(sets[i]) = Members(sets[i])
  BY DEF ApplyBegin, Enter, CompleteSelection
<1>2. /\ set \in SetType /\ set.status = "APPLYING" /\ set.objs = sets[i].objs /\ set.reverses = sets[i].reverses
      /\ SameProposal(set, sets[i]) /\ Chosen(set)
  BY <1>0, <1>1, RelabelledKeeps
<1> HIDE DEF set
<1>3. Lineage'
  BY <1>1, <1>2, RevisedPlaced
<1>4. sets'[at'] = set
  BY <1>0, <1>1, <1>2, PutType
<1>5. OneWriter'
  BY <1>0, <1>1, <1>2, <1>4 DEF OneWriter, IInv, Untouched, Unapplied
<1> QED
  BY <1>1, <1>3, <1>5, OrderKept

\* A review approves objects with what they depend on.
LEMMA ApprovePlaced ==
  ASSUME Placed, IInv', NEW i \in Used, NEW ids \in SUBSET Objects, Approve(i, ids)
  PROVE  Lineage' /\ OneWriter' /\ InPlace'
<1> DEFINE objs == [o \in Objects |-> [sets[i].objs[o] EXCEPT !.approved = o \in ids]]
           set == [sets[i] EXCEPT !.status = "APPROVED", !.objs = objs]
<1>0. IInv /\ TypeInv /\ i \in Ids /\ sets[i] \in SetType
  BY DEF Placed, IInv, TypeInv, Used
<1>1. /\ Put(i, set) /\ sets[i].status \in {"DRAFT", "APPROVED", "CONFLICTED", "FAILED"}
      /\ UNCHANGED <<db, edits, pc>> /\ pc = "idle"
      /\ ids \subseteq Members(sets[i]) /\ \A o \in ids : sets[i].objs[o].deps \subseteq ids
  BY DEF Approve, Idle, Orderable, Deps
<1>2. \A o \in Objects : sets[i].objs[o].application = "PENDING"
  BY <1>0, <1>1 DEF IInv, Untouched, Unapplied
<1>3. ASSUME NEW o \in Objects
      PROVE  LET c == sets[i].objs[o]
             IN  /\ objs[o] \in ObjectType /\ objs[o].in = c.in /\ objs[o].before = c.before /\ objs[o].after = c.after
                 /\ objs[o].deps = c.deps /\ objs[o].application = "PENDING" /\ objs[o].approved = (o \in ids)
  <2> DEFINE c == sets[i].objs[o]
  <2>1. c \in ObjectType /\ c.application = "PENDING"
    BY <1>0, <1>2 DEF SetType
  <2> HIDE DEF c
  <2>2. \A b \in BOOLEAN : LET d == [c EXCEPT !.approved = b]
                           IN  /\ d \in ObjectType /\ d.in = c.in /\ d.before = c.before /\ d.after = c.after
                               /\ d.deps = c.deps /\ d.application = "PENDING" /\ d.approved = b
    BY <2>1 DEF ObjectType
  <2>3. (o \in ids) \in BOOLEAN
    OBVIOUS
  <2> QED
    BY <2>2, <2>3 DEF c
<1>4. objs \in [Objects -> ObjectType]
  BY <1>3
<1> HIDE DEF objs
<1>5. /\ set \in SetType /\ SameLineage(set, sets[i]) /\ set.status = "APPROVED" /\ set.objs = objs
      /\ set.reverses = sets[i].reverses
  BY <1>0, <1>3, <1>4 DEF SetType, SameLineage, SameLinks, Statuses
<1> HIDE DEF set
<1>6. SameProposal(set, sets[i])
  BY <1>3, <1>5 DEF SameProposal
<1>7. Approved(set) = ids
  <2>1. Members(set) = Members(sets[i])
    BY <1>6, SameProposalKeeps
  <2>2. \A o \in Objects : set.objs[o].approved = (o \in ids)
    BY <1>3, <1>5
  <2>3. \A o \in Members(set) : set.objs[o].approved <=> o \in ids
    BY <2>2 DEF Members
  <2>4. ids \subseteq Members(set)
    BY <1>1, <2>1
  <2> HIDE DEF Approve
  <2> QED
    BY <2>3, <2>4 DEF Approved
<1>8. \A o \in Objects : set.objs[o].application = "PENDING" /\ set.objs[o].deps = sets[i].objs[o].deps
  BY <1>3, <1>5
<1>9. Chosen(set)
  BY <1>1, <1>5, <1>7, <1>8 DEF Chosen, Unapplied
<1>10. Lineage'
  BY <1>1, <1>2, <1>5, <1>6, <1>8, <1>9, RevisedPlaced
<1> QED
  BY <1>1, <1>10, OrderKept, NoWriterAfter

\* The record of an application after a step of its writer: one object moves
\* on, and nothing else of the record.
LEMMA WriterMoves ==
  ASSUME Placed, NEW i \in Ids, NEW o \in Objects, NEW set \in SetType, SameLineage(set, sets[i]),
         set.status = sets[i].status, set.status # "APPLIED",
         o \in Approved(sets[i]), set.objs[o].application # "PENDING",
         \A p \in Objects : /\ set.objs[p].approved = sets[i].objs[p].approved
                            /\ set.objs[p].deps = sets[i].objs[p].deps
                            /\ p # o => set.objs[p].application = sets[i].objs[p].application
  PROVE  SameProposal(set, sets[i]) /\ Chosen(set)
<1>1. SameProposal(set, sets[i])
  BY DEF SameProposal
<1>2. Members(set) = Members(sets[i])
  BY <1>1, SameProposalKeeps
<1>3. Approved(set) = Approved(sets[i])
  BY <1>2 DEF Approved, Members
<1>4. set.reverses = sets[i].reverses /\ Chosen(sets[i])
  BY DEF SameLineage, SameLinks, Placed, Choices
<1>5. Approved(set) \subseteq Objects
  BY DEF Approved, Members
<1> QED
  BY <1>1, <1>2, <1>3, <1>4, <1>5 DEF Chosen

\* A writer is called in order.
LEMMA StartWriterPlaced ==
  ASSUME Placed, IInv', NEW o \in Objects, StartWriter(o)
  PROVE  Lineage' /\ OneWriter' /\ InPlace'
<1> DEFINE set == sets[at]
           called == [set.objs[o] EXCEPT !.application = "APPLYING"]
           new == [set EXCEPT !.objs[o] = called]
<1>0. pc = "writing" /\ pc' = "writer" /\ UNCHANGED <<at, db, edits>> /\ o \in Unwritten(set)
  BY DEF StartWriter, Goto
<1>1. /\ IInv /\ TypeInv /\ at \in Used /\ at \in Ids /\ set \in SetType /\ set.status = "APPLYING"
      /\ \A p \in Objects : set.objs[p].application \in {"PENDING", "VERIFIED"}
  BY <1>0, AtWork DEF Placed, IInv, TypeInv, OneWriter
<1>2. Continuing(at) = {} /\ o \in Approved(set)
  BY <1>0, <1>1 DEF IInv, Retained, Unwritten
<1>3. Put(at, new)
  BY DEF StartWriter
<1>4. edits = 0 => Allowed(o)
  BY AllowedHere
<1> DEFINE c == set.objs[o]
<1>5. c \in ObjectType
  BY <1>1 DEF SetType
<1>6. called = [c EXCEPT !.application = "APPLYING"]
  OBVIOUS
<1> HIDE DEF c, called
<1>7. /\ called \in ObjectType /\ called.application = "APPLYING" /\ called.in = c.in /\ called.before = c.before
      /\ called.after = c.after /\ called.deps = c.deps /\ called.approved = c.approved
  BY <1>5, <1>6 DEF ObjectType
<1>8. set.objs[o] = c
  BY DEF c
<1> HIDE DEF set
<1>9. /\ new \in SetType /\ SameLineage(new, set) /\ new.status = set.status
      /\ \A p \in Objects : new.objs[p] = IF p = o THEN called ELSE set.objs[p]
  BY <1>1, <1>7, <1>8 DEF SetType, SameLineage, SameLinks
<1> HIDE DEF new
<1>10. sets[at] = set
  BY DEF set
<1>11. SameProposal(new, set) /\ Chosen(new)
  BY <1>1, <1>2, <1>7, <1>8, <1>9, <1>10, WriterMoves
<1>12. Lineage'
  <2>1. \A p \in Objects : set.objs[p].application # "PENDING" => new.objs[p].application # "PENDING"
    BY <1>7, <1>9
  <2> QED
    BY <1>0, <1>1, <1>2, <1>3, <1>9, <1>10, <1>11, <2>1, RevisedPlaced
<1>13. sets'[at'] = new
  BY <1>0, <1>1, <1>3, <1>9, PutType
<1>14. OneWriter'
  <2> SUFFICES ASSUME NEW p \in Objects, new.objs[p].application = "APPLYING"
               PROVE  /\ \A d \in Objects : d # p => new.objs[d].application \in {"PENDING", "VERIFIED"}
                      /\ edits = 0 => Allowed(p)'
    BY <1>0, <1>13 DEF OneWriter
  <2>1. p = o
    BY <1>1, <1>9
  <2>2. Allowed(o) => Allowed(o)'
    BY <1>0, <1>7, <1>8, <1>9, <1>10, <1>13 DEF Allowed
  <2> QED
    BY <1>1, <1>4, <1>9, <2>1, <2>2
<1> QED
  BY <1>0, <1>12, <1>14, OrderKept

\* Its answer is saved.
LEMMA WriterAnswersPlaced ==
  ASSUME Placed, IInv', NEW o \in Objects, WriterAnswers(o)
  PROVE  Lineage' /\ OneWriter' /\ InPlace'
<1> DEFINE set == sets[at]
           done == [set.objs[o] EXCEPT !.application = "VERIFIED", !.verified = db'[o].token]
           new == [set EXCEPT !.objs[o] = done]
<1>0. pc = "writer" /\ pc' = "writing" /\ UNCHANGED <<at, edits>> /\ Written(o) /\ o \in AtWriter
  BY DEF WriterAnswers, Goto
<1>1. /\ IInv /\ TypeInv /\ at \in Used /\ at \in Ids /\ set \in SetType /\ set.status = "APPLYING"
      /\ set.objs[o].application = "APPLYING"
      /\ \A p \in Objects : p # o => set.objs[p].application \in {"PENDING", "VERIFIED"}
  BY <1>0, AtWork DEF Placed, IInv, TypeInv, OneWriter, AtWriter
<1>2. Continuing(at) = {} /\ o \in Approved(set)
  BY <1>1 DEF IInv, Retained, Placed, Choices, Chosen
<1>3. /\ db' \in [Objects -> [value : Contents, version : Nat, token : Nat]]
      /\ \A p \in Objects : p # o => db'[p].value = db[p].value
  BY <1>0, <1>1, WrittenType
<1>4. Put(at, [set EXCEPT !.objs[o].application = "VERIFIED", !.objs[o].verified = db'[o].token])
  BY DEF WriterAnswers
<1> DEFINE c == set.objs[o]
<1>5. c \in ObjectType /\ db'[o].token \in Nat
  BY <1>1, <1>3 DEF SetType
<1>6. done = [c EXCEPT !.application = "VERIFIED", !.verified = db'[o].token]
  OBVIOUS
<1>7. set.objs[o] = c /\ sets[at] = set
  OBVIOUS
<1> HIDE DEF set, c
<1>8. [set EXCEPT !.objs[o].application = "VERIFIED", !.objs[o].verified = db'[o].token] = new
  BY <1>1, <1>5 DEF SetType
<1> HIDE DEF done
<1>9. /\ done \in ObjectType /\ done.application = "VERIFIED" /\ done.in = c.in /\ done.before = c.before
      /\ done.after = c.after /\ done.deps = c.deps /\ done.approved = c.approved
  BY <1>5, <1>6 DEF ObjectType
<1>10. /\ new \in SetType /\ SameLineage(new, set) /\ new.status = set.status
       /\ \A p \in Objects : new.objs[p] = IF p = o THEN done ELSE set.objs[p]
  BY <1>1, <1>7, <1>9 DEF SetType, SameLineage, SameLinks
<1> HIDE DEF new
<1>11. SameProposal(new, set) /\ Chosen(new)
  BY <1>1, <1>2, <1>7, <1>9, <1>10, WriterMoves
<1>12. Lineage'
  <2>1. \A p \in Objects : set.objs[p].application # "PENDING" => new.objs[p].application # "PENDING"
    BY <1>9, <1>10
  <2>2. \A p \in Objects : db[p].value = db'[p].value \/ new.objs[p].application # "PENDING"
    BY <1>3, <1>9, <1>10
  <2>3. Put(at, new) /\ sets[at].status = "APPLYING" /\ new.status = "APPLYING" /\ at \in Used
    BY <1>1, <1>4, <1>7, <1>8, <1>10
  <2>4. edits' = edits
    BY <1>0
  <2> QED
    BY <1>2, <1>7, <1>10, <1>11, <2>1, <2>2, <2>3, <2>4, RevisedPlaced
<1>13. sets'[at'] = new
  BY <1>0, <1>1, <1>4, <1>8, <1>10, PutType
<1>14. OneWriter'
  BY <1>0, <1>1, <1>9, <1>10, <1>13 DEF OneWriter
<1> QED
  BY <1>0, <1>12, <1>14, WrittenInOrder

\* A writer's transaction, or none.
LEMMA MaybeWritten ==
  ASSUME Placed, pc # "idle", edits' = edits,
         UNCHANGED db \/ (pc = "writer" /\ \E o \in AtWriter : Written(o))
  PROVE  /\ InPlace'
         /\ \A p \in Objects : db'[p].value = db[p].value \/ sets[at].objs[p].application # "PENDING"
<1>1. CASE UNCHANGED db
  BY <1>1, OrderKept
<1>2. ASSUME pc = "writer", NEW o \in AtWriter, Written(o)
      PROVE  /\ InPlace'
             /\ \A p \in Objects : db'[p].value = db[p].value \/ sets[at].objs[p].application # "PENDING"
  <2>1. o \in Objects /\ sets[at].objs[o].application = "APPLYING" /\ TypeInv /\ at \in Ids
    BY AtWork DEF AtWriter, Placed, IInv
  <2>2. \A p \in Objects : p # o => db'[p].value = db[p].value
    BY <1>2, <2>1, WrittenType
  <2> QED
    BY <1>2, <2>1, <2>2, WrittenInOrder
<1> QED
  BY <1>1, <1>2

\* An operation ends before its set is complete.
LEMMA StopPlaced ==
  ASSUME Placed, IInv', pc # "idle", Put(at, Stopped(sets[at])), Return, edits' = edits,
         UNCHANGED db \/ (pc = "writer" /\ \E o \in AtWriter : Written(o))
  PROVE  Lineage' /\ OneWriter' /\ InPlace'
<1> PICK i \in Used : i = at
  BY AtWork DEF Placed
<1> DEFINE set == Stopped(sets[i])
<1>1. IInv /\ TypeInv /\ i \in Ids /\ sets[i] \in SetType /\ Chosen(sets[i])
  BY AtWork DEF Placed, IInv, Choices
<1>2. /\ set \in SetType /\ SameLineage(set, sets[i])
      /\ set.status \in {"PARTIALLY_APPLIED", "FAILED"}
      /\ \A o \in Objects :
           /\ set.objs[o].approved = sets[i].objs[o].approved /\ set.objs[o].deps = sets[i].objs[o].deps
           /\ set.objs[o].application # "PENDING" <=> sets[i].objs[o].application # "PENDING"
  BY <1>1, StoppedType
<1>3. Put(i, set) /\ pc' = "idle"
  BY DEF Return
<1> HIDE DEF set
<1>4. SameProposal(set, sets[i])
  BY <1>2 DEF SameProposal
<1>5. /\ sets[i].status \in {"APPLYING", "APPLIED", "REVERTED"}
      /\ sets[i].status \in {"APPLIED", "REVERTED"} => sets[i].reverses # None
  BY <1>1 DEF IInv, TypeInv, Publishing
<1>6. Chosen(set)
  <2>1. Members(set) = Members(sets[i])
    BY <1>4, SameProposalKeeps
  <2>2. Approved(set) = Approved(sets[i]) /\ Approved(set) \subseteq Objects
    BY <1>2, <2>1 DEF Approved, Members
  <2>3. set.reverses = sets[i].reverses
    BY <1>2 DEF SameLineage, SameLinks
  <2> QED
    BY <1>1, <1>2, <1>5, <2>1, <2>2, <2>3 DEF Chosen, Unapplied
<1>7. /\ InPlace'
      /\ \A p \in Objects : db'[p].value = db[p].value \/ sets[i].objs[p].application # "PENDING"
  BY MaybeWritten
<1>8. Lineage'
  BY <1>2, <1>3, <1>4, <1>5, <1>6, <1>7, RevisedPlaced
<1> QED
  BY <1>3, <1>7, <1>8, NoWriterAfter

\* Stops, refusals and crashes.
LEMMA InterruptedPlaced ==
  ASSUME Placed, IInv',
         StopWriting \/ (\E o \in Objects : WriterFails(o)) \/ PublicationFails \/ EndPublication \/ Crash
  PROVE  Lineage' /\ OneWriter' /\ InPlace'
<1>1. /\ pc # "idle" /\ Return /\ pc' = "idle" /\ edits' = edits
      /\ UNCHANGED db \/ (pc = "writer" /\ \E o \in AtWriter : Written(o))
  BY DEF StopWriting, WriterFails, PublicationFails, EndPublication, Crash, NotWritten, Return
<1>2. UNCHANGED sets \/ Put(at, Stopped(sets[at]))
  BY DEF StopWriting, WriterFails, PublicationFails, EndPublication, Crash
<1>3. CASE UNCHANGED sets
  <2>1. at \in Used
    BY <1>1, AtWork DEF Placed
  <2>2. /\ InPlace'
        /\ \A p \in Objects : db'[p].value = db[p].value \/ sets[at].objs[p].application # "PENDING"
    BY <1>1, MaybeWritten
  <2>3. Lineage'
    BY <1>1, <1>3, <2>1, <2>2, UnputPlaced
  <2> QED
    BY <1>1, <2>2, <2>3, NoWriterAfter
<1>4. CASE Put(at, Stopped(sets[at]))
  BY <1>1, <1>4, StopPlaced
<1> QED
  BY <1>2, <1>3, <1>4

\* Before the sources are marked, and others' saves.
LEMMA UntoldPlaced ==
  ASSUME Placed, IInv', BeginPublication \/ \E o \in Objects, v \in Contents : Edit(o, v)
  PROVE  Lineage' /\ OneWriter' /\ InPlace'
<1>1. CASE BeginPublication
  <2>1. UNCHANGED <<sets, db, edits>> /\ pc' = "mark"
    BY <1>1 DEF BeginPublication, Goto
  <2>2. Lineage'
    BY <2>1, UnputPlaced
  <2> QED
    BY <2>1, <2>2, OrderKept, NoWriterAfter
<1>2. CASE \E o \in Objects, v \in Contents : Edit(o, v)
  <2>1. UNCHANGED <<sets, pc, at>> /\ edits' = edits + 1
    BY <1>2 DEF Edit
  <2>2. edits' # 0
    BY <2>1 DEF Placed, IInv, TypeInv
  <2>3. Lineage'
    BY <2>1, <2>2, UnputPlaced
  <2>4. OneWriter' /\ InPlace'
    BY <2>1, <2>2 DEF Placed, OneWriter, InPlace
  <2> QED
    BY <2>3, <2>4
<1> QED
  BY <1>1, <1>2

\* An application that wrote everything approved.
LEMMA FinishPlaced ==
  ASSUME Placed, IInv', Finish
  PROVE  Lineage' /\ OneWriter' /\ InPlace'
<1> PICK i \in Used : i = at
  BY AtWork DEF Finish, Placed
<1> DEFINE set == [sets[i] EXCEPT !.status = "APPLIED"]
<1>1. /\ IInv /\ TypeInv /\ i \in Ids /\ Chosen(sets[i]) /\ sets[i].status = "APPLYING" /\ pc = "writing"
      /\ \A o \in Objects : sets[i].objs[o].application \in {"PENDING", "VERIFIED"}
  BY AtWork DEF Finish, Placed, IInv, TypeInv, Choices, OneWriter
<1>2. /\ Put(i, set) /\ UNCHANGED <<db, edits>> /\ Unwritten(sets[i]) = {} /\ pc' \in {"idle", "publish"}
  BY DEF Finish, Return, Goto
<1>3. \A o \in Approved(sets[i]) : sets[i].objs[o].application = "VERIFIED"
  BY <1>1, <1>2 DEF Unwritten, Approved, Members
<1>4. sets[i].reverses # None => Approved(sets[i]) = Members(sets[i])
  BY <1>1 DEF Chosen, Unapplied
<1>5. /\ set \in SetType /\ set.status = "APPLIED" /\ set.objs = sets[i].objs /\ set.reverses = sets[i].reverses
      /\ SameProposal(set, sets[i]) /\ Chosen(set)
  BY <1>1, <1>3, <1>4, RelabelledKeeps
<1> HIDE DEF set
<1>6. Lineage'
  BY <1>1, <1>2, <1>5, RevisedPlaced
<1> QED
  BY <1>2, <1>6, OrderKept, NoWriterAfter

\* A source becomes REVERTED, and what it verified stays on record.
LEMMA MarkPlaced ==
  ASSUME Placed, IInv', NEW s \in Ids, Mark(s)
  PROVE  Lineage' /\ OneWriter' /\ InPlace'
<1> DEFINE put == [sets[s] EXCEPT !.status = "REVERTED", !.revertedBy = at]
           set == [sets[s] EXCEPT !.status = "REVERTED"]
<1>1. /\ TypeInv /\ sets[s] \in SetType /\ Chosen(sets[s]) /\ at \in Ids /\ s \in Used
      /\ sets[s].status \in {"APPLIED", "PARTIALLY_APPLIED"}
  BY AtWork DEF Mark, Unmarked, Used, Placed, IInv, TypeInv, Choices
<1>2. Put(s, put) /\ UNCHANGED <<db, edits, pc>> /\ pc = "mark"
  BY DEF Mark
<1>3. sets[s].reverses # None => Approved(sets[s]) = Members(sets[s])
  BY <1>1 DEF Chosen, Unapplied
<1>4. /\ set \in SetType /\ set.status = "REVERTED" /\ set.objs = sets[s].objs /\ set.reverses = sets[s].reverses
      /\ SameProposal(set, sets[s]) /\ Chosen(set)
  BY <1>1, <1>3, RelabelledKeeps
<1>5. put = [set EXCEPT !.revertedBy = at]
  BY <1>1 DEF SetType
<1> HIDE DEF put, set
<1>6. /\ put \in SetType /\ put.status = "REVERTED" /\ put.objs = set.objs /\ put.reverses = set.reverses
      /\ put.follows = set.follows /\ put.pins = set.pins /\ put.bound = set.bound /\ put.sources = set.sources
  BY <1>1, <1>4, <1>5 DEF SetType
<1>7. SameProposal(put, sets[s])
  BY <1>4, <1>6 DEF SameProposal, SameLineage, SameLinks
<1>8. Chosen(put)
  <2>1. Approved(put) = Approved(set) /\ Members(put) = Members(set)
    BY <1>6 DEF Approved, Members
  <2> QED
    BY <1>4, <1>6, <2>1 DEF Chosen
<1>9. Lineage'
  BY <1>1, <1>2, <1>4, <1>6, <1>7, <1>8, RevisedPlaced
<1> QED
  BY <1>2, <1>9, OrderKept, NoWriterAfter

\* A reconciliation finds the proposed values of the chain verified.
LEMMA RecoverPlaced ==
  ASSUME Placed, IInv', NEW i \in Used, Recover(i)
  PROVE  Lineage' /\ OneWriter' /\ InPlace'
<1> DEFINE old == sets[i]
           objs == [o \in Objects |-> Reconciled(old.objs[o], o)]
           read == [old EXCEPT !.objs = objs]
           status == IF Complete(read) THEN "APPLIED" ELSE "PARTIALLY_APPLIED"
           set == [read EXCEPT !.status = status]
<1>1. /\ IInv /\ TypeInv /\ i \in Ids /\ old \in SetType /\ Chosen(old)
      /\ old.reverses = None => Forward(old)
  BY DEF Placed, IInv, TypeInv, Used, Choices, Directed
<1>2. /\ Put(i, set) /\ UNCHANGED <<db, edits>> /\ pc' \in {"idle", "publish"}
      /\ old.status \in {"APPLYING", "PARTIALLY_APPLIED"}
  BY DEF Recover, Enter
<1>3. ASSUME NEW o \in Objects
      PROVE  /\ objs[o] \in ObjectType
             /\ objs[o].in = old.objs[o].in /\ objs[o].before = old.objs[o].before
             /\ objs[o].after = old.objs[o].after /\ objs[o].approved = old.objs[o].approved
             /\ objs[o].deps = old.objs[o].deps
             /\ old.objs[o].application = "PENDING" => objs[o].application = "PENDING"
             /\ old.objs[o].application # "PENDING" /\ db[o].value = old.objs[o].after =>
                  objs[o].application = "VERIFIED"
  <2>1. old.objs[o] \in ObjectType /\ db[o].token \in Nat
    BY <1>1 DEF SetType, TypeInv
  <2>2. objs[o] = Reconciled(old.objs[o], o)
    OBVIOUS
  <2> HIDE DEF old, objs
  <2> QED
    BY <2>1, <2>2, ReconciledType
<1>4. objs \in [Objects -> ObjectType]
  BY <1>3
<1>5. old = sets[i]
  OBVIOUS
<1> HIDE DEF old, objs
<1>6. read \in SetType /\ read.objs = objs /\ read.reverses = old.reverses
      /\ read.follows = old.follows /\ read.pins = old.pins /\ read.bound = old.bound /\ read.sources = old.sources
  BY <1>1, <1>4 DEF SetType
<1> HIDE DEF read
<1>7. status \in Statuses /\ status \in {"APPLIED", "PARTIALLY_APPLIED"} /\ (status = "APPLIED" => Complete(read))
  BY DEF Statuses
<1> HIDE DEF status
<1>8. /\ set \in SetType /\ set.objs = objs /\ set.status = status /\ set.reverses = old.reverses
      /\ SameLineage(set, old)
  BY <1>3, <1>6, <1>7 DEF SetType, SameLineage, SameLinks
<1> HIDE DEF set
<1>9. SameProposal(set, old)
  BY <1>3, <1>8 DEF SameProposal
<1>10. Members(set) = Members(old) /\ Approved(set) = Approved(old) /\ Approved(set) = Approved(read)
  BY <1>3, <1>6, <1>8 DEF Members, Approved
<1>11. Chosen(set)
  <2>1. status = "APPLIED" => \A o \in Approved(set) : set.objs[o].application = "VERIFIED"
    BY <1>6, <1>7, <1>8, <1>10 DEF Complete, InState
  <2>2. Approved(set) \subseteq Objects
    BY DEF Approved, Members
  <2> QED
    BY <1>1, <1>2, <1>3, <1>8, <1>10, <2>1, <2>2 DEF Chosen, Unapplied
<1>12. ASSUME NEW o \in Objects, db[o].value = ProposedValue[o], old.reverses = None,
              old.objs[o].application # "PENDING"
       PROVE  set.objs[o].application # "PENDING"
  <2>1. o \in Members(old)
    BY <1>1, <1>5, <1>12 DEF IInv, Untouched
  <2>2. old.objs[o].after = ProposedValue[o]
    BY <1>1, <1>12, <2>1 DEF Forward, Leads
  <2> QED
    BY <1>3, <1>8, <1>12, <2>2
<1>13. \A o \in Objects : set.objs[o].application # "PENDING" => old.objs[o].application # "PENDING"
  BY <1>3, <1>8
<1>14. Lineage'
  <2>1. sets[i].status \in {"APPLYING", "PARTIALLY_APPLIED"} /\ set.status \in {"APPLIED", "PARTIALLY_APPLIED"}
    BY <1>2, <1>5, <1>7, <1>8
  <2> QED
    BY <1>2, <1>5, <1>8, <1>9, <1>11, <1>12, <1>13, <2>1, RevisedPlaced
<1> QED
  BY <1>2, <1>14, OrderKept, NoWriterAfter

\* A follow-up leads the untouched objects the way its set did, and pins the
\* others.
LEMMA PreparePlaced ==
  ASSUME Placed, IInv', NEW i \in Used, PrepareRemaining(i)
  PROVE  Lineage' /\ OneWriter' /\ InPlace'
<1> DEFINE set == sets[i]
           new == Continuation(i)
           remaining == Unwritten(set)
           verified == InState(set, {"VERIFIED"})
<1>1. /\ IInv /\ TypeInv /\ i \in Ids /\ set \in SetType /\ Chosen(set)
      /\ Forward(set) \/ Backward(set)
      /\ set.reverses = None => Forward(set)
  BY DEF Placed, IInv, TypeInv, Used, Choices, Directed
<1>2. /\ Cardinality(Used) < MaxSets /\ set.status = "PARTIALLY_APPLIED" /\ Continuing(i) = {}
      /\ set.reverses # None => Approved(set) = Members(set)
      /\ InState(set, {"APPLYING", "UNCERTAIN"}) = {}
      /\ \A o \in remaining : set.objs[o].deps \subseteq remaining \cup verified
      /\ Put(FreshId, new) /\ UNCHANGED <<db, edits, pc>> /\ pc = "idle"
  BY DEF PrepareRemaining, FollowUps, Continuing, Idle
<1>3. /\ new \in SetType /\ new.status = "DRAFT" /\ new.follows = i
      /\ new.reverses = set.reverses /\ new.pins = set.pins \cup Pins(i)
      /\ \A o \in Objects : new.objs[o].application = "PENDING" /\ new.objs[o].approved = FALSE
      /\ Members(new) = remaining
      /\ \A o \in remaining : /\ new.objs[o].before = set.objs[o].before /\ new.objs[o].after = set.objs[o].after
                              /\ new.objs[o].deps = set.objs[o].deps \cap remaining
  <2>1. /\ new \in SetType /\ new.status = "DRAFT" /\ new.follows = i /\ new.reverses = sets[i].reverses
        /\ \A o \in Objects : new.objs[o].application = "PENDING"
        /\ Carried(i, new)
    BY <1>1, ContinuationType
  <2> HIDE DEF new
  <2> QED
    BY <2>1 DEF Carried
<1>4. set = sets[i]
  OBVIOUS
<1> HIDE DEF new, set
<1>5. remaining \subseteq Members(set) /\ Members(set) \subseteq Objects /\ verified \subseteq Members(set)
  BY DEF Unwritten, Approved, Members, InState
<1>6. \A o \in Objects : set.objs[o].application # "PENDING" => o \in verified
  <2>1. \A o \in Objects : set.objs[o].application # "PENDING" => o \in Members(set)
    BY <1>1, <1>4 DEF IInv, Untouched
  <2>2. \A o \in Objects : set.objs[o].application \in {"PENDING", "APPLYING", "VERIFIED", "UNCERTAIN"}
    BY <1>1 DEF SetType, ObjectType
  <2> QED
    BY <1>2, <2>1, <2>2 DEF InState
<1>7. /\ \A p \in Pins(i) : p.set = i /\ p.obj \in verified /\ p.value = set.objs[p.obj].after
      /\ \A o \in verified : \E p \in Pins(i) : p.obj = o
  BY <1>1, <1>4, PinsType
<1>8. Pinned(new) = Pinned(set) \cup verified
  BY <1>3, <1>7 DEF Pinned
<1>9. ASSUME NEW from, NEW to, Leads(set, from, to)
      PROVE  Leads(new, from, to)
  BY <1>3, <1>5, <1>7, <1>9 DEF Leads
<1>10. Forward(set) => Forward(new)
  <2> SUFFICES ASSUME Forward(set), NEW o \in remaining, NEW d \in Depends[o]
               PROVE  d \in remaining \cup Pinned(new) /\ (d \in remaining => d \in new.objs[o].deps)
    BY <1>3, <1>9 DEF Forward, Scope
  <2>1. d \in Members(set) \cup Pinned(set) /\ (d \in Members(set) => d \in set.objs[o].deps)
    BY <1>5 DEF Forward, Scope
  <2>2. d \in Members(set) => d \in remaining \cup verified
    BY <1>2, <2>1
  <2> QED
    BY <1>3, <1>5, <1>8, <2>1, <2>2
<1>11. Backward(set) => Backward(new)
  BY <1>3, <1>5, <1>9 DEF Backward
<1>12. \A p \in new.pins : p.set \in Used /\ sets[p.set].pins \subseteq new.pins
  <2>1. \A p \in set.pins : p.set \in Used /\ sets[p.set].pins \subseteq set.pins
    BY <1>4 DEF Placed, PinChain
  <2> QED
    BY <1>3, <1>4, <1>7, <2>1
<1>13. set.reverses = None =>
         /\ Original(i) /\ Pinned(set) \subseteq Pinned(new)
         /\ \A o \in Objects : set.objs[o].application # "PENDING" => o \in Pinned(new)
  BY <1>2, <1>4, <1>6, <1>8 DEF Original
<1>14. set.reverses # None =>
         /\ \E e \in Used : Ending(e) /\ Scope(new) = Achieving(e)
         /\ \A o \in Scope(new) : Depends[o] \subseteq Scope(new)
  <2> SUFFICES ASSUME set.reverses # None
               PROVE  Scope(new) = Scope(set)
    BY <1>4 DEF Placed, Scoped
  <2>1. Members(set) \subseteq remaining \cup verified
    BY <1>2, <1>5, <1>6 DEF Unwritten
  <2> QED
    BY <1>3, <1>5, <1>8, <2>1 DEF Scope
<1>15. Lineage'
  <2>1. Forward(new) \/ Backward(new)
    BY <1>1, <1>10, <1>11
  <2>2. new.reverses = None => Forward(new)
    BY <1>1, <1>3, <1>10
  <2> HIDE DEF remaining, verified
  <2> QED
    BY <1>2, <1>3, <1>4, <1>12, <1>13, <1>14, <2>1, <2>2, AddedPlaced
<1> QED
  BY <1>2, <1>15, OrderKept, NoWriterAfter

\* What a chain achieved is verified where it was written, leads the same way,
\* and is live when it is reversed.
LEMMA AchievedSteps ==
  ASSUME Placed, NEW i \in Used, Reverse(i), NEW p \in Achieved(i)
  PROVE  /\ p.set \in Used /\ p.obj \in Approved(sets[p.set])
         /\ sets[p.set].pins \subseteq sets[i].pins
         /\ db[p.obj].value = p.value
         /\ Forward(sets[i]) => Forward(sets[p.set]) /\ p.value = ProposedValue[p.obj]
         /\ Backward(sets[i]) => Backward(sets[p.set]) /\ p.value = InitialValue[p.obj]
<1>1. /\ IInv /\ TypeInv /\ i \in Ids /\ Used \subseteq Ids
      /\ sets[i].follows # None => ContinuationIntact(sets[i])
      /\ PinHolds(p)
  BY DEF Placed, IInv, Used, Reverse, Intact
<1>2. p.set \in Used /\ sets[p.set].pins \subseteq sets[i].pins /\ p \in Pins(p.set)
  <2>1. CASE p \in Pins(i)
    BY <1>1, <2>1, PinsType
  <2>2. CASE p \in sets[i].pins
    <3>1. sets[i].follows # None
      BY <1>1, <2>2 DEF IInv, Linked
    <3> QED
      BY <1>1, <2>2, <3>1 DEF ContinuationIntact, Placed, PinChain
  <2> QED
    BY <2>1, <2>2 DEF Achieved
<1>3. p.obj \in InState(sets[p.set], {"VERIFIED"}) /\ p.value = sets[p.set].objs[p.obj].after
  BY <1>1, <1>2, PinsType
<1>4. p.obj \in Approved(sets[p.set]) /\ p.obj \in Members(sets[p.set]) /\ p.obj \in Objects
  BY <1>1, <1>2, <1>3 DEF Placed, Choices, Chosen, InState, Members
<1>5. db[p.obj].value = p.value
  BY <1>1 DEF PinHolds, Live
<1>6. ASSUME NEW from, NEW to, Leads(sets[i], from, to)
      PROVE  p.value = to[p.obj]
  <2>1. CASE p \in Pins(i)
    <3>1. p.obj \in Members(sets[i]) /\ p.value = sets[i].objs[p.obj].after
      BY <1>1, <2>1, PinsType DEF InState
    <3> QED
      BY <1>6, <3>1 DEF Leads
  <2>2. CASE p \in sets[i].pins
    BY <1>6, <2>2 DEF Leads
  <2> QED
    BY <2>1, <2>2 DEF Achieved
<1>7. InitialValue[p.obj] # ProposedValue[p.obj]
  BY <1>4, ValuesAssumption
<1>8. Forward(sets[p.set]) \/ Backward(sets[p.set])
  BY <1>2 DEF Placed, Directed
<1>9. /\ Forward(sets[i]) => p.value = ProposedValue[p.obj]
      /\ Backward(sets[i]) => p.value = InitialValue[p.obj]
  BY <1>6 DEF Forward, Backward
<1>10. /\ Forward(sets[p.set]) => p.value = ProposedValue[p.obj]
       /\ Backward(sets[p.set]) => p.value = InitialValue[p.obj]
  BY <1>3, <1>4 DEF Forward, Backward, Leads
<1> QED
  BY <1>2, <1>4, <1>5, <1>7, <1>8, <1>9, <1>10

\* The inverse of a set that leads forward leads backward.
LEMMA InverseBackward ==
  ASSUME Placed, NEW i \in Used, Reverse(i), Forward(sets[i])
  PROVE  Backward(InverseSet(i))
<1> DEFINE new == InverseSet(i)
<1>1. new.pins = {} /\ Turned(i, new)
  BY InverseType DEF Placed
<1> HIDE DEF new
<1>2. \A o \in Members(new) : \E p \in Achieved(i) : p.obj = o
  BY <1>1 DEF Turned, AchievedObjects
<1>3. Leads(new, ProposedValue, InitialValue)
  <2> SUFFICES ASSUME NEW o \in Members(new)
               PROVE  new.objs[o].before = ProposedValue[o] /\ new.objs[o].after = InitialValue[o]
    BY <1>1 DEF Leads
  <2>0. o \in AchievedObjects(i)
    BY <1>1 DEF Turned
  <2>1. PICK p \in Achieved(i) : p.obj = o /\ new.objs[o].after = sets[p.set].objs[o].before
    BY <1>1, <2>0 DEF Turned
  <2>2. db[o].value = ProposedValue[o] /\ Forward(sets[p.set]) /\ o \in Members(sets[p.set])
    BY <2>1, AchievedSteps DEF Approved
  <2>3. new.objs[o].before = db[o].value
    BY <1>1, <2>0 DEF Turned
  <2> QED
    BY <2>1, <2>2, <2>3 DEF Forward, Leads
<1>4. ASSUME NEW o \in Members(new), NEW d \in Members(new), d \in Depends[o]
      PROVE  o \in new.objs[d].deps
  <2>1. PICK q \in Achieved(i) : q.obj = o
    BY <1>2
  <2>2. Forward(sets[q.set]) /\ o \in Members(sets[q.set])
    BY <2>1, AchievedSteps DEF Approved
  <2>3. d \in sets[q.set].objs[o].deps \/ d \in Pinned(sets[q.set])
    BY <1>4, <2>2 DEF Forward, Scope
  <2>4. d \in ForwardDependencies(q)
    BY <2>1, <2>3 DEF ForwardDependencies, Pinned
  <2> QED
    BY <1>1, <2>1, <2>4 DEF Turned
<1> QED
  BY <1>3, <1>4 DEF Backward, new

\* What a reversal brings about is what the chain achieved, with everything
\* that depends on it.
LEMMA InverseScope ==
  ASSUME Placed, NEW i \in Used, Reverse(i)
  PROVE  /\ \E e \in Used : Ending(e) /\ AchievedObjects(i) = Achieving(e)
         /\ \A o \in AchievedObjects(i) : Depends[o] \subseteq AchievedObjects(i)
         /\ sets[i].reverses # None => AchievedObjects(i) = Scope(sets[i])
<1>1. /\ IInv /\ TypeInv /\ i \in Ids /\ Chosen(sets[i]) /\ sets[i].status = "APPLIED"
      /\ \A p \in Achieved(i) : Approved(sets[p.set]) \subseteq AchievedObjects(i)
  BY DEF Placed, IInv, Used, Choices, Reverse
<1>2. AchievedObjects(i) = Achieving(i)
  <2>1. InState(sets[i], {"VERIFIED"}) = {p.obj : p \in Pins(i)}
    BY <1>1, PinsType
  <2> QED
    BY <2>1 DEF AchievedObjects, Achieved, Achieving, Pinned
<1>3. Approved(sets[i]) \subseteq InState(sets[i], {"VERIFIED"})
  BY <1>1 DEF Chosen, Approved, InState
<1>4. CASE sets[i].reverses = None
  <2>1. Ending(i)
    BY <1>1, <1>4 DEF Ending, Original, Chosen
  <2>2. Forward(sets[i])
    BY <1>4 DEF Placed, Directed
  <2>3. ASSUME NEW o \in AchievedObjects(i), NEW d \in Depends[o]
        PROVE  d \in AchievedObjects(i)
    <3>1. PICK p \in Achieved(i) : p.obj = o
      BY DEF AchievedObjects
    <3>2. /\ p.set \in Used /\ o \in Approved(sets[p.set]) /\ sets[p.set].pins \subseteq sets[i].pins
          /\ Forward(sets[p.set])
      BY <2>2, <3>1, AchievedSteps
    <3>3. CASE d \in sets[p.set].objs[o].deps
      <4>1. Chosen(sets[p.set])
        BY <3>2 DEF Placed, Choices, Used
      <4> QED
        BY <1>1, <3>2, <3>3, <4>1 DEF Chosen
    <3>4. CASE d \in Pinned(sets[p.set])
      BY <3>2, <3>4 DEF Pinned, AchievedObjects, Achieved
    <3> QED
      BY <3>2, <3>3, <3>4 DEF Forward, Scope, Approved
  <2> QED
    BY <1>2, <1>4, <2>1, <2>3
<1>5. CASE sets[i].reverses # None
  <2>1. Approved(sets[i]) = Members(sets[i])
    BY <1>1, <1>5 DEF Chosen, Unapplied
  <2>2. InState(sets[i], {"VERIFIED"}) = Members(sets[i])
    BY <1>3, <2>1 DEF InState
  <2>3. AchievedObjects(i) = Scope(sets[i])
    BY <1>2, <2>2 DEF Achieving, Scope
  <2> QED
    BY <1>5, <2>3 DEF Placed, Scoped
<1> QED
  BY <1>4, <1>5

\* The inverse of a set that leads backward, a redo, leads forward.
LEMMA InverseForward ==
  ASSUME Placed, NEW i \in Used, Reverse(i), Backward(sets[i]), sets[i].reverses # None
  PROVE  Forward(InverseSet(i))
<1> DEFINE new == InverseSet(i)
<1>1. new.pins = {} /\ Turned(i, new)
  BY InverseType DEF Placed
<1> HIDE DEF new
<1>2. Members(new) = AchievedObjects(i) /\ \A o \in AchievedObjects(i) : \E p \in Achieved(i) : p.obj = o
  BY <1>1 DEF Turned, AchievedObjects
<1>3. Leads(new, InitialValue, ProposedValue)
  <2> SUFFICES ASSUME NEW o \in Members(new)
               PROVE  new.objs[o].before = InitialValue[o] /\ new.objs[o].after = ProposedValue[o]
    BY <1>1 DEF Leads
  <2>1. PICK p \in Achieved(i) : p.obj = o /\ new.objs[o].after = sets[p.set].objs[o].before
    BY <1>1, <1>2 DEF Turned
  <2>2. db[o].value = InitialValue[o] /\ Backward(sets[p.set]) /\ o \in Members(sets[p.set])
    BY <2>1, AchievedSteps DEF Approved
  <2>3. new.objs[o].before = db[o].value
    BY <1>1, <1>2 DEF Turned
  <2> QED
    BY <2>1, <2>2, <2>3 DEF Backward, Leads
<1>4. ASSUME NEW o \in Members(new), NEW d \in Depends[o]
      PROVE  d \in Members(new) /\ d \in new.objs[o].deps
  <2>1. d \in AchievedObjects(i)
    BY <1>2, InverseScope
  <2>2. PICK q \in Achieved(i) : q.obj = d
    BY <1>2, <2>1
  <2>3. q.set \in Used /\ Backward(sets[q.set]) /\ d \in Members(sets[q.set]) /\ d \in Objects
    BY <2>2, AchievedSteps DEF Approved, Members
  <2>4. sets[q.set].reverses # None
    <3>1. InitialValue[d] # ProposedValue[d]
      BY <2>3, ValuesAssumption
    <3>2. ~Forward(sets[q.set])
      BY <2>3, <3>1 DEF Forward, Backward, Leads
    <3> QED
      BY <2>3, <3>2 DEF Placed, Directed
  <2>5. o \in Scope(sets[q.set])
    <3>1. o \in Scope(sets[i])
      BY <1>2, InverseScope
    <3> QED
      BY <2>3, <2>4, <3>1, SameScope
  <2>6. o \in sets[q.set].objs[d].deps \/ o \in Pinned(sets[q.set])
    BY <1>4, <2>3, <2>5 DEF Backward, Scope
  <2>7. o \in ForwardDependencies(q)
    BY <2>2, <2>6 DEF ForwardDependencies, Pinned
  <2> QED
    BY <1>1, <1>2, <2>1, <2>2, <2>7 DEF Turned
<1> QED
  BY <1>3, <1>4 DEF Forward, Scope, new

\* A reversal is about what its chain achieved.
LEMMA ReversePlaced ==
  ASSUME Placed, IInv', NEW i \in Used, Reverse(i)
  PROVE  Lineage' /\ OneWriter' /\ InPlace'
<1> DEFINE new == InverseSet(i)
<1>1. /\ IInv /\ Cardinality(Used) < MaxSets /\ Put(FreshId, new) /\ UNCHANGED <<db, edits, pc>> /\ pc = "idle"
      /\ i # None
  BY DEF Placed, Reverse, Idle, Used, Ids, None
<1>2. /\ new \in SetType /\ new.status = "DRAFT" /\ new.follows = None /\ new.pins = {} /\ new.reverses = i
      /\ \A o \in Objects : new.objs[o].application = "PENDING"
      /\ Turned(i, new)
  BY <1>1, InverseType
<1>3. Forward(new) \/ Backward(new)
  BY InverseForward, InverseBackward DEF Placed, Directed
<1>4. /\ \E e \in Used : Ending(e) /\ AchievedObjects(i) = Achieving(e)
      /\ \A o \in AchievedObjects(i) : Depends[o] \subseteq AchievedObjects(i)
  BY InverseScope
<1> HIDE DEF new
<1>5. Scope(new) = AchievedObjects(i)
  BY <1>2 DEF Scope, Pinned, Turned
<1>6. Lineage'
  <2>1. \A o \in Objects : new.objs[o].application = "PENDING" /\ new.objs[o].approved = FALSE
    BY <1>2 DEF Turned
  <2>2. /\ \E e \in Used : Ending(e) /\ Scope(new) = Achieving(e)
        /\ \A o \in Scope(new) : Depends[o] \subseteq Scope(new)
    BY <1>4, <1>5
  <2>3. new.reverses # None /\ new.follows = None /\ \A p \in new.pins : FALSE
    BY <1>1, <1>2
  <2> QED
    BY <1>1, <1>2, <1>3, <2>1, <2>2, <2>3, AddedPlaced
<1> QED
  BY <1>1, <1>6, OrderKept, NoWriterAfter

\* The first set leads from the initial values to the proposal, and nothing of
\* the proposal is there.
LEMMA InitPlaced ==
  ASSUME Init
  PROVE  Placed
<1> DEFINE object(o) == [NoObject EXCEPT !.in = TRUE, !.before = InitialValue[o], !.base = db[o].token,
                           !.after = ProposedValue[o], !.deps = Depends[o]]
           objs == [o \in Objects |-> object(o)]
           first == [NoSet EXCEPT !.status = "DRAFT", !.objs = objs]
<1>1. IInv /\ TypeInv
  BY InitSafe DEF IInv
<1>2. sets = [i \in Ids |-> IF i # 1 THEN NoSet ELSE first]
  BY DEF Init
<1>3. ASSUME NEW o \in Objects
      PROVE  /\ object(o).in = TRUE /\ object(o).approved = FALSE /\ object(o).application = "PENDING"
             /\ object(o).before = InitialValue[o] /\ object(o).after = ProposedValue[o] /\ object(o).deps = Depends[o]
  BY DEF NoObject
<1>4. \A o \in Objects : /\ objs[o].in = TRUE /\ objs[o].approved = FALSE /\ objs[o].application = "PENDING"
                         /\ objs[o].before = InitialValue[o] /\ objs[o].after = ProposedValue[o]
                         /\ objs[o].deps = Depends[o]
  BY <1>3
<1> HIDE DEF objs
<1>5. /\ first.status = "DRAFT" /\ first.objs = objs /\ first.follows = None
      /\ first.reverses = None /\ first.pins = {}
  BY DEF NoSet
<1>6. NoSet.status = "NONE" /\ \A o \in Objects : NoSet.objs[o].application = "PENDING" /\ NoSet.objs[o].approved = FALSE
  BY DEF NoSet, NoObject
<1> HIDE DEF first
<1>7. 1 \in Ids /\ \A i \in Ids : sets[i] = IF i # 1 THEN NoSet ELSE first
  BY <1>2, BoundAssumption DEF Ids
<1>8. Used = {1}
  BY <1>5, <1>6, <1>7 DEF Used
<1>9. Forward(first)
  <2>1. Members(first) = Objects
    BY <1>4, <1>5 DEF Members
  <2> QED
    BY <1>4, <1>5, <2>1, DependsAssumption DEF Forward, Leads, Scope
<1>10. Directed /\ PinChain /\ Scoped
  BY <1>5, <1>7, <1>8, <1>9 DEF Directed, PinChain, Scoped
<1>11. Choices
  <2>1. \A i \in Ids : /\ Approved(sets[i]) = {} /\ sets[i].status \in Unapplied
                       /\ \A o \in Objects : sets[i].objs[o].application = "PENDING"
    BY <1>4, <1>5, <1>6, <1>7 DEF Approved, Members, Unapplied
  <2> QED
    BY <2>1 DEF Choices, Chosen, Unapplied
<1>12. Chain
  BY <1>8 DEF Chain, Original, Ids
<1>13. \A o \in Objects : db[o].value # ProposedValue[o]
  <2>1. \A o \in Objects : db[o].value = InitialValue[o]
    BY DEF Init
  <2> QED
    BY <2>1, ValuesAssumption
<1>14. Explained /\ InPlace
  BY <1>13 DEF Explained, InPlace
<1>15. OneWriter
  BY DEF Init, OneWriter
<1> QED
  BY <1>1, <1>10, <1>11, <1>12, <1>14, <1>15 DEF Placed

\* A revised plan withdraws approvals.
LEMMA ReplanPlaced ==
  ASSUME Placed, IInv', NEW i \in Used, Replan(i)
  PROVE  Lineage' /\ OneWriter' /\ InPlace'
<1> DEFINE set == Revised(sets[i])
<1>0. IInv /\ TypeInv /\ i \in Ids /\ sets[i] \in SetType
  BY DEF Placed, IInv, TypeInv, Used
<1>1. /\ Put(i, set) /\ sets[i].status \in {"DRAFT", "APPROVED", "CONFLICTED", "FAILED"}
      /\ UNCHANGED <<db, edits, pc>> /\ pc = "idle"
  BY DEF Replan, Revisable, Idle
<1>2. \A o \in Objects : sets[i].objs[o].application = "PENDING"
  BY <1>0, <1>1 DEF IInv, Untouched, Unapplied
<1>3. /\ set \in SetType /\ SameLineage(set, sets[i]) /\ set.status = "DRAFT"
      /\ \A o \in Objects : /\ set.objs[o].application = "PENDING" /\ set.objs[o].deps = sets[i].objs[o].deps
                            /\ set.objs[o].approved = FALSE
  BY <1>0, <1>2, RevisedType
<1> HIDE DEF set
<1>4. SameProposal(set, sets[i]) /\ set.reverses = sets[i].reverses
  BY <1>3 DEF SameProposal, SameLineage, SameLinks
<1>5. Approved(set) = {}
  BY <1>3 DEF Approved, Members
<1>6. Chosen(set)
  BY <1>3, <1>5 DEF Chosen, Unapplied
<1>7. Lineage'
  BY <1>1, <1>2, <1>3, <1>4, <1>6, RevisedPlaced
<1> QED
  BY <1>1, <1>7, OrderKept, NoWriterAfter

\* Every step keeps the order, unless an agent stages something.
LEMMA StepPlaced ==
  ASSUME Placed, [Next]_vars, restaged' = {}
  PROVE  Placed'
<1>0. IInv'
  BY StepSafe DEF Placed
<1> DEFINE Kept == Lineage' /\ OneWriter' /\ InPlace'
<1>1. ASSUME NEW i \in Used, Plan(i) PROVE Kept
  <2>1. ~\E o \in Objects, value \in Contents, deps \in SUBSET Objects : Restage(i, o, value, deps)
    BY DEF Restage
  <2> QED
    BY <1>0, <1>1, <2>1, ApprovePlaced, RefusedPlaced, ReplanPlaced, PreparePlaced, ReversePlaced DEF Plan
<1>2. ASSUME NEW i \in Used, Apply(i) PROVE Kept
  BY <1>0, <1>2, ApplyBeginPlaced, RefusedPlaced DEF Apply
<1>3. ASSUME NEW i \in Used, Recover(i) PROVE Kept
  BY <1>0, <1>3, RecoverPlaced
<1>4. ASSUME NEW o \in Objects, Write(o) PROVE Kept
  BY <1>0, <1>4, StartWriterPlaced, WriterAnswersPlaced, InterruptedPlaced DEF Write
<1>5. ASSUME NEW o \in Objects, NEW v \in Contents, Edit(o, v) PROVE Kept
  BY <1>0, <1>5, UntoldPlaced
<1>6. ASSUME Finish PROVE Kept
  BY <1>0, <1>6, FinishPlaced
<1>7. ASSUME StopWriting \/ EndPublication \/ PublicationFails \/ Crash PROVE Kept
  BY <1>0, <1>7, InterruptedPlaced
<1>8. ASSUME BeginPublication PROVE Kept
  BY <1>0, <1>8, UntoldPlaced
<1>9. ASSUME NEW s \in Ids, Mark(s) PROVE Kept
  BY <1>0, <1>9, MarkPlaced
<1>10. ASSUME UNCHANGED vars PROVE Kept
  <2>1. UNCHANGED <<sets, db, pc, at, edits>>
    BY <1>10 DEF vars
  <2>2. Lineage'
    BY <2>1, UnputPlaced
  <2>3. OneWriter'
    BY <2>1 DEF Placed, OneWriter, Allowed
  <2> QED
    BY <2>1, <2>2, <2>3, OrderKept
<1>11. Kept
  <2> HIDE DEF Kept
  <2> QED
    BY <1>1, <1>2, <1>3, <1>4, <1>5, <1>6, <1>7, <1>8, <1>9, <1>10 DEF Next, Publish
<1> QED
  BY <1>0, <1>11 DEF Placed, Lineage

\* What was staged again is not forgotten.
LEMMA Remembered ==
  ASSUME [Next]_vars
  PROVE  restaged \subseteq restaged'
<1>1. ASSUME NEW i \in Used, Plan(i) PROVE restaged \subseteq restaged'
  BY <1>1 DEF Plan, Approve, Restage, Replan, Cancel, PrepareRemaining, Reverse
<1>2. ASSUME NEW i \in Used, Apply(i) \/ Recover(i) PROVE restaged \subseteq restaged'
  BY <1>2 DEF Apply, ApplyBegin, ApplyRefused, Recover
<1>3. ASSUME NEW o \in Objects, Write(o) \/ \E v \in Contents : Edit(o, v) PROVE restaged \subseteq restaged'
  BY <1>3 DEF Write, StartWriter, WriterAnswers, WriterFails, Edit
<1>4. CASE StopWriting \/ Finish \/ Publish \/ Crash
  BY <1>4 DEF StopWriting, Finish, Publish, BeginPublication, Mark, EndPublication, PublicationFails, Crash
<1> QED
  BY <1>1, <1>2, <1>3, <1>4 DEF Next, vars

\* Unless others interfere or an agent stages something else, a dependent is
\* never in the database without what it depends on: a writer is called with
\* the dependencies of its set live and the pins of its lineage live, and an
\* inverse owns or pins everything the chain it undoes had brought about.
THEOREM PrerequisitesInPlaceHolds == Spec => []PrerequisitesInPlace
<1> DEFINE Ordered == restaged = {} => Placed
<1>1. Init => Ordered
  BY InitPlaced
<1>2. Ordered /\ [Next]_vars => Ordered'
  BY StepPlaced, Remembered
<1>3. Ordered => PrerequisitesInPlace
  BY DEF Placed, InPlace, PrerequisitesInPlace
<1> QED
  BY <1>1, <1>2, <1>3, PTL DEF Spec
===============================================================================
