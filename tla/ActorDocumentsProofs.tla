------------------------ MODULE ActorDocumentsProofs ------------------------
(***************************************************************************)
(* Theorems about ActorDocuments, for any actors, literals and bounds.     *)
(***************************************************************************)
EXTENDS ActorDocuments, TLAPS

LEMMA NamesAreNames ==
  /\ Names \subseteq STRING
  /\ Nobody \notin Names
  /\ Local \in Names
  /\ \A h \in Handles : NameOf[h] \in Names
BY ActorsAssumption DEF ActorsAssumption, Names

LEMMA BlankTyped ==
  /\ Blank \in Dict
  /\ Blank.id = 0 /\ Blank.as = 0 /\ Blank.root = 0 /\ Blank.actor = Nobody
BY DEF Blank, Dict, Types, Recipients

-----------------------------------------------------------------------------
(***************************************************************************)
(* What the shared steps do to one dictionary.                             *)
(***************************************************************************)

\* Two dictionaries agree on everything but their types and contents.
Alike(d, e) == d.id = e.id /\ d.root = e.root /\ d.as = e.as /\ d.actor = e.actor

LEMMA WithTypeFacts ==
  ASSUME NEW d \in Dict, NEW t \in Types
  PROVE  WithType(d, t) \in Dict /\ Alike(WithType(d, t), d)
BY DEF WithType, Dict, Alike

LEMMA WithIdFacts ==
  ASSUME NEW d \in Dict, NEW i \in Ids
  PROVE  LET e == WithId(d, i)
         IN  /\ e \in Dict
             /\ e.root = d.root /\ e.as = d.as /\ e.actor = d.actor
             /\ e.id = IF d.id = 0 THEN i ELSE d.id
BY DEF WithId, Dict

LEMMA CompletedFacts ==
  ASSUME NEW d \in Dict, NEW n \in Names
  PROVE  LET e == Completed(d, n)
         IN  /\ e \in Dict
             /\ e.root = d.root /\ e.as = d.as /\ e.id = d.id
             /\ e.actor = IF d.actor = Nobody THEN n ELSE d.actor
<1>1. WithType(d, "Create") \in Dict /\ Alike(WithType(d, "Create"), d)
  BY WithTypeFacts DEF Types
<1>2. ASSUME NEW b \in Dict
      PROVE  LET e == WithActor(b, n)
             IN  /\ e \in Dict
                 /\ e.root = b.root /\ e.as = b.as /\ e.id = b.id
                 /\ e.actor = IF b.actor = Nobody THEN n ELSE b.actor
  BY DEF WithActor, Dict
<1>3. QED BY <1>1, <1>2 DEF Completed, Alike

LEMMA PublishedFacts ==
  ASSUME NEW d \in Dict
  PROVE  LET e == Published(d)
         IN  /\ e \in Dict
             /\ e.root = d.root /\ e.id = d.id /\ e.actor = d.actor
             /\ e.as = IF d.id \in Ids THEN d.id ELSE d.as
BY DEF Published, Dict

LEMMA CopyFacts ==
  ASSUME TypeOK, NEW p \in 0 .. top, Room(1)
  PROVE  LET c == CopyOf(p)
         IN  /\ c \in Dict
             /\ c.as = 0
             /\ p = 0 => c.root = top + 1 /\ c.id = 0 /\ c.actor = Nobody
             /\ p # 0 => c.root = heap[p].root /\ c.id = heap[p].id
                         /\ c.actor = heap[p].actor
<1> USE ActorsAssumption DEF ActorsAssumption
<1>1. CASE p = 0
  <2>1. CopyOf(p) = [Blank EXCEPT !.root = top + 1]
    BY <1>1 DEF CopyOf
  <2>2. top + 1 \in Refs
    BY DEF TypeOK, Room, Refs
  <2>3. QED BY <1>1, <2>1, <2>2, BlankTyped DEF Dict
<1>2. CASE p # 0
  <2>1. CopyOf(p) = [heap[p] EXCEPT !.as = 0]
    BY <1>2 DEF CopyOf
  <2>2. heap[p] \in Dict
    BY <1>2 DEF TypeOK, Refs
  <2>3. QED BY <1>2, <2>1, <2>2 DEF Dict
<1>3. QED BY <1>1, <1>2

-----------------------------------------------------------------------------
(***************************************************************************)
(* What every step that makes or changes dictionaries does.                *)
(***************************************************************************)
StepTyped ==
  /\ top' \in top .. MaxDicts
  /\ minted' \in minted .. top'
  /\ heap' \in [Refs -> Dict]
  /\ documents' \in [Ids -> Refs \cup {0}]
  /\ users' \in [Refs -> SUBSET (Names \cup {Several})]

\* Dictionaries keep their roots, and new ones have a root.
StepRoots ==
  /\ \A r \in 1 .. top : heap'[r].root = heap[r].root
  /\ \A r \in 1 .. top' : heap'[r].root \in 1 .. top'

\* An old id is inherited with the root; a new one has one root.
StepIds ==
  /\ \A r \in 1 .. top' : heap'[r].id \in (0 .. minted') \cup {ForeignId}
  /\ \A r \in 1 .. top' :
       heap'[r].id \in 1 .. minted =>
         \E q \in 1 .. top : heap[q].id = heap'[r].id /\ heap[q].root = heap'[r].root
  /\ \A r, s \in 1 .. top' :
       (heap'[r].id \in Ids /\ heap'[r].id > minted /\ heap'[s].id = heap'[r].id) =>
         heap'[r].root = heap'[s].root

\* An actor is the old one or one of the family's users, who only grow.
StepActors ==
  /\ \A q \in 1 .. top : users[q] \subseteq users'[q]
  /\ \A r \in 1 .. top :
       heap'[r].actor = heap[r].actor \/ heap'[r].actor \in users'[heap'[r].root]
  /\ \A r \in top + 1 .. top' :
       heap'[r].actor # Nobody => heap'[r].actor \in users'[heap'[r].root]

\* Only new dictionaries are published, each under its id.
StepDocuments ==
  /\ \A r \in 1 .. top : heap'[r].as = heap[r].as
  /\ \A i \in Ids :
       \/ documents'[i] = documents[i]
       \/ documents'[i] \in top + 1 .. top' /\ heap'[documents'[i]].as = i
  /\ \A r \in top + 1 .. top' :
       heap'[r].as # 0 => documents'[heap'[r].as] = r /\ heap'[r].as = heap'[r].id

DictStep == StepTyped /\ StepRoots /\ StepIds /\ StepActors /\ StepDocuments

DictInv ==
  /\ IdsAreMade /\ RootsAreThere /\ DocumentsAreThere
  /\ OneFamilyPerId /\ SetupIsServed /\ ActivityNamesItsActor
  /\ PublishedInFamily

LEMMA DictStepKeeps ==
  ASSUME TypeOK, DictInv, DictStep
  PROVE  DictInv'
<1> USE ActorsAssumption DEF ActorsAssumption
<1>1. /\ top \in Nat /\ top' \in Nat /\ top <= top' /\ top' <= MaxDicts
      /\ minted \in Nat /\ minted' \in Nat /\ minted <= minted' /\ minted' <= top'
  BY DEF TypeOK, DictStep, StepTyped
<1>2. IdsAreMade' /\ RootsAreThere'
  BY DEF DictStep, StepIds, StepRoots, IdsAreMade, RootsAreThere
<1>3. DocumentsAreThere'
  BY <1>1 DEF DictStep, StepDocuments, DocumentsAreThere, DictInv
<1>4. OneFamilyPerId'
  <2> SUFFICES ASSUME NEW r \in 1 .. top', NEW s \in 1 .. top',
                      heap'[r].id \in Ids, heap'[r].id = heap'[s].id
               PROVE  heap'[r].root = heap'[s].root
    BY DEF OneFamilyPerId, Ids
  <2>1. CASE heap'[r].id > minted
    BY <2>1 DEF DictStep, StepIds
  <2>2. CASE heap'[r].id \in 1 .. minted
    <3>1. PICK q \in 1 .. top : heap[q].id = heap'[r].id /\ heap[q].root = heap'[r].root
      BY <2>2 DEF DictStep, StepIds
    <3>2. PICK t \in 1 .. top : heap[t].id = heap'[s].id /\ heap[t].root = heap'[s].root
      BY <2>2 DEF DictStep, StepIds
    <3>3. heap[q].root = heap[t].root
      BY <3>1, <3>2 DEF DictInv, OneFamilyPerId
    <3>4. QED BY <3>1, <3>2, <3>3
  <2>3. QED BY <1>1, <2>1, <2>2 DEF Ids
<1>5. SetupIsServed'
  <2> SUFFICES ASSUME NEW r \in 1 .. top', heap'[r].as # 0
               PROVE  /\ documents'[heap'[r].as] >= r
                      /\ heap'[documents'[heap'[r].as]].as = heap'[r].as
    BY DEF SetupIsServed
  <2>1. heap'[r] \in Dict /\ heap'[r].as \in Ids
    <3>1. heap'[r] \in Dict
      BY <1>1 DEF DictStep, StepTyped, Refs
    <3>2. QED BY <3>1 DEF Dict
  <2>2. CASE r \in top + 1 .. top'
    BY <2>1, <2>2, <1>1 DEF DictStep, StepDocuments
  <2>3. CASE r \in 1 .. top
    <3>1. heap'[r].as = heap[r].as
      BY <2>3 DEF DictStep, StepDocuments
    <3>2. /\ documents[heap[r].as] >= r
          /\ heap[documents[heap[r].as]].as = heap[r].as
      BY <2>3, <3>1 DEF DictInv, SetupIsServed
    <3>3. documents[heap[r].as] \in 1 .. top
      BY <2>1, <2>3, <3>1, <3>2, <1>1 DEF DictInv, DocumentsAreThere
    <3>4. QED
      BY <2>1, <2>3, <3>1, <3>2, <3>3, <1>1 DEF DictStep, StepDocuments
  <2>4. QED BY <2>2, <2>3, <1>1
<1>6. ActivityNamesItsActor'
  <2> SUFFICES ASSUME NEW r \in 1 .. top', heap'[r].actor # Nobody
               PROVE  heap'[r].actor \in users'[heap'[r].root]
    BY DEF ActivityNamesItsActor
  <2>1. CASE r \in top + 1 .. top'
    BY <2>1 DEF DictStep, StepActors
  <2>2. CASE r \in 1 .. top
    <3>1. CASE heap'[r].actor = heap[r].actor
      <4>1. heap[r].actor \in users[heap[r].root]
        BY <2>2, <3>1 DEF DictInv, ActivityNamesItsActor
      <4>2. heap'[r].root = heap[r].root /\ heap[r].root \in 1 .. top
        BY <2>2 DEF DictInv, RootsAreThere, DictStep, StepRoots
      <4>3. QED BY <3>1, <4>1, <4>2 DEF DictStep, StepActors
    <3>2. QED BY <2>2, <3>1 DEF DictStep, StepActors
  <2>3. QED BY <2>1, <2>2, <1>1
<1>7. PublishedInFamily'
  <2> SUFFICES ASSUME NEW r \in 1 .. top', heap'[r].as # 0
               PROVE  /\ heap'[r].as <= minted'
                      /\ \A s \in 1 .. top' :
                           heap'[r].as \in {heap'[s].id, heap'[s].as}
                             => heap'[s].root = heap'[r].root
    BY DEF PublishedInFamily
  <2> DEFINE Old(q) == q \in 1 .. top
  <2>1. \A q \in 1 .. top' : Old(q) \/ q \in top + 1 .. top'
    BY <1>1
  <2>2. \A q \in 1 .. top' : heap'[q].as \in Ids \cup {0}
    <3>1. \A q \in 1 .. top' : heap'[q] \in Dict
      BY <1>1 DEF DictStep, StepTyped, Refs
    <3>2. QED BY <3>1 DEF Dict
  <2>3. \A q \in 1 .. top' :
          ~Old(q) /\ heap'[q].as # 0 => heap'[q].as = heap'[q].id
    BY <2>1 DEF DictStep, StepDocuments
  <2>4. \A q \in 1 .. top :
          heap'[q].as = heap[q].as /\ heap'[q].root = heap[q].root
    BY DEF DictStep, StepDocuments, StepRoots
  \* An id under which an old dictionary was published stays in its family.
  <2>5. ASSUME NEW q \in 1 .. top, NEW s \in 1 .. top',
               heap'[q].as # 0, heap'[s].id = heap'[q].as
        PROVE  heap'[s].root = heap'[q].root
    <3>1. heap[q].as # 0 /\ heap[q].as \in 1 .. minted
      <4>1. q \in 1 .. top'
        BY <1>1
      <4>2. heap'[q].as \in Ids
        BY <2>2, <2>5, <4>1
      <4>3. heap[q].as <= minted
        BY <2>4, <2>5 DEF DictInv, PublishedInFamily
      <4>4. QED BY <1>1, <2>4, <2>5, <4>2, <4>3 DEF Ids
    <3>2. PICK t \in 1 .. top : heap[t].id = heap'[s].id /\ heap[t].root = heap'[s].root
      BY <2>4, <2>5, <3>1 DEF DictStep, StepIds
    <3>3. heap[t].root = heap[q].root
      BY <2>4, <2>5, <3>1, <3>2 DEF DictInv, PublishedInFamily
    <3>4. QED BY <2>4, <3>2, <3>3
  <2>6. heap'[r].as <= minted'
    <3>1. CASE Old(r)
      <4>1. heap[r].as <= minted
        BY <2>4, <3>1 DEF DictInv, PublishedInFamily
      <4>2. heap'[r].as \in Nat
        BY <2>2 DEF Ids
      <4>3. QED BY <1>1, <2>4, <3>1, <4>1, <4>2
    <3>2. CASE ~Old(r)
      <4>1. heap'[r].as = heap'[r].id /\ heap'[r].as \in Ids
        BY <2>2, <2>3, <3>2
      <4>2. heap'[r].id \in (0 .. minted') \cup {ForeignId}
        BY DEF DictStep, StepIds
      <4>3. QED BY <1>1, <4>1, <4>2 DEF Ids, ForeignId
    <3>3. QED BY <3>1, <3>2
  <2>7. ASSUME NEW s \in 1 .. top', heap'[r].as \in {heap'[s].id, heap'[s].as}
        PROVE  heap'[s].root = heap'[r].root
    <3>1. heap'[r].as \in Ids /\ (Old(r) => r \in 1 .. top)
      BY <2>2
    <3>2. CASE heap'[r].as = heap'[s].id
      <4>1. CASE Old(r)
        BY <2>5, <3>2, <4>1
      <4>2. CASE ~Old(r)
        <5>1. heap'[r].id = heap'[s].id /\ heap'[r].id \in Ids
          BY <2>3, <3>1, <3>2, <4>2
        <5>2. QED BY <5>1, <1>4 DEF OneFamilyPerId
      <4>3. QED BY <4>1, <4>2
    <3>3. CASE heap'[r].as = heap'[s].as
      <4>1. CASE Old(r) /\ Old(s)
        BY <2>4, <3>3, <4>1 DEF DictInv, PublishedInFamily
      <4>2. CASE Old(r) /\ ~Old(s)
        <5>1. heap'[s].id = heap'[r].as
          BY <2>3, <3>3, <4>2
        <5>2. QED BY <2>5, <4>2, <5>1
      <4>3. CASE ~Old(r) /\ Old(s)
        <5>1. heap'[r].id = heap'[s].as /\ heap'[s].as # 0
          BY <2>3, <3>3, <4>3
        <5>2. QED BY <2>5, <4>3, <5>1
      <4>4. CASE ~Old(r) /\ ~Old(s)
        <5>1. heap'[r].id = heap'[s].id /\ heap'[r].id \in Ids
          BY <2>3, <3>1, <3>3, <4>4
        <5>2. QED BY <5>1, <1>4 DEF OneFamilyPerId
      <4>5. QED BY <4>1, <4>2, <4>3, <4>4
    <3>4. QED BY <2>7, <3>2, <3>3
  <2>8. QED BY <2>6, <2>7
<1>8. QED BY <1>2, <1>3, <1>4, <1>5, <1>6, <1>7 DEF DictInv

-----------------------------------------------------------------------------
\* The users of a dictionary's family grow.
UsersGrow ==
  /\ users' \in [Refs -> SUBSET (Names \cup {Several})]
  /\ \A q \in 1 .. top : users[q] \subseteq users'[q]

\* A new dictionary c has a family of its own or that of an old dictionary.
HasRoot(c) == c.root = top + 1 \/ \E q \in 1 .. top : c.root = heap[q].root

HasId(c) ==
  \/ c.id \in {0, ForeignId}
  \/ \E q \in 1 .. top : c.id = heap[q].id /\ c.root = heap[q].root
  \/ c.id = minted + 1 /\ minted' = minted + 1

\* The dictionary p has become s, and c is its new copy.
Rewritten(p, s, c) ==
  /\ s \in Dict
  /\ s.root = heap[p].root /\ s.as = heap[p].as
  /\ \/ s.id = heap[p].id
     \/ s.id = minted + 1 /\ c.id = s.id /\ s.root = c.root
  /\ s.actor = heap[p].actor \/ s.actor \in users'[s.root]

\* The step of an operation that makes one dictionary.
LEMMA OneMore ==
  ASSUME TypeOK, DictInv, Room(1), UsersGrow,
         NEW p \in 0 .. top, NEW s, NEW c \in Dict,
         PutBack(p, s, c), top' = top + 1, minted' \in {minted, minted + 1},
         p # 0 => Rewritten(p, s, c),
         HasRoot(c), HasId(c), c.actor # Nobody => c.actor \in users'[c.root],
         \/ UNCHANGED documents /\ c.as = 0
         \/ Serve(c.id, top + 1) /\ c.as = IF c.id \in Ids THEN c.id ELSE 0
  PROVE  DictStep
<1> USE ActorsAssumption DEF ActorsAssumption
<1>1. /\ top \in Nat /\ top' = top + 1 /\ top + 1 <= MaxDicts
      /\ minted \in Nat /\ minted <= top
      /\ top + 1 \in Refs /\ heap \in [Refs -> Dict]
      /\ p # 0 => p \in Refs /\ p # top + 1
  BY DEF TypeOK, Room, Refs
<1>2. /\ heap' \in [Refs -> Dict]
      /\ heap'[top + 1] = c
      /\ p # 0 => heap'[p] = s
      /\ \A r \in 1 .. top : r # p => heap'[r] = heap[r]
  <2>1. CASE p = 0
    BY <1>1, <2>1 DEF PutBack, Refs
  <2>2. CASE p # 0
    <3>1. s \in Dict
      BY <2>2 DEF Rewritten
    <3>2. heap' = [heap EXCEPT ![p] = s, ![top + 1] = c]
      BY <2>2 DEF PutBack
    <3>3. \A r \in 1 .. top : r \in Refs /\ r # top + 1
      BY <1>1 DEF Refs
    <3>4. heap' \in [Refs -> Dict]
      BY <1>1, <2>2, <3>1, <3>2
    <3>5. heap'[top + 1] = c /\ heap'[p] = s
      BY <1>1, <2>2, <3>2
    <3>6. \A r \in 1 .. top : r # p => heap'[r] = heap[r]
      BY <1>1, <3>2, <3>3
    <3>7. QED BY <3>4, <3>5, <3>6
  <2>3. QED BY <2>1, <2>2
<1>3. \A r \in 1 .. top' : r \in 1 .. top \/ r = top + 1
  BY <1>1
<1>4. StepTyped
  <2>1. documents' \in [Ids -> Refs \cup {0}]
    <3>1. CASE UNCHANGED documents
      BY <3>1 DEF TypeOK
    <3>2. CASE Serve(c.id, top + 1)
      BY <3>2, <1>1 DEF Serve, TypeOK
    <3>3. QED BY <3>1, <3>2
  <2>2. QED BY <1>1, <1>2, <2>1 DEF StepTyped, UsersGrow
<1>5. StepRoots
  <2>1. \A r \in 1 .. top : heap'[r].root = heap[r].root
    BY <1>2 DEF Rewritten
  <2>2. \A r \in 1 .. top : heap[r].root \in 1 .. top
    BY DEF DictInv, RootsAreThere
  <2>3. c.root \in 1 .. top + 1
    BY <1>1, <2>2 DEF HasRoot
  <2>4. QED BY <1>1, <1>2, <1>3, <2>1, <2>2, <2>3 DEF StepRoots
<1>6. StepIds
  <2>1. \A r \in 1 .. top : heap[r].id \in (0 .. minted) \cup {ForeignId}
    BY DEF DictInv, IdsAreMade
  <2>2. ForeignId > minted + 1
    BY <1>1 DEF ForeignId
  <2>3. \A r \in 1 .. top :
          \/ heap'[r].id = heap[r].id /\ heap'[r].root = heap[r].root
          \/ heap'[r].id = minted + 1 /\ c.id = minted + 1 /\ heap'[r].root = c.root
    BY <1>2 DEF Rewritten
  <2>4. c.id = minted + 1 => minted' = minted + 1
    BY <1>1, <2>1, <2>2 DEF HasId
  <2>5. c.id \in 1 .. minted =>
          \E q \in 1 .. top : heap[q].id = c.id /\ heap[q].root = c.root
    BY <1>1, <2>2 DEF HasId
  <2>6. c.id \in (0 .. minted + 1) \cup {ForeignId}
    BY <1>1, <2>1 DEF HasId
  <2>7. \A r \in 1 .. top' : heap'[r].id \in (0 .. minted') \cup {ForeignId}
    BY <1>1, <1>2, <1>3, <2>1, <2>3, <2>4, <2>6, <2>2
  <2>8. ASSUME NEW r \in 1 .. top', heap'[r].id \in 1 .. minted
        PROVE  \E q \in 1 .. top : heap[q].id = heap'[r].id
                                   /\ heap[q].root = heap'[r].root
    BY <2>8, <1>1, <1>2, <1>3, <2>3, <2>5
  <2>9. ASSUME NEW r \in 1 .. top', heap'[r].id \in Ids, heap'[r].id > minted
        PROVE  heap'[r].id = minted + 1 /\ heap'[r].root = c.root
    BY <2>9, <1>1, <1>2, <1>3, <2>1, <2>3, <2>6 DEF Ids, ForeignId
  <2>10. QED BY <2>7, <2>8, <2>9 DEF StepIds
<1>7. StepActors
  BY <1>1, <1>2, <1>3 DEF StepActors, UsersGrow, Rewritten
<1>8. StepDocuments
  <2>1. \A r \in 1 .. top : heap'[r].as = heap[r].as
    BY <1>2 DEF Rewritten
  <2>2. CASE UNCHANGED documents /\ c.as = 0
    BY <1>1, <1>2, <2>1, <2>2 DEF StepDocuments
  <2>3. CASE Serve(c.id, top + 1) /\ c.as = IF c.id \in Ids THEN c.id ELSE 0
    <3>1. \A i \in Ids : documents'[i] = IF i = c.id THEN top + 1 ELSE documents[i]
      BY <2>3 DEF Serve
    <3>2. c.as # 0 => c.as \in Ids /\ c.as = c.id
      BY <2>3
    <3>3. \A i \in Ids : i # 0
      BY DEF Ids
    <3>4. QED BY <1>1, <1>2, <2>1, <2>3, <3>1, <3>2, <3>3 DEF StepDocuments
  <2>4. QED BY <2>2, <2>3
<1>9. QED BY <1>4, <1>5, <1>6, <1>7, <1>8 DEF DictStep

\* A copy, completed and with an id if it had none, is what OneMore asks for.
LEMMA CopyHas ==
  ASSUME TypeOK, DictInv, Room(1), NEW p \in 0 .. top, NEW e,
         e.root = CopyOf(p).root,
         e.id = CopyOf(p).id \/ (CopyOf(p).id = 0 /\ e.id = minted + 1),
         minted' = Mints(e)
  PROVE  HasRoot(e) /\ HasId(e) /\ minted' \in {minted, minted + 1}
<1>1. p # 0 => p \in 1 .. top
  BY ActorsAssumption DEF TypeOK, ActorsAssumption
<1>2. HasRoot(e)
  BY <1>1, CopyFacts DEF HasRoot
<1>3. HasId(e)
  <2>1. CASE e.id = CopyOf(p).id
    BY <1>1, <2>1, CopyFacts DEF HasId
  <2>2. CASE e.id = minted + 1
    BY <2>2 DEF HasId, Mints
  <2>3. QED BY <2>1, <2>2
<1>4. QED BY <1>2, <1>3 DEF Mints

\* The actor that a copy names is one of the users of its family.
LEMMA CopyActor ==
  ASSUME TypeOK, DictInv, Room(1), NEW p \in 0 .. top, CopyOf(p).actor # Nobody
  PROVE  /\ CopyOf(p).root \in 1 .. top
         /\ CopyOf(p).actor \in users[CopyOf(p).root]
<1>1. p \in 1 .. top
  BY CopyFacts, ActorsAssumption DEF TypeOK, ActorsAssumption
<1>2. QED
  BY <1>1, CopyFacts DEF DictInv, RootsAreThere, ActivityNamesItsActor

LEMMA NewId ==
  ASSUME TypeOK, Room(1)
  PROVE  minted + 1 \in Ids /\ ForeignId \notin Ids /\ 0 \notin Ids
BY ActorsAssumption DEF TypeOK, Room, Ids, ForeignId, ActorsAssumption

LEMMA MadeFacts ==
  ASSUME TypeOK, Room(1), NEW p \in 0 .. top, NEW withId \in BOOLEAN
  PROVE  LET o == MadeObject(p, withId)
         IN  /\ o \in Dict
             /\ o.root = CopyOf(p).root /\ o.as = 0 /\ o.actor = CopyOf(p).actor
             /\ o.id = CopyOf(p).id \/ (CopyOf(p).id = 0 /\ o.id = minted + 1)
<1> DEFINE d == WithType(CopyOf(p), "Note")
<1>1. CopyOf(p) \in Dict /\ CopyOf(p).as = 0
  BY CopyFacts
<1>2. d \in Dict /\ Alike(d, CopyOf(p))
  BY <1>1, WithTypeFacts DEF Types
<1>3. minted + 1 \in Ids
  BY NewId
<1>4. CASE withId
  <2>1. MadeObject(p, withId) = WithId(d, minted + 1)
    BY <1>4 DEF MadeObject
  <2> HIDE DEF d
  <2>2. QED BY <1>1, <1>2, <1>3, <2>1, WithIdFacts DEF Alike
<1>5. CASE ~withId
  <2>1. MadeObject(p, withId) = d
    BY <1>5 DEF MadeObject
  <2> HIDE DEF d
  <2>2. QED BY <1>1, <1>2, <2>1 DEF Alike
<1>6. QED BY <1>4, <1>5

LEMMA UsersStay ==
  ASSUME TypeOK, UNCHANGED users PROVE UsersGrow
BY DEF TypeOK, UsersGrow

LEMMA UsersGain ==
  ASSUME TypeOK, NEW r \in Refs, NEW n \in Names \cup {Several}, Uses(r, n)
  PROVE  UsersGrow /\ n \in users'[r]
<1>1. users \in [Refs -> SUBSET (Names \cup {Several})]
  BY DEF TypeOK
<1>2. \A q \in Refs : users'[q] = IF q = r THEN users[r] \cup {n} ELSE users[q]
  BY <1>1 DEF Uses
<1>3. users' \in [Refs -> SUBSET (Names \cup {Several})]
  BY <1>1 DEF Uses
<1>4. 1 .. top \subseteq Refs
  BY ActorsAssumption DEF TypeOK, Refs, ActorsAssumption
<1>5. QED BY <1>2, <1>3, <1>4 DEF UsersGrow

-----------------------------------------------------------------------------
(***************************************************************************)
(* The operations.                                                         *)
(***************************************************************************)
LEMMA MakeObjectStep ==
  ASSUME TypeOK, DictInv, NEW p \in Props, NEW withId \in BOOLEAN,
         MakeObject(p, withId)
  PROVE  DictStep
<1> DEFINE o == MadeObject(p, withId)
<1>1. /\ Room(1) /\ Put(top + 1, o) /\ top' = top + 1 /\ minted' = Mints(o)
      /\ UNCHANGED users /\ UNCHANGED documents
  BY DEF MakeObject, serverVars
<1>2. p \in 0 .. top /\ 0 \in 0 .. top
  BY ActorsAssumption DEF Props, TypeOK, ActorsAssumption
<1>3. /\ o \in Dict /\ o.root = CopyOf(p).root /\ o.as = 0 /\ o.actor = CopyOf(p).actor
      /\ o.id = CopyOf(p).id \/ (CopyOf(p).id = 0 /\ o.id = minted + 1)
  BY <1>1, <1>2, MadeFacts
<1>4. PutBack(0, 0, o)
  BY <1>1 DEF Put, PutBack
<1>5. UsersGrow
  BY <1>1, UsersStay
<1> HIDE DEF o
<1>6. o.actor # Nobody => o.actor \in users'[o.root]
  BY <1>1, <1>2, <1>3, CopyActor
<1>7. HasRoot(o) /\ HasId(o) /\ minted' \in {minted, minted + 1}
  BY <1>1, <1>2, <1>3, CopyHas
<1>8. QED
  BY <1>1, <1>2, <1>3, <1>4, <1>5, <1>6, <1>7, OneMore

LEMMA SetupObjectStep ==
  ASSUME TypeOK, DictInv, NEW h \in Handles, NEW p \in Props,
         NEW withId \in BOOLEAN, SetupObject(h, p, withId)
  PROVE  DictStep
<1> DEFINE o == MadeObject(p, withId)
           e == Published(o)
<1>1. /\ Room(1) /\ Put(top + 1, e) /\ top' = top + 1 /\ minted' = Mints(o)
      /\ UNCHANGED users /\ Serve(o.id, top + 1)
  BY DEF SetupObject
<1>2. p \in 0 .. top /\ 0 \in 0 .. top
  BY ActorsAssumption DEF Props, TypeOK, ActorsAssumption
<1>3. /\ o \in Dict /\ o.root = CopyOf(p).root /\ o.as = 0 /\ o.actor = CopyOf(p).actor
      /\ o.id = CopyOf(p).id \/ (CopyOf(p).id = 0 /\ o.id = minted + 1)
  BY <1>1, <1>2, MadeFacts
<1>4. PutBack(0, 0, e)
  BY <1>1 DEF Put, PutBack
<1>5. UsersGrow
  BY <1>1, UsersStay
<1> HIDE DEF o
<1>6. /\ e \in Dict /\ e.root = o.root /\ e.id = o.id /\ e.actor = o.actor
      /\ e.as = IF e.id \in Ids THEN e.id ELSE 0
  BY <1>3, PublishedFacts
<1> HIDE DEF e
<1>7. e.actor # Nobody => e.actor \in users'[e.root]
  BY <1>1, <1>2, <1>3, <1>6, CopyActor
<1>8. minted' = Mints(e)
  BY <1>1, <1>6 DEF Mints
<1>9. HasRoot(e) /\ HasId(e) /\ minted' \in {minted, minted + 1}
  BY <1>1, <1>2, <1>3, <1>6, <1>8, CopyHas
<1>10. QED
  BY <1>1, <1>2, <1>4, <1>5, <1>6, <1>7, <1>9, OneMore

\* What make_activity does to the dictionary of its caller and to the copy.
LEMMA CompletedHas ==
  ASSUME TypeOK, DictInv, Room(1), NEW p \in 0 .. top, NEW n \in Names,
         Uses(CopyOf(p).root, n)
  PROVE  LET c == Completed(CopyOf(p), n)
             s == Completed(heap[p], n)
         IN  /\ UsersGrow
             /\ c \in Dict /\ c.root = CopyOf(p).root /\ c.id = CopyOf(p).id /\ c.as = 0
             /\ c.actor # Nobody /\ c.actor \in users'[c.root]
             /\ p # 0 => /\ s \in Dict /\ s.root = heap[p].root /\ s.as = heap[p].as
                         /\ s.id = heap[p].id
                         /\ s.actor = c.actor /\ s.root = c.root
<1> DEFINE c == Completed(CopyOf(p), n)
           s == Completed(heap[p], n)
<1>1. /\ CopyOf(p) \in Dict /\ CopyOf(p).as = 0
      /\ p = 0 => CopyOf(p).root = top + 1 /\ CopyOf(p).id = 0
                  /\ CopyOf(p).actor = Nobody
      /\ p # 0 => CopyOf(p).root = heap[p].root /\ CopyOf(p).id = heap[p].id
                  /\ CopyOf(p).actor = heap[p].actor
  BY CopyFacts
<1>2. p # 0 => p \in 1 .. top /\ heap[p] \in Dict
  BY ActorsAssumption DEF TypeOK, Refs, ActorsAssumption
<1>3. CopyOf(p).root \in Refs
  BY <1>1, <1>2, ActorsAssumption
     DEF DictInv, RootsAreThere, TypeOK, Room, Refs, ActorsAssumption
<1>4. UsersGrow /\ n \in users'[CopyOf(p).root]
  BY <1>3, UsersGain
<1>5. /\ c \in Dict
      /\ c.root = CopyOf(p).root /\ c.as = CopyOf(p).as /\ c.id = CopyOf(p).id
      /\ c.actor = IF CopyOf(p).actor = Nobody THEN n ELSE CopyOf(p).actor
  BY <1>1, CompletedFacts
<1>6. p # 0 =>
        /\ s \in Dict
        /\ s.root = heap[p].root /\ s.as = heap[p].as /\ s.id = heap[p].id
        /\ s.actor = IF heap[p].actor = Nobody THEN n ELSE heap[p].actor
  BY <1>2, CompletedFacts
<1> HIDE DEF c, s
<1>7. c.actor # Nobody
  BY <1>5, NamesAreNames
<1>8. c.actor \in users'[c.root]
  <2>1. CASE CopyOf(p).actor = Nobody
    BY <2>1, <1>4, <1>5
  <2>2. CASE CopyOf(p).actor # Nobody
    <3>1. /\ CopyOf(p).root \in 1 .. top
          /\ CopyOf(p).actor \in users[CopyOf(p).root]
      BY <2>2, CopyActor
    <3>2. QED BY <2>2, <3>1, <1>4, <1>5 DEF UsersGrow
  <2>3. QED BY <2>1, <2>2
<1>9. QED
  BY <1>1, <1>4, <1>5, <1>6, <1>7, <1>8 DEF c, s

LEMMA MakeActivityStep ==
  ASSUME TypeOK, DictInv, NEW n \in Names, NEW p \in Props, NEW withId \in BOOLEAN,
         MakeActivity(n, p, withId)
  PROVE  DictStep
<1> DEFINE c == Completed(CopyOf(p), n)
           s == Completed(heap[p], n)
           a == IF withId THEN WithId(c, minted + 1) ELSE c
<1>1. /\ Room(1) /\ top' = top + 1 /\ minted' = Mints(a)
      /\ PutBack(p, IF p = 0 THEN Blank ELSE s, a)
      /\ Uses(a.root, n) /\ UNCHANGED documents
  BY DEF MakeActivity, serverVars
<1>2. p \in 0 .. top
  BY DEF Props
<1>3. CopyOf(p) \in Dict
  BY <1>1, <1>2, CopyFacts
<1>4. minted + 1 \in Ids /\ c \in Dict /\ c.root = CopyOf(p).root
  BY <1>1, <1>3, NewId, CompletedFacts
<1> HIDE DEF c
<1>5. /\ a \in Dict /\ a.root = c.root /\ a.as = c.as /\ a.actor = c.actor
      /\ a.id = c.id \/ (c.id = 0 /\ a.id = minted + 1)
  BY <1>4, WithIdFacts
<1> HIDE DEF a
<1>6. Uses(CopyOf(p).root, n)
  BY <1>1, <1>4, <1>5
<1>7. /\ UsersGrow
      /\ c \in Dict /\ c.root = CopyOf(p).root /\ c.id = CopyOf(p).id /\ c.as = 0
      /\ c.actor # Nobody /\ c.actor \in users'[c.root]
      /\ p # 0 => /\ s \in Dict /\ s.root = heap[p].root /\ s.as = heap[p].as
                  /\ s.id = heap[p].id
                  /\ s.actor = c.actor /\ s.root = c.root
  BY <1>1, <1>2, <1>6, CompletedHas DEF c
<1> HIDE DEF s
<1>8. HasRoot(a) /\ HasId(a) /\ minted' \in {minted, minted + 1}
  BY <1>1, <1>2, <1>5, <1>7, CopyHas
<1>9. p # 0 => Rewritten(p, s, a)
  BY <1>5, <1>7 DEF Rewritten
<1>10. /\ a.actor # Nobody => a.actor \in users'[a.root]
       /\ a.as = 0
  BY <1>5, <1>7
<1>11. p # 0 => Rewritten(p, IF p = 0 THEN Blank ELSE s, a)
  BY <1>9
<1>12. QED
  BY <1>1, <1>2, <1>5, <1>7, <1>8, <1>10, <1>11, OneMore

LEMMA SetupActivityStep ==
  ASSUME TypeOK, DictInv, NEW h \in Handles, NEW p \in Props, SetupActivity(h, p)
  PROVE  DictStep
<1> DEFINE n == NameOf[h]
           c == Completed(CopyOf(p), n)
           s == Completed(heap[p], n)
           b == WithId(s, minted + 1)
           a == WithId(c, minted + 1)
           e == Published(a)
<1>1. /\ Room(1) /\ p # 0 /\ top' = top + 1 /\ minted' = Mints(a)
      /\ PutBack(p, b, e) /\ Serve(a.id, top + 1) /\ Uses(a.root, n)
  BY DEF SetupActivity
<1>2. p \in 0 .. top /\ n \in Names
  BY NamesAreNames DEF Props
<1> HIDE DEF n
<1>3. CopyOf(p) \in Dict
  BY <1>1, <1>2, CopyFacts
<1>4. minted + 1 \in Ids /\ c \in Dict /\ c.root = CopyOf(p).root
  BY <1>1, <1>2, <1>3, NewId, CompletedFacts
<1> HIDE DEF c
<1>5. /\ a \in Dict /\ a.root = c.root /\ a.as = c.as /\ a.actor = c.actor
      /\ a.id = IF c.id = 0 THEN minted + 1 ELSE c.id
  BY <1>4, WithIdFacts
<1> HIDE DEF a
<1>6. Uses(CopyOf(p).root, n)
  BY <1>1, <1>4, <1>5
<1>7. /\ UsersGrow
      /\ c \in Dict /\ c.root = CopyOf(p).root /\ c.id = CopyOf(p).id /\ c.as = 0
      /\ c.actor # Nobody /\ c.actor \in users'[c.root]
      /\ s \in Dict /\ s.root = heap[p].root /\ s.as = heap[p].as
      /\ s.id = heap[p].id
      /\ s.actor = c.actor /\ s.root = c.root
  BY <1>1, <1>2, <1>6, CompletedHas DEF c
<1> HIDE DEF s
<1>8. /\ b \in Dict /\ b.root = s.root /\ b.as = s.as /\ b.actor = s.actor
      /\ b.id = IF s.id = 0 THEN minted + 1 ELSE s.id
  BY <1>4, <1>7, WithIdFacts
<1> HIDE DEF b
<1>9. /\ e \in Dict /\ e.root = a.root /\ e.id = a.id /\ e.actor = a.actor
      /\ e.as = IF e.id \in Ids THEN e.id ELSE 0
  BY <1>5, <1>7, PublishedFacts
<1> HIDE DEF e
<1>10. heap[p].id = CopyOf(p).id
  BY <1>1, <1>2, CopyFacts
<1>11. Rewritten(p, b, e)
  BY <1>5, <1>7, <1>8, <1>9, <1>10 DEF Rewritten
<1>12. minted' = Mints(e)
  BY <1>1, <1>9 DEF Mints
<1>13. HasRoot(e) /\ HasId(e) /\ minted' \in {minted, minted + 1}
  BY <1>1, <1>2, <1>5, <1>7, <1>9, <1>12, CopyHas
<1>14. e.actor # Nobody => e.actor \in users'[e.root]
  BY <1>5, <1>7, <1>9
<1>15. QED
  BY <1>1, <1>2, <1>7, <1>9, <1>11, <1>13, <1>14, OneMore

LEMMA DeleteObjectStep ==
  ASSUME TypeOK, DictInv, NEW h \in Handles, NEW r \in 1 .. top, DeleteObject(h, r)
  PROVE  DictStep
<1> DEFINE d == [Blank EXCEPT !.id = heap[r].id, !.type = "Tombstone",
                              !.root = heap[r].root]
           e == Published(d)
<1>1. /\ Room(1) /\ Put(top + 1, e) /\ top' = top + 1 /\ UNCHANGED <<minted, users>>
      /\ Serve(heap[r].id, top + 1)
  BY DEF DeleteObject
<1>2. heap[r] \in Dict
  BY ActorsAssumption DEF TypeOK, Refs, ActorsAssumption
<1>3. /\ d \in Dict /\ d.id = heap[r].id /\ d.root = heap[r].root
      /\ d.as = 0 /\ d.actor = Nobody
  BY <1>2, BlankTyped DEF Dict, Types
<1> HIDE DEF d
<1>4. /\ e \in Dict /\ e.root = heap[r].root /\ e.id = heap[r].id /\ e.actor = Nobody
      /\ e.as = IF e.id \in Ids THEN e.id ELSE 0
  BY <1>3, PublishedFacts
<1> HIDE DEF e
<1>5. PutBack(0, 0, e) /\ Serve(e.id, top + 1) /\ 0 \in 0 .. top
  BY <1>1, <1>4, ActorsAssumption DEF Put, PutBack, TypeOK, ActorsAssumption
<1>6. UsersGrow
  BY <1>1, UsersStay
<1>7. HasRoot(e) /\ HasId(e)
  BY <1>4 DEF HasRoot, HasId
<1>8. QED
  BY <1>1, <1>4, <1>5, <1>6, <1>7, OneMore

\* What get_json returns.
LEMMA StoredIs ==
  ASSUME TypeOK, Room(1), NEW t \in Types, NEW a \in Names \cup {Nobody, Several},
         NEW to \in Recipients
  PROVE  LET d == Stored(t, a, to)
         IN  /\ d \in Dict /\ HasRoot(d) /\ HasId(d)
             /\ d.actor = a /\ d.root = top + 1 /\ d.as = 0
<1> DEFINE d == Stored(t, a, to)
<1>1. top + 1 \in Refs
  BY ActorsAssumption DEF TypeOK, Room, Refs, ActorsAssumption
<1>2. /\ d \in Dict /\ d.actor = a /\ d.root = top + 1 /\ d.as = 0
      /\ d.id = ForeignId
  BY <1>1, BlankTyped DEF Stored, Dict
<1>3. QED BY <1>2 DEF HasRoot, HasId

LEMMA FieldsTyped ==
  ASSUME NEW d \in Dict
  PROVE  d.type \in Types /\ d.to \in Recipients /\ d.object \in Refs \cup {0}
         /\ d.actor \in Names \cup {Nobody, Several}
BY DEF Dict

LEMMA LiteralStep ==
  ASSUME TypeOK, DictInv, NEW l \in Literals, NEW nested \in Props, Literal(l, nested)
  PROVE  DictStep
<1> DEFINE d == [Blank EXCEPT !.type = l.type, !.actor = l.actor,
                              !.object = nested, !.to = l.to, !.root = top + 1]
<1>1. /\ Room(1) /\ top' = top + 1 /\ UNCHANGED <<minted, documents>>
      /\ Put(top + 1, d)
      /\ users' = [users EXCEPT ![top + 1] = {l.actor} \ {Nobody}]
  BY DEF Literal, serverVars
<1>2. l.type \in Types /\ l.actor \in Names \cup {Nobody} /\ l.to \in Recipients
  BY ActorsAssumption DEF ActorsAssumption
<1>3. nested \in Refs \cup {0} /\ top \in Nat /\ top + 1 \in Refs
  BY <1>1, ActorsAssumption DEF Props, TypeOK, Refs, Room, ActorsAssumption
<1>4. /\ d \in Dict /\ d.id = 0
      /\ d.actor = l.actor /\ d.root = top + 1 /\ d.as = 0
  BY <1>2, <1>3, BlankTyped DEF Dict
<1> HIDE DEF d
<1>5. HasRoot(d) /\ HasId(d)
  BY <1>4 DEF HasRoot, HasId
<1>6. users' \in [Refs -> SUBSET (Names \cup {Several})]
  BY <1>1, <1>2, <1>3 DEF TypeOK
<1>7. \A q \in 1 .. top : users[q] = users'[q]
  BY <1>1, <1>3, ActorsAssumption DEF TypeOK, Refs, ActorsAssumption
<1>8. UsersGrow
  BY <1>6, <1>7 DEF UsersGrow
<1>9. d.actor # Nobody => d.actor \in users'[d.root]
  BY <1>1, <1>3, <1>4 DEF TypeOK
<1>10. PutBack(0, 0, d) /\ 0 \in 0 .. top
  BY <1>1, <1>3 DEF Put, PutBack
<1>11. QED
  BY <1>1, <1>4, <1>5, <1>8, <1>9, <1>10, OneMore

LEMMA LocalSetupObjectStep ==
  ASSUME TypeOK, DictInv, NEW p \in Props, LocalSetupObject(p)
  PROVE  DictStep
<1> DEFINE o == WithType(CopyOf(p), "Note")
           d == Stored(o.type, o.actor, o.to)
<1>1. /\ Room(1) /\ top' = top + 1 /\ UNCHANGED <<minted, documents>>
      /\ Put(top + 1, d)
      /\ users' = [users EXCEPT ![top + 1] = {o.actor} \ {Nobody}]
  BY DEF LocalSetupObject, serverVars
<1>2. p \in 0 .. top /\ top \in Nat /\ top + 1 \in Refs
  BY <1>1, ActorsAssumption DEF Props, TypeOK, Refs, Room, ActorsAssumption
<1>3. CopyOf(p) \in Dict
  BY <1>1, <1>2, CopyFacts
<1>4. o \in Dict
  BY <1>3, WithTypeFacts DEF Types
<1> HIDE DEF o
<1>5. o.type \in Types /\ o.actor \in Names \cup {Nobody, Several} /\ o.to \in Recipients
  BY <1>4, FieldsTyped
<1>6. d \in Dict /\ HasRoot(d) /\ HasId(d)
  BY <1>1, <1>5, StoredIs
<1>7. d.actor = o.actor /\ d.root = top + 1 /\ d.as = 0
  BY <1>1, <1>5, StoredIs
<1> HIDE DEF d
<1>8. users' \in [Refs -> SUBSET (Names \cup {Several})]
  BY <1>1, <1>2, <1>5 DEF TypeOK
<1>9. \A q \in 1 .. top : users[q] = users'[q]
  BY <1>1, <1>2, ActorsAssumption DEF TypeOK, Refs, ActorsAssumption
<1>10. UsersGrow
  BY <1>8, <1>9 DEF UsersGrow
<1>11. d.actor # Nobody => d.actor \in users'[d.root]
  BY <1>1, <1>2, <1>7 DEF TypeOK
<1>12. PutBack(0, 0, d) /\ 0 \in 0 .. top
  BY <1>1, <1>2 DEF Put, PutBack
<1>13. QED
  BY <1>1, <1>6, <1>7, <1>10, <1>11, <1>12, OneMore

LEMMA LocalSetupActivityStep ==
  ASSUME TypeOK, DictInv, NEW p \in Props, LocalSetupActivity(p)
  PROVE  DictStep
<1> DEFINE c == Completed(CopyOf(p), Local)
           s == Completed(heap[p], Local)
           d == Stored(c.type, c.actor, AddressedTo(c))
<1>1. /\ Room(1) /\ p # 0 /\ top' = top + 1 /\ UNCHANGED <<minted, documents>>
      /\ PutBack(p, s, d)
      /\ users' = [users EXCEPT ![c.root] = @ \cup {Local}, ![top + 1] = {c.actor}]
  BY DEF LocalSetupActivity, serverVars
<1>2. /\ p \in 0 .. top /\ p \in 1 .. top /\ p \in Refs
      /\ top \in Nat /\ top + 1 \in Refs /\ Local \in Names
  BY <1>1, NamesAreNames, ActorsAssumption
     DEF Props, TypeOK, Refs, Room, ActorsAssumption
<1>3. /\ CopyOf(p) \in Dict /\ CopyOf(p).root = heap[p].root
      /\ CopyOf(p).actor = heap[p].actor
  BY <1>1, <1>2, CopyFacts
<1>4. /\ c \in Dict /\ c.root = CopyOf(p).root
      /\ c.actor = IF CopyOf(p).actor = Nobody THEN Local ELSE CopyOf(p).actor
  BY <1>2, <1>3, CompletedFacts
<1>5. heap[p] \in Dict /\ heap[p].root \in 1 .. top
  BY <1>2 DEF TypeOK, DictInv, RootsAreThere
<1>6. /\ s \in Dict /\ s.root = heap[p].root /\ s.as = heap[p].as /\ s.id = heap[p].id
      /\ s.actor = IF heap[p].actor = Nobody THEN Local ELSE heap[p].actor
  BY <1>2, <1>5, CompletedFacts
<1> HIDE DEF c, s
<1>7. c.type \in Types /\ c.actor \in Names \cup {Several} /\ AddressedTo(c) \in Recipients
  <2>1. c.actor # Nobody
    BY <1>4, NamesAreNames
  <2>2. \A r \in Refs : heap[r] \in Dict
    BY DEF TypeOK
  <2>3. QED
    BY <1>4, <2>1, <2>2, FieldsTyped DEF AddressedTo
<1>8. d \in Dict /\ HasRoot(d) /\ HasId(d)
  BY <1>1, <1>7, StoredIs
<1>9. d.actor = c.actor /\ d.root = top + 1 /\ d.as = 0
  BY <1>1, <1>7, StoredIs
<1> HIDE DEF d
<1>10. /\ users \in [Refs -> SUBSET (Names \cup {Several})]
       /\ c.root \in Refs /\ c.root # top + 1
  BY <1>2, <1>3, <1>4, <1>5, ActorsAssumption DEF TypeOK, Refs, ActorsAssumption
<1>11. /\ users' \in [Refs -> SUBSET (Names \cup {Several})]
       /\ users'[top + 1] = {c.actor}
       /\ users'[c.root] = users[c.root] \cup {Local}
  <2>1. users[c.root] \cup {Local} \in SUBSET (Names \cup {Several})
    BY <1>2, <1>10
  <2>2. {c.actor} \in SUBSET (Names \cup {Several})
    BY <1>7
  <2>3. QED BY <1>1, <1>2, <1>10, <2>1, <2>2
<1>12. \A q \in Refs : q # c.root /\ q # top + 1 => users'[q] = users[q]
  BY <1>1, <1>10
<1>13. UsersGrow
  <2>1. \A q \in 1 .. top : q \in Refs /\ q # top + 1
    BY <1>2, ActorsAssumption DEF TypeOK, Refs, ActorsAssumption
  <2>2. QED BY <1>11, <1>12, <2>1 DEF UsersGrow
<1>14. s.actor = heap[p].actor \/ s.actor \in users'[s.root]
  BY <1>3, <1>4, <1>6, <1>11
<1>15. Rewritten(p, s, d)
  BY <1>6, <1>14 DEF Rewritten
<1>16. d.actor \in users'[d.root]
  BY <1>9, <1>11
<1>17. QED
  BY <1>1, <1>2, <1>8, <1>9, <1>13, <1>15, <1>16, OneMore

\* A step that rewrites one dictionary and makes none.
LEMMA NoMore ==
  ASSUME TypeOK, DictInv, UsersGrow, NEW r \in 1 .. top, NEW d \in Dict,
         heap' = [heap EXCEPT ![r] = d], UNCHANGED <<top, minted, documents>>,
         d.root = heap[r].root, d.as = heap[r].as, d.id \in {heap[r].id, ForeignId},
         d.actor = heap[r].actor \/ d.actor \in users'[d.root]
  PROVE  DictStep
<1> USE ActorsAssumption DEF ActorsAssumption
<1>1. /\ top \in Nat /\ top <= MaxDicts /\ minted \in Nat /\ minted <= top
      /\ r \in Refs /\ heap \in [Refs -> Dict]
  BY DEF TypeOK, Refs
<1>2. /\ heap' \in [Refs -> Dict] /\ heap'[r] = d
      /\ \A q \in 1 .. top : q # r => heap'[q] = heap[q]
  BY <1>1 DEF Refs
<1>3. StepTyped
  BY <1>1, <1>2 DEF StepTyped, UsersGrow, TypeOK
<1>4. StepRoots
  BY <1>1, <1>2 DEF StepRoots, DictInv, RootsAreThere
<1>5. StepIds
  <2>1. \A q \in 1 .. top : heap[q].id \in (0 .. minted) \cup {ForeignId}
    BY DEF DictInv, IdsAreMade
  <2>2. ForeignId > minted /\ ForeignId \notin Ids
    BY <1>1 DEF ForeignId, Ids
  <2>3. \A q \in 1 .. top : heap'[q].id = heap[q].id \/ heap'[q].id = ForeignId
    BY <1>2
  <2>4. \A q \in 1 .. top : heap'[q].root = heap[q].root
    BY <1>2
  <2>5. \A q \in 1 .. top' : heap'[q].id \in (0 .. minted') \cup {ForeignId}
    BY <2>1, <2>3
  <2>6. ASSUME NEW q \in 1 .. top', heap'[q].id \in 1 .. minted
        PROVE  \E t \in 1 .. top : heap[t].id = heap'[q].id /\ heap[t].root = heap'[q].root
    BY <1>1, <2>2, <2>3, <2>4, <2>6
  <2>7. ASSUME NEW q \in 1 .. top', heap'[q].id \in Ids, heap'[q].id > minted
        PROVE  FALSE
    BY <1>1, <2>1, <2>2, <2>3, <2>7
  <2>8. QED BY <2>5, <2>6, <2>7 DEF StepIds
<1>6. StepActors
  BY <1>1, <1>2 DEF StepActors, UsersGrow
<1>7. StepDocuments
  BY <1>1, <1>2 DEF StepDocuments
<1>8. QED BY <1>3, <1>4, <1>5, <1>6, <1>7 DEF DictStep

LEMMA AssignStep ==
  ASSUME TypeOK, DictInv, NEW r \in 1 .. top, NEW entry \in {"id", "actor", "to"},
         Assign(r, entry)
  PROVE  DictStep
<1> DEFINE d == Edited(heap[r], entry)
<1>1. /\ heap' = [heap EXCEPT ![r] = d] /\ UNCHANGED <<top, minted, documents>>
      /\ IF entry = "actor" THEN Uses(heap[r].root, Several) ELSE UNCHANGED users
  BY DEF Assign, Put, serverVars
<1>2. heap[r] \in Dict /\ heap[r].root \in Refs
  BY ActorsAssumption
     DEF DictInv, RootsAreThere, TypeOK, Refs, ActorsAssumption
<1>3. /\ d \in Dict /\ d.root = heap[r].root /\ d.as = heap[r].as
      /\ d.id \in {heap[r].id, ForeignId}
      /\ d.actor = IF entry = "actor" THEN Several ELSE heap[r].actor
  BY <1>2 DEF Edited, Dict, Recipients
<1> HIDE DEF d
<1>4. UsersGrow /\ (entry = "actor" => Several \in users'[heap[r].root])
  BY <1>1, <1>2, UsersGain, UsersStay
<1>5. QED
  BY <1>1, <1>3, <1>4, NoMore

LEMMA SetupRaisesStep ==
  ASSUME TypeOK, DictInv, NEW n \in Names, NEW p \in Props, SetupRaises(n, p)
  PROVE  DictStep
<1> DEFINE d == Completed(heap[p], n)
<1>1. /\ heap' = [r \in Refs |-> IF r = p THEN Completed(heap[r], n) ELSE heap[r]]
      /\ UNCHANGED <<top, minted, documents>>
      /\ IF p = 0 THEN UNCHANGED users ELSE Uses(heap[p].root, n)
  BY DEF SetupRaises, serverVars
<1>2. /\ top \in Nat /\ MaxDicts \in Nat /\ top <= MaxDicts
      /\ heap \in [Refs -> Dict]
  BY ActorsAssumption DEF TypeOK, ActorsAssumption
<1>3. CASE p = 0
  <2>1. 0 \notin Refs
    BY DEF Refs
  <2>2. UNCHANGED heap
    BY <1>1, <1>2, <1>3, <2>1
  <2>3. UsersGrow
    BY <1>1, <1>3, UsersStay
  <2>4. StepTyped
    BY <1>1, <1>2, <2>2, <2>3, ActorsAssumption
       DEF StepTyped, UsersGrow, TypeOK, ActorsAssumption
  <2>5. StepRoots /\ StepActors /\ StepDocuments
    BY <1>1, <1>2, <1>3, <2>2
       DEF StepRoots, StepActors, StepDocuments, DictInv, RootsAreThere
  <2>6. StepIds
    BY <1>1, <1>2, <2>2 DEF StepIds, DictInv, IdsAreMade, OneFamilyPerId
  <2>7. QED BY <2>4, <2>5, <2>6 DEF DictStep
<1>4. CASE p # 0
  <2>1. p \in 1 .. top /\ p \in Refs
    BY <1>2, <1>4 DEF Props, Refs
  <2>2. heap[p] \in Dict /\ heap[p].root \in Refs
    BY <1>2, <2>1 DEF DictInv, RootsAreThere, Refs
  <2>3. /\ d \in Dict /\ d.root = heap[p].root /\ d.as = heap[p].as
        /\ d.id = heap[p].id
        /\ d.actor = IF heap[p].actor = Nobody THEN n ELSE heap[p].actor
    BY <2>2, CompletedFacts
  <2>4. heap' = [heap EXCEPT ![p] = d]
    BY <1>1, <1>2, <2>1
  <2> HIDE DEF d
  <2>5. UsersGrow /\ n \in users'[heap[p].root]
    BY <1>1, <1>4, <2>2, UsersGain
  <2>6. QED
    BY <1>1, <2>1, <2>3, <2>4, <2>5, NoMore
<1>5. QED BY <1>3, <1>4

LEMMA SetupCollectionStep ==
  ASSUME TypeOK, DictInv, NEW h \in Handles, NEW p \in Props, SetupCollection(h, p)
  PROVE  DictStep
<1> DEFINE n == NameOf[h]
           b == WithId(CopyOf(p), minted + 1)
           c == WithType(b, "Collection")
           made == Mints(c)
           d == [Blank EXCEPT !.type = "Create", !.actor = n, !.object = top + 1,
                              !.root = top + 2, !.id = made + 1]
           e == Published(d)
<1>1. /\ Room(2) /\ top' = top + 2 /\ minted' = made + 1
      /\ heap' = [heap EXCEPT ![top + 1] = c, ![top + 2] = e]
      /\ Serve(made + 1, top + 2) /\ Uses(top + 2, n)
  BY DEF SetupCollection
<1>2. /\ p \in 0 .. top /\ n \in Names
      /\ p # 0 => p \in 1 .. top
      /\ top \in Nat /\ MaxDicts \in Nat /\ top + 2 <= MaxDicts
      /\ minted \in Nat /\ minted <= top
      /\ top + 1 \in Refs /\ top + 2 \in Refs
      /\ heap \in [Refs -> Dict] /\ documents \in [Ids -> Refs \cup {0}]
      /\ Room(1)
  <2>1. MaxDicts \in Nat /\ n \in Names /\ top + 2 <= MaxDicts
    BY <1>1, NamesAreNames, ActorsAssumption DEF Room, ActorsAssumption
  <2>2. /\ top \in 0 .. MaxDicts /\ minted \in 0 .. top
        /\ heap \in [Refs -> Dict] /\ documents \in [Ids -> Refs \cup {0}]
    BY DEF TypeOK
  <2>3. /\ top \in Nat /\ minted \in Nat /\ minted <= top
        /\ p \in 0 .. top
        /\ p # 0 => p \in 1 .. top
    BY <2>1, <2>2 DEF Props
  <2>4. top + 1 \in Refs /\ top + 2 \in Refs /\ Room(1)
    BY <1>1, <2>1, <2>3 DEF Refs, Room
  <2>5. QED BY <2>1, <2>2, <2>3, <2>4
<1> HIDE DEF n
<1>3. /\ CopyOf(p) \in Dict /\ CopyOf(p).as = 0
      /\ p = 0 => CopyOf(p).root = top + 1 /\ CopyOf(p).id = 0
                  /\ CopyOf(p).actor = Nobody
      /\ p # 0 => CopyOf(p).root = heap[p].root /\ CopyOf(p).id = heap[p].id
                  /\ CopyOf(p).actor = heap[p].actor
  BY <1>2, CopyFacts
<1>4. /\ b \in Dict /\ b.root = CopyOf(p).root /\ b.as = 0
      /\ b.actor = CopyOf(p).actor
      /\ b.id = IF CopyOf(p).id = 0 THEN minted + 1 ELSE CopyOf(p).id
  BY <1>2, <1>3, NewId, WithIdFacts
<1> HIDE DEF b
<1>5. c \in Dict /\ c.root = b.root /\ c.as = 0 /\ c.actor = b.actor /\ c.id = b.id
  BY <1>4, WithTypeFacts DEF Types, Alike
<1> HIDE DEF c
<1>6. made = IF c.id = minted + 1 THEN minted + 1 ELSE minted
  BY DEF Mints
<1> HIDE DEF made
<1>7. /\ made \in {minted, minted + 1} /\ made \in Nat /\ made + 1 \in Ids
      /\ made + 1 <= top + 2
  BY <1>2, <1>6 DEF Ids
<1>8. /\ d \in Dict /\ d.id = made + 1 /\ d.root = top + 2 /\ d.actor = n
  BY <1>2, <1>7, BlankTyped DEF Dict, Types
<1> HIDE DEF d
<1>9. /\ e \in Dict /\ e.id = made + 1 /\ e.root = top + 2 /\ e.actor = n
      /\ e.as = made + 1
  BY <1>7, <1>8, PublishedFacts
<1> HIDE DEF e
<1>10. /\ heap' \in [Refs -> Dict] /\ heap'[top + 1] = c /\ heap'[top + 2] = e
       /\ \A q \in 1 .. top : heap'[q] = heap[q]
  <2>1. \A q \in 1 .. top : q \in Refs /\ q # top + 1 /\ q # top + 2
    BY <1>2 DEF Refs
  <2>2. heap' \in [Refs -> Dict]
    BY <1>1, <1>2, <1>5, <1>9
  <2>3. heap'[top + 1] = c /\ heap'[top + 2] = e
    BY <1>1, <1>2
  <2>4. \A q \in 1 .. top : heap'[q] = heap[q]
    BY <1>1, <1>2, <2>1
  <2>5. QED BY <2>2, <2>3, <2>4
<1>11. \A q \in 1 .. top' : q \in 1 .. top \/ q = top + 1 \/ q = top + 2
  BY <1>1, <1>2
<1>12. UsersGrow /\ n \in users'[top + 2]
  BY <1>1, <1>2, UsersGain
<1>13. \A i \in Ids : documents'[i] = IF i = made + 1 THEN top + 2 ELSE documents[i]
  BY <1>1 DEF Serve
<1>14. StepTyped
  <2>1. documents' \in [Ids -> Refs \cup {0}]
    BY <1>1, <1>2 DEF Serve
  <2>2. QED BY <1>1, <1>2, <1>7, <1>10, <1>12, <2>1 DEF StepTyped, UsersGrow
<1>15. StepRoots
  <2>1. c.root \in 1 .. top + 2
    BY <1>2, <1>3, <1>4, <1>5 DEF DictInv, RootsAreThere
  <2>2. \A q \in 1 .. top : heap[q].root \in 1 .. top
    BY DEF DictInv, RootsAreThere
  <2>3. \A q \in 1 .. top : heap'[q].root = heap[q].root
    BY <1>10
  <2>4. ASSUME NEW q \in 1 .. top' PROVE heap'[q].root \in 1 .. top + 2
    <3>1. CASE q \in 1 .. top
      BY <1>2, <2>2, <2>3, <3>1
    <3>2. CASE q = top + 1
      BY <1>10, <2>1, <3>2
    <3>3. CASE q = top + 2
      BY <1>2, <1>9, <1>10, <3>3
    <3>4. QED BY <1>11, <3>1, <3>2, <3>3
  <2>5. QED BY <1>1, <2>3, <2>4 DEF StepRoots
<1>16. StepIds
  <2>1. \A q \in 1 .. top : heap[q].id \in (0 .. minted) \cup {ForeignId}
    BY DEF DictInv, IdsAreMade
  <2>2. ForeignId > minted + 2 /\ ForeignId \notin Ids
    BY <1>2 DEF ForeignId, Ids
  <2>3. \/ c.id = minted + 1
        \/ p # 0 /\ c.id = heap[p].id /\ c.root = heap[p].root
    BY <1>3, <1>4, <1>5
  <2>4. c.id = minted + 1 => made = minted + 1
    BY <1>6
  <2>5. ASSUME NEW q \in 1 .. top'
        PROVE  heap'[q].id \in (0 .. minted') \cup {ForeignId}
    <3>1. \A i \in (0 .. minted) \cup {ForeignId} :
            i \in (0 .. made + 1) \cup {ForeignId}
      BY <1>2, <1>7
    <3>2. CASE q \in 1 .. top
      BY <1>1, <1>10, <2>1, <3>1, <3>2
    <3>3. CASE q = top + 1
      <4>1. CASE c.id = minted + 1
        BY <1>1, <1>2, <1>10, <2>4, <3>3, <4>1
      <4>2. CASE p # 0 /\ c.id = heap[p].id
        BY <1>1, <1>2, <1>10, <2>1, <3>1, <3>3, <4>2
      <4>3. QED BY <2>3, <4>1, <4>2
    <3>4. CASE q = top + 2
      BY <1>1, <1>7, <1>9, <1>10, <3>4
    <3>5. QED BY <1>11, <3>2, <3>3, <3>4
  <2>6. ASSUME NEW q \in 1 .. top', heap'[q].id \in 1 .. minted
        PROVE  \E t \in 1 .. top : heap[t].id = heap'[q].id /\ heap[t].root = heap'[q].root
    <3>1. q # top + 2
      BY <1>2, <1>7, <1>9, <1>10, <2>6
    <3>2. CASE q = top + 1
      BY <1>2, <1>10, <2>2, <2>3, <2>6, <3>2
    <3>3. CASE q \in 1 .. top
      BY <1>10, <3>3
    <3>4. QED BY <1>11, <3>1, <3>2, <3>3
  <2>7. ASSUME NEW q \in 1 .. top', heap'[q].id \in Ids, heap'[q].id > minted
        PROVE  \/ q = top + 1 /\ heap'[q].id = minted + 1 /\ made = minted + 1
               \/ q = top + 2 /\ heap'[q].id = made + 1
    <3>1. q \notin 1 .. top
      BY <1>2, <1>10, <2>1, <2>2, <2>7
    <3>2. CASE q = top + 1
      <4>1. CASE c.id = minted + 1
        BY <1>10, <2>4, <3>2, <4>1
      <4>2. CASE p # 0 /\ c.id = heap[p].id
        BY <1>2, <1>10, <2>1, <2>2, <2>7, <3>2, <4>2
      <4>3. QED BY <2>3, <4>1, <4>2
    <3>3. CASE q = top + 2
      BY <1>9, <1>10, <3>3
    <3>4. QED BY <1>11, <3>1, <3>2, <3>3
  <2>8. \A r, s \in 1 .. top' :
          (heap'[r].id \in Ids /\ heap'[r].id > minted /\ heap'[s].id = heap'[r].id) =>
            heap'[r].root = heap'[s].root
    <3> SUFFICES ASSUME NEW r \in 1 .. top', NEW s \in 1 .. top',
                        heap'[r].id \in Ids, heap'[r].id > minted,
                        heap'[s].id = heap'[r].id
                 PROVE  r = s
      OBVIOUS
    <3>1. \/ r = top + 1 /\ heap'[r].id = minted + 1 /\ made = minted + 1
          \/ r = top + 2 /\ heap'[r].id = made + 1
      BY <2>7
    <3>2. \/ s = top + 1 /\ heap'[s].id = minted + 1 /\ made = minted + 1
          \/ s = top + 2 /\ heap'[s].id = made + 1
      BY <2>7
    <3>3. QED BY <1>2, <1>7, <3>1, <3>2
  <2>9. QED BY <2>5, <2>6, <2>8 DEF StepIds
<1>17. StepActors
  <2>1. c.actor # Nobody => c.actor \in users'[c.root]
    <3>1. c.actor # Nobody => /\ CopyOf(p).root \in 1 .. top
                              /\ CopyOf(p).actor \in users[CopyOf(p).root]
      BY <1>2, <1>4, <1>5, CopyActor
    <3>2. QED BY <1>4, <1>5, <1>12, <3>1 DEF UsersGrow
  <2>2. \A q \in top + 1 .. top' : q = top + 1 \/ q = top + 2
    BY <1>1, <1>2
  <2>3. QED BY <1>9, <1>10, <1>12, <2>1, <2>2 DEF StepActors, UsersGrow
<1>18. StepDocuments
  <2>1. \A q \in top + 1 .. top' : q = top + 1 \/ q = top + 2
    BY <1>1, <1>2
  <2>2. \A q \in 1 .. top : heap'[q].as = heap[q].as
    BY <1>10
  <2>3. \A i \in Ids :
          \/ documents'[i] = documents[i]
          \/ documents'[i] = top + 2 /\ heap'[top + 2].as = i
    BY <1>9, <1>10, <1>13
  <2>4. heap'[top + 1].as = 0
    BY <1>5, <1>10
  <2>5. documents'[heap'[top + 2].as] = top + 2
    BY <1>7, <1>9, <1>10, <1>13
  <2>6. top + 2 \in top + 1 .. top'
    BY <1>1, <1>2
  <2>7. heap'[top + 2].as = heap'[top + 2].id
    BY <1>9, <1>10
  <2>8. QED BY <2>1, <2>2, <2>3, <2>4, <2>5, <2>6, <2>7 DEF StepDocuments
<1>19. QED BY <1>14, <1>15, <1>16, <1>17, <1>18 DEF DictStep

-----------------------------------------------------------------------------
(***************************************************************************)
(* What the dictionaries say.                                              *)
(***************************************************************************)

\* What the actors do to the entries of the dictionaries: they fill in what is
\* absent, a copy under an old id says what its original says, and all the
\* dictionaries under a new one say the same.
StepContents ==
  /\ UNCHANGED editVars
  /\ \A r \in 1 .. top : Kept(heap[r], heap'[r])
  /\ \A r \in 1 .. top' : heap'[r].id \in Ids => heap'[r].type # "none"
  /\ \A r \in 1 .. top' :
       heap'[r].id \in 1 .. minted /\ heap'[r].type # "Tombstone" =>
         \E q \in 1 .. top : SameContents(heap'[r], heap[q])
  /\ \A r, s \in 1 .. top' :
       (heap'[r].id \in Ids /\ heap'[r].id > minted /\ heap'[s].id = heap'[r].id)
         => SameContents(heap'[r], heap'[s])

ContentsInv == IdsHaveTypes /\ FamilyAgrees /\ PublishedHaveIds /\ PostsAreKept

LEMMA StepContentsKeeps ==
  ASSUME TypeOK, DictInv, ContentsInv, DictStep, StepContents, UNCHANGED sent
  PROVE  ContentsInv'
<1> USE ActorsAssumption DEF ActorsAssumption
<1>1. /\ top \in Nat /\ top' \in Nat /\ top <= top' /\ minted \in Nat
      /\ UNCHANGED <<edits, changed>>
  BY DEF TypeOK, DictStep, StepTyped, StepContents, editVars
<1>2. IdsHaveTypes'
  BY DEF StepContents, IdsHaveTypes, Ids
<1>3. /\ \A r \in 1 .. top : heap'[r].root = heap[r].root /\ heap'[r].as = heap[r].as
      /\ \A r \in 1 .. top : Kept(heap[r], heap'[r])
  BY DEF DictStep, StepRoots, StepDocuments, StepContents
<1>4. PublishedHaveIds'
  <2> SUFFICES ASSUME NEW r \in 1 .. top', heap'[r].as # 0, heap'[r].root \notin changed'
               PROVE  heap'[r].id = heap'[r].as
    BY DEF PublishedHaveIds
  <2>1. CASE r \in 1 .. top
    <3>1. heap[r].id = heap[r].as /\ heap[r].as # 0
      BY <1>1, <1>3, <2>1 DEF ContentsInv, PublishedHaveIds
    <3>2. QED BY <1>3, <2>1, <3>1 DEF Kept
  <2>2. CASE r \in top + 1 .. top'
    BY <2>2 DEF DictStep, StepDocuments
  <2>3. QED BY <1>1, <2>1, <2>2
<1>5. FamilyAgrees'
  <2> SUFFICES ASSUME NEW r \in 1 .. top', NEW s \in 1 .. top',
                      heap'[r].id \in Ids, heap'[r].id = heap'[s].id,
                      heap'[r].root \notin changed',
                      heap'[r].type # "Tombstone", heap'[s].type # "Tombstone"
               PROVE  SameContents(heap'[r], heap'[s])
    BY DEF FamilyAgrees, Ids
  <2>1. CASE heap'[r].id > minted
    BY <2>1 DEF StepContents
  <2>2. CASE heap'[r].id \in 1 .. minted
    <3>1. PICK q \in 1 .. top : SameContents(heap'[r], heap[q])
      BY <2>2 DEF StepContents
    <3>2. PICK t \in 1 .. top : SameContents(heap'[s], heap[t])
      BY <2>2 DEF StepContents
    <3>3. PICK u \in 1 .. top : heap[u].id = heap'[r].id /\ heap[u].root = heap'[r].root
      BY <2>2 DEF DictStep, StepIds
    <3>4. heap[q].root = heap'[r].root
      BY <3>1, <3>3 DEF DictInv, OneFamilyPerId, SameContents
    <3>5. SameContents(heap[q], heap[t])
      <4>1. /\ heap[q].id \in Ids /\ heap[q].id = heap[t].id
            /\ heap[q].type # "Tombstone" /\ heap[t].type # "Tombstone"
        BY <3>1, <3>2 DEF SameContents
      <4>2. heap[q].root \notin changed
        BY <1>1, <3>4
      <4>3. FamilyAgrees
        BY DEF ContentsInv
      <4>4. QED BY <4>1, <4>2, <4>3 DEF FamilyAgrees
    <3>6. QED BY <3>1, <3>2, <3>5 DEF SameContents
  <2>3. QED BY <1>1, <2>1, <2>2 DEF Ids
<1>6. PostsAreKept'
  <2> SUFFICES ASSUME NEW m \in sent
               PROVE  /\ m.ref \in DOMAIN m.was /\ DOMAIN m.was \subseteq 1 .. top'
                      /\ m.edits \in 0 .. edits'
                      /\ m.edits = edits' =>
                           \A x \in DOMAIN m.was : Kept(m.was[x], heap'[x])
                      /\ (heap'[m.ref].as # 0 /\ heap'[m.ref].root \notin changed') =>
                           m.was[m.ref].id = heap'[m.ref].as /\ m.was[m.ref].type # "none"
    BY DEF PostsAreKept
  <2>1. /\ m.ref \in DOMAIN m.was /\ DOMAIN m.was \subseteq 1 .. top
        /\ m.edits \in 0 .. edits
        /\ m.edits = edits => \A x \in DOMAIN m.was : Kept(m.was[x], heap[x])
        /\ (heap[m.ref].as # 0 /\ heap[m.ref].root \notin changed) =>
             m.was[m.ref].id = heap[m.ref].as /\ m.was[m.ref].type # "none"
    BY DEF ContentsInv, PostsAreKept
  <2>2. \A x \in 1 .. top : x \in 1 .. top'
    BY <1>1
  <2>3. ASSUME NEW x \in DOMAIN m.was, m.edits = edits
        PROVE  Kept(m.was[x], heap'[x])
    <3>1. Kept(m.was[x], heap[x]) /\ Kept(heap[x], heap'[x])
      BY <1>3, <2>1, <2>3
    <3>2. QED BY <3>1 DEF Kept
  <2>4. heap'[m.ref].as = heap[m.ref].as /\ heap'[m.ref].root = heap[m.ref].root
    BY <1>3, <2>1
  <2>5. DOMAIN m.was \subseteq 1 .. top' /\ m.edits \in 0 .. edits'
    BY <1>1, <2>1, <2>2
  <2>6. (heap'[m.ref].as # 0 /\ heap'[m.ref].root \notin changed') =>
          m.was[m.ref].id = heap'[m.ref].as /\ m.was[m.ref].type # "none"
    BY <1>1, <2>1, <2>4
  <2>7. edits' = edits
    BY <1>1
  <2>8. QED BY <2>1, <2>3, <2>5, <2>6, <2>7
<1>7. QED BY <1>2, <1>4, <1>5, <1>6 DEF ContentsInv

\* What the shared steps fill in.
LEMMA FillsIn ==
  ASSUME NEW d \in Dict, NEW t \in Types, NEW i \in Ids, NEW n \in Names
  PROVE  /\ Kept(d, WithType(d, t))
         /\ WithType(d, t).type = IF d.type = "none" THEN t ELSE d.type
         /\ Kept(d, WithId(d, i)) /\ WithId(d, i).type = d.type
         /\ Kept(d, WithActor(d, n)) /\ WithActor(d, n).type = d.type
         /\ Kept(d, Published(d)) /\ Published(d).type = d.type
         /\ SameContents(Published(d), d)
BY DEF Kept, SameContents, WithType, WithId, WithActor, Published, Dict

LEMMA KeptTwice ==
  ASSUME NEW a, NEW b, NEW c, Kept(a, b), Kept(b, c) PROVE Kept(a, c)
BY DEF Kept

LEMMA CompletedFillsIn ==
  ASSUME NEW d \in Dict, NEW n \in Names
  PROVE  /\ Kept(d, Completed(d, n))
         /\ Completed(d, n).type = IF d.type = "none" THEN "Create" ELSE d.type
<1> DEFINE e == WithType(d, "Create")
<1>1. e \in Dict /\ Kept(d, e) /\ e.type = IF d.type = "none" THEN "Create" ELSE d.type
  BY WithTypeFacts, FillsIn DEF Types, WithType, Kept, Dict
<1> HIDE DEF e
<1>2. Kept(e, WithActor(e, n)) /\ WithActor(e, n).type = e.type
  BY <1>1 DEF Kept, WithActor, Dict
<1>3. Completed(d, n) = WithActor(e, n)
  BY DEF Completed, e
<1>4. QED BY <1>1, <1>2, <1>3, KeptTwice

LEMMA CopyFillsIn ==
  ASSUME TypeOK, NEW p \in 1 .. top
  PROVE  /\ CopyOf(p) \in Dict
         /\ Kept(heap[p], CopyOf(p)) /\ SameContents(CopyOf(p), heap[p])
<1>1. heap[p] \in Dict /\ p # 0
  BY ActorsAssumption DEF TypeOK, Refs, ActorsAssumption
<1>2. CopyOf(p) = [heap[p] EXCEPT !.as = 0]
  BY <1>1 DEF CopyOf
<1>3. QED BY <1>1, <1>2 DEF Dict, Kept, SameContents

LEMMA MadeFillsIn ==
  ASSUME TypeOK, Room(1), NEW p \in 0 .. top, NEW withId \in BOOLEAN
  PROVE  LET o == MadeObject(p, withId)
         IN  Kept(CopyOf(p), o) /\ o.type # "none"
<1> DEFINE d == WithType(CopyOf(p), "Note")
<1>1. CopyOf(p) \in Dict /\ minted + 1 \in Ids
  BY CopyFacts, NewId
<1>2. d \in Dict /\ Kept(CopyOf(p), d) /\ d.type # "none"
  BY <1>1, WithTypeFacts DEF Types, WithType, Kept, Dict
<1> HIDE DEF d
<1>3. Kept(d, WithId(d, minted + 1)) /\ WithId(d, minted + 1).type = d.type
  BY <1>1, <1>2 DEF WithId, Kept, Dict
<1>4. MadeObject(p, withId) = IF withId THEN WithId(d, minted + 1) ELSE d
  BY DEF MadeObject, d
<1>5. QED BY <1>2, <1>3, <1>4, KeptTwice

\* What an operation that makes one dictionary, c, does to the contents.
Continues(c) ==
  /\ c.id \in Ids => c.type # "none"
  /\ \/ c.id \in {0, ForeignId, minted + 1}
     \/ \E q \in 1 .. top :
          c.id = heap[q].id /\ (c.type = "Tombstone" \/ SameContents(c, heap[q]))

LEMMA OneMoreContents ==
  ASSUME TypeOK, DictInv, ContentsInv, Room(1),
         NEW p \in 0 .. top, NEW s, NEW c,
         PutBack(p, s, c), top' = top + 1, UNCHANGED editVars, Continues(c),
         p # 0 =>
           /\ Kept(heap[p], s) /\ s.type # "none"
           /\ s.id = heap[p].id \/ (s.id = minted + 1 /\ SameContents(s, c))
  PROVE  StepContents
<1> USE ActorsAssumption DEF ActorsAssumption
<1>1. /\ top \in Nat /\ top + 1 <= MaxDicts /\ minted \in Nat /\ minted <= top
      /\ top + 1 \in Refs /\ heap \in [Refs -> Dict]
      /\ p # 0 => p \in Refs /\ p \in 1 .. top /\ p # top + 1
      /\ ForeignId > minted + 1 /\ ForeignId \notin Ids
  BY DEF TypeOK, Room, Refs, ForeignId, Ids
<1>2. /\ heap'[top + 1] = c
      /\ p # 0 => heap'[p] = s
      /\ \A r \in 1 .. top : r # p => heap'[r] = heap[r]
  <2>1. \A r \in 1 .. top : r \in Refs /\ r # top + 1
    BY <1>1 DEF Refs
  <2>2. CASE p = 0
    BY <1>1, <2>1, <2>2 DEF PutBack
  <2>3. CASE p # 0
    BY <1>1, <2>1, <2>3 DEF PutBack
  <2>4. QED BY <2>2, <2>3
<1>3. \A r \in 1 .. top' : r \in 1 .. top \/ r = top + 1
  BY <1>1
<1>4. \A r \in 1 .. top : heap[r].id \in Ids => heap[r].type # "none"
  BY <1>1 DEF ContentsInv, IdsHaveTypes
<1>5. \A r \in 1 .. top : heap[r].id \in (0 .. minted) \cup {ForeignId}
  BY DEF DictInv, IdsAreMade
<1>6. \A r \in 1 .. top : Kept(heap[r], heap'[r])
  <2>1. \A r \in 1 .. top : Kept(heap[r], heap[r])
    BY DEF Kept
  <2>2. QED BY <1>2, <2>1
<1>7. ASSUME NEW r \in 1 .. top', heap'[r].id \in Ids
      PROVE  heap'[r].type # "none"
  BY <1>2, <1>3, <1>4, <1>7 DEF Continues
<1>8. ASSUME NEW r \in 1 .. top', heap'[r].id \in 1 .. minted, heap'[r].type # "Tombstone"
      PROVE  \E q \in 1 .. top : SameContents(heap'[r], heap[q])
  <2>1. CASE r = top + 1
    BY <1>1, <1>2, <1>8, <2>1 DEF Continues
  <2>2. CASE r \in 1 .. top /\ r = p
    <3>1. heap'[r] = s /\ Kept(heap[r], s) /\ s.id = heap[r].id
      BY <1>1, <1>2, <1>8, <2>2
    <3>2. heap[r].type # "none"
      BY <1>1, <1>4, <1>8, <2>2, <3>1 DEF Ids
    <3>3. QED BY <2>2, <3>1, <3>2 DEF Kept, SameContents
  <2>3. CASE r \in 1 .. top /\ r # p
    BY <1>2, <2>3 DEF SameContents
  <2>4. QED BY <1>3, <2>1, <2>2, <2>3
<1>9. ASSUME NEW r \in 1 .. top', heap'[r].id \in Ids, heap'[r].id > minted
      PROVE  heap'[r].id = minted + 1 /\ SameContents(heap'[r], c)
  <2>1. \A q \in 1 .. top : ~(heap[q].id \in Ids /\ heap[q].id > minted)
    BY <1>1, <1>5
  <2>2. CASE r = top + 1
    BY <1>1, <1>2, <1>9, <2>1, <2>2 DEF Continues, SameContents, Ids
  <2>3. CASE r \in 1 .. top /\ r = p
    BY <1>1, <1>2, <1>9, <2>1, <2>3
  <2>4. CASE r \in 1 .. top /\ r # p
    BY <1>2, <1>9, <2>1, <2>4
  <2>5. QED BY <1>3, <2>2, <2>3, <2>4
<1>10. \A r, t \in 1 .. top' :
         (heap'[r].id \in Ids /\ heap'[r].id > minted /\ heap'[t].id = heap'[r].id)
           => SameContents(heap'[r], heap'[t])
  <2> SUFFICES ASSUME NEW r \in 1 .. top', NEW t \in 1 .. top',
                      heap'[r].id \in Ids, heap'[r].id > minted, heap'[t].id = heap'[r].id
               PROVE  SameContents(heap'[r], heap'[t])
    OBVIOUS
  <2>1. SameContents(heap'[r], c) /\ SameContents(heap'[t], c)
    BY <1>9
  <2>2. QED BY <2>1 DEF SameContents
<1>11. QED BY <1>6, <1>7, <1>8, <1>10 DEF StepContents

\* A copy that has been filled in.
LEMMA CopyContinues ==
  ASSUME TypeOK, DictInv, ContentsInv, Room(1), NEW p \in 0 .. top, NEW e,
         Kept(CopyOf(p), e), e.type # "none",
         e.id = CopyOf(p).id \/ e.id = minted + 1
  PROVE  Continues(e)
<1>1. p # 0 => p \in 1 .. top
  BY ActorsAssumption DEF TypeOK, ActorsAssumption
<1>2. CASE e.id = minted + 1
  BY <1>2 DEF Continues
<1>3. CASE e.id = CopyOf(p).id /\ p = 0
  BY <1>3, CopyFacts DEF Continues
<1>4. CASE e.id = CopyOf(p).id /\ p # 0
  <2>1. Kept(heap[p], CopyOf(p)) /\ SameContents(CopyOf(p), heap[p])
    BY <1>1, <1>4, CopyFillsIn
  <2>2. e.id = heap[p].id
    BY <1>4, <2>1 DEF SameContents
  <2>3. heap[p].id \in Ids \cup {0, ForeignId}
    <3>1. heap[p] \in Dict
      BY <1>1, <1>4, ActorsAssumption DEF TypeOK, Refs, ActorsAssumption
    <3>2. QED BY <3>1 DEF Dict
  <2>4. CASE heap[p].id \in Ids
    <3>1. heap[p].type # "none"
      BY <1>1, <1>4, <2>4 DEF ContentsInv, IdsHaveTypes
    <3>2. SameContents(e, heap[p])
      BY <2>1, <2>2, <3>1 DEF SameContents, Kept
    <3>3. QED BY <1>1, <1>4, <2>2, <3>2 DEF Continues
  <2>5. CASE heap[p].id \in {0, ForeignId}
    BY <2>2, <2>5 DEF Continues
  <2>6. QED BY <2>3, <2>4, <2>5
<1>5. QED BY <1>2, <1>3, <1>4

\* A step that fills in one dictionary, or none, and makes none.
LEMMA NoMoreContents ==
  ASSUME TypeOK, DictInv, ContentsInv, UNCHANGED <<editVars, top, minted>>,
         \A r \in 1 .. top :
           /\ Kept(heap[r], heap'[r]) /\ heap'[r].id = heap[r].id
  PROVE  StepContents
<1>1. \A r \in 1 .. top : heap[r].id \in (0 .. minted) \cup {ForeignId}
  BY DEF DictInv, IdsAreMade
<1>2. ForeignId \notin Ids /\ minted \in Nat
  BY ActorsAssumption DEF ForeignId, Ids, TypeOK, ActorsAssumption
<1>3. \A r \in 1 .. top : heap[r].id \in Ids => heap[r].type # "none"
  BY DEF ContentsInv, IdsHaveTypes
<1>4. \A r \in 1 .. top : heap[r].id \in Ids =>
        heap'[r].type # "none" /\ SameContents(heap'[r], heap[r])
  BY <1>3 DEF Kept, SameContents
<1>5. \A r \in 1 .. top : ~(heap'[r].id \in Ids /\ heap'[r].id > minted)
  BY <1>1, <1>2
<1>6. \A r \in 1 .. top : heap'[r].id \in 1 .. minted => heap[r].id \in Ids
  BY <1>2, ActorsAssumption DEF Ids, TypeOK, ActorsAssumption
<1>7. QED BY <1>4, <1>5, <1>6 DEF StepContents

LEMMA MakeObjectContents ==
  ASSUME TypeOK, DictInv, ContentsInv, NEW p \in Props, NEW withId \in BOOLEAN,
         MakeObject(p, withId)
  PROVE  StepContents
<1> DEFINE o == MadeObject(p, withId)
<1>1. Room(1) /\ Put(top + 1, o) /\ top' = top + 1 /\ UNCHANGED editVars
  BY DEF MakeObject
<1>2. p \in 0 .. top /\ 0 \in 0 .. top
  BY ActorsAssumption DEF Props, TypeOK, ActorsAssumption
<1>3. /\ Kept(CopyOf(p), o) /\ o.type # "none"
      /\ o.id = CopyOf(p).id \/ o.id = minted + 1
  BY <1>1, <1>2, MadeFacts, MadeFillsIn
<1>4. PutBack(0, 0, o)
  BY <1>1 DEF Put, PutBack
<1> HIDE DEF o
<1>5. Continues(o)
  BY <1>1, <1>2, <1>3, CopyContinues
<1>6. QED BY <1>1, <1>2, <1>4, <1>5, OneMoreContents

LEMMA SetupObjectContents ==
  ASSUME TypeOK, DictInv, ContentsInv, NEW h \in Handles, NEW p \in Props,
         NEW withId \in BOOLEAN, SetupObject(h, p, withId)
  PROVE  StepContents
<1> DEFINE o == MadeObject(p, withId)
           e == Published(o)
<1>1. Room(1) /\ Put(top + 1, e) /\ top' = top + 1 /\ UNCHANGED editVars
  BY DEF SetupObject
<1>2. p \in 0 .. top /\ 0 \in 0 .. top
  BY ActorsAssumption DEF Props, TypeOK, ActorsAssumption
<1>3. /\ o \in Dict /\ Kept(CopyOf(p), o) /\ o.type # "none"
      /\ o.id = CopyOf(p).id \/ o.id = minted + 1
  BY <1>1, <1>2, MadeFacts, MadeFillsIn
<1>4. PutBack(0, 0, e)
  BY <1>1 DEF Put, PutBack
<1> HIDE DEF o
<1>5. Kept(o, e) /\ e.type = o.type /\ e.id = o.id
  BY <1>3 DEF Published, Kept, Dict
<1> HIDE DEF e
<1>6. Kept(CopyOf(p), e)
  BY <1>3, <1>5, KeptTwice
<1>7. Continues(e)
  BY <1>1, <1>2, <1>3, <1>5, <1>6, CopyContinues
<1>8. QED BY <1>1, <1>2, <1>4, <1>7, OneMoreContents

\* The dictionary of the caller and the activity say the same.
LEMMA CompletedAlike ==
  ASSUME TypeOK, Room(1), NEW p \in 0 .. top, NEW n \in Names
  PROVE  LET c == Completed(CopyOf(p), n)
             s == Completed(heap[p], n)
         IN  /\ c \in Dict /\ Kept(CopyOf(p), c) /\ c.type # "none"
             /\ c.id = CopyOf(p).id
             /\ p # 0 =>
                  /\ s \in Dict /\ Kept(heap[p], s) /\ s.type # "none"
                  /\ s.id = heap[p].id /\ SameContents(s, c)
<1> DEFINE c == Completed(CopyOf(p), n)
           s == Completed(heap[p], n)
<1>1. CopyOf(p) \in Dict
  BY CopyFacts
<1>2. /\ c \in Dict /\ Kept(CopyOf(p), c) /\ c.id = CopyOf(p).id
      /\ c.type = IF CopyOf(p).type = "none" THEN "Create" ELSE CopyOf(p).type
  BY <1>1, CompletedFacts, CompletedFillsIn
<1>3. CASE p = 0
  BY <1>2, <1>3
<1>4. CASE p # 0
  <2>1. p \in 1 .. top /\ heap[p] \in Dict
    BY <1>4, ActorsAssumption DEF TypeOK, Refs, ActorsAssumption
  <2>2. SameContents(CopyOf(p), heap[p])
    BY <2>1, CopyFillsIn
  <2>3. /\ s \in Dict /\ Kept(heap[p], s) /\ s.id = heap[p].id
        /\ s.type = IF heap[p].type = "none" THEN "Create" ELSE heap[p].type
    BY <2>1, CompletedFacts, CompletedFillsIn
  <2> HIDE DEF c, s
  <2>4. SameContents(s, c)
    BY <1>2, <2>2, <2>3 DEF SameContents, Kept
  <2>5. s.type # "none" /\ c.type # "none"
    BY <1>2, <2>3
  <2>6. QED BY <1>2, <2>3, <2>4, <2>5 DEF c, s
<1>5. QED BY <1>3, <1>4

LEMMA MakeActivityContents ==
  ASSUME TypeOK, DictInv, ContentsInv, NEW n \in Names, NEW p \in Props,
         NEW withId \in BOOLEAN, MakeActivity(n, p, withId)
  PROVE  StepContents
<1> DEFINE c == Completed(CopyOf(p), n)
           s == Completed(heap[p], n)
           a == IF withId THEN WithId(c, minted + 1) ELSE c
           t == IF p = 0 THEN Blank ELSE s
<1>1. /\ Room(1) /\ top' = top + 1 /\ UNCHANGED editVars
      /\ PutBack(p, t, a)
  BY DEF MakeActivity
<1>2. p \in 0 .. top /\ minted + 1 \in Ids
  BY <1>1, NewId DEF Props
<1>3. /\ c \in Dict /\ Kept(CopyOf(p), c) /\ c.type # "none" /\ c.id = CopyOf(p).id
      /\ p # 0 => /\ Kept(heap[p], s) /\ s.type # "none" /\ s.id = heap[p].id
  BY <1>1, <1>2, CompletedAlike
<1> HIDE DEF c, s
<1>4. /\ Kept(c, a) /\ a.type = c.type
      /\ a.id = c.id \/ a.id = minted + 1
  BY <1>2, <1>3 DEF WithId, Kept, Dict
<1> HIDE DEF a
<1>5. Kept(CopyOf(p), a)
  BY <1>3, <1>4, KeptTwice
<1>6. Continues(a)
  BY <1>1, <1>2, <1>3, <1>4, <1>5, CopyContinues
<1>7. p # 0 => Kept(heap[p], t) /\ t.type # "none" /\ t.id = heap[p].id
  BY <1>3
<1> HIDE DEF t
<1>8. QED BY <1>1, <1>2, <1>6, <1>7, OneMoreContents

LEMMA SetupActivityContents ==
  ASSUME TypeOK, DictInv, ContentsInv, NEW h \in Handles, NEW p \in Props,
         SetupActivity(h, p)
  PROVE  StepContents
<1> DEFINE n == NameOf[h]
           c == Completed(CopyOf(p), n)
           s == Completed(heap[p], n)
           b == WithId(s, minted + 1)
           a == WithId(c, minted + 1)
           e == Published(a)
<1>1. /\ Room(1) /\ p # 0 /\ top' = top + 1 /\ UNCHANGED editVars
      /\ PutBack(p, b, e)
  BY DEF SetupActivity
<1>2. p \in 0 .. top /\ n \in Names /\ minted + 1 \in Ids
  BY <1>1, NamesAreNames, NewId DEF Props
<1> HIDE DEF n
<1>3. /\ c \in Dict /\ Kept(CopyOf(p), c) /\ c.type # "none" /\ c.id = CopyOf(p).id
      /\ s \in Dict /\ Kept(heap[p], s) /\ s.type # "none" /\ s.id = heap[p].id
      /\ SameContents(s, c)
  BY <1>1, <1>2, CompletedAlike
<1> HIDE DEF c, s
<1>4. /\ a \in Dict /\ Kept(c, a) /\ a.type = c.type
      /\ a.id = IF c.id = 0 THEN minted + 1 ELSE c.id
      /\ a.object = c.object /\ a.to = c.to
  BY <1>2, <1>3 DEF WithId, Kept, Dict
<1>5. /\ Kept(s, b) /\ b.type = s.type
      /\ b.id = IF s.id = 0 THEN minted + 1 ELSE s.id
      /\ b.object = s.object /\ b.to = s.to
  BY <1>2, <1>3 DEF WithId, Kept, Dict
<1> HIDE DEF a, b
<1>6. Kept(a, e) /\ e.type = a.type /\ e.id = a.id /\ e.object = a.object /\ e.to = a.to
  BY <1>4 DEF Published, Kept, Dict
<1> HIDE DEF e
<1>7. Kept(CopyOf(p), e)
  <2>1. Kept(c, e)
    BY <1>4, <1>6, KeptTwice
  <2>2. QED BY <1>3, <2>1, KeptTwice
<1>8. Continues(e)
  BY <1>1, <1>2, <1>3, <1>4, <1>6, <1>7, CopyContinues
<1>9. Kept(heap[p], b)
  BY <1>3, <1>5, KeptTwice
<1>10. SameContents(b, e)
  BY <1>3, <1>4, <1>5, <1>6 DEF SameContents
<1>11. QED BY <1>1, <1>2, <1>3, <1>5, <1>8, <1>9, <1>10, OneMoreContents

LEMMA DeleteObjectContents ==
  ASSUME TypeOK, DictInv, ContentsInv, NEW h \in Handles, NEW r \in 1 .. top,
         DeleteObject(h, r)
  PROVE  StepContents
<1> DEFINE d == [Blank EXCEPT !.id = heap[r].id, !.type = "Tombstone",
                              !.root = heap[r].root]
           e == Published(d)
<1>1. Room(1) /\ Put(top + 1, e) /\ top' = top + 1 /\ UNCHANGED editVars
  BY DEF DeleteObject
<1>2. heap[r] \in Dict
  BY ActorsAssumption DEF TypeOK, Refs, ActorsAssumption
<1>3. d \in Dict /\ d.id = heap[r].id /\ d.type = "Tombstone"
  BY <1>2, BlankTyped DEF Dict, Types
<1> HIDE DEF d
<1>4. e.id = heap[r].id /\ e.type = "Tombstone"
  BY <1>3 DEF Published, Dict
<1> HIDE DEF e
<1>5. PutBack(0, 0, e) /\ 0 \in 0 .. top
  BY <1>1, ActorsAssumption DEF Put, PutBack, TypeOK, ActorsAssumption
<1>6. Continues(e)
  BY <1>4 DEF Continues
<1>7. QED BY <1>1, <1>5, <1>6, OneMoreContents

\* Operations that make a dictionary without an id of the suite.
LEMMA ForeignContents ==
  ASSUME TypeOK, DictInv, ContentsInv, Room(1), NEW p \in 0 .. top, NEW s, NEW d,
         PutBack(p, s, d), top' = top + 1, UNCHANGED editVars, d.id \in {0, ForeignId},
         p # 0 => Kept(heap[p], s) /\ s.type # "none" /\ s.id = heap[p].id
  PROVE  StepContents
<1>1. 0 \notin Ids /\ ForeignId \notin Ids
  BY NewId
<1>2. Continues(d)
  BY <1>1 DEF Continues
<1>3. QED BY <1>2, OneMoreContents

LEMMA LiteralContents ==
  ASSUME TypeOK, DictInv, ContentsInv, NEW l \in Literals, NEW nested \in Props,
         Literal(l, nested)
  PROVE  StepContents
<1> DEFINE d == [Blank EXCEPT !.type = l.type, !.actor = l.actor,
                              !.object = nested, !.to = l.to, !.root = top + 1]
<1>1. Room(1) /\ Put(top + 1, d) /\ top' = top + 1 /\ UNCHANGED editVars
  BY DEF Literal
<1>2. d.id = 0
  BY DEF Blank
<1> HIDE DEF d
<1>3. PutBack(0, 0, d) /\ 0 \in 0 .. top
  BY <1>1, ActorsAssumption DEF Put, PutBack, TypeOK, ActorsAssumption
<1>4. QED BY <1>1, <1>2, <1>3, ForeignContents

LEMMA LocalSetupObjectContents ==
  ASSUME TypeOK, DictInv, ContentsInv, NEW p \in Props, LocalSetupObject(p)
  PROVE  StepContents
<1> DEFINE o == WithType(CopyOf(p), "Note")
           d == Stored(o.type, o.actor, o.to)
<1>1. Room(1) /\ Put(top + 1, d) /\ top' = top + 1 /\ UNCHANGED editVars
  BY DEF LocalSetupObject
<1>2. d.id = ForeignId
  BY DEF Stored, Blank
<1> HIDE DEF d
<1>3. PutBack(0, 0, d) /\ 0 \in 0 .. top
  BY <1>1, ActorsAssumption DEF Put, PutBack, TypeOK, ActorsAssumption
<1>4. QED BY <1>1, <1>2, <1>3, ForeignContents

LEMMA LocalSetupActivityContents ==
  ASSUME TypeOK, DictInv, ContentsInv, NEW p \in Props, LocalSetupActivity(p)
  PROVE  StepContents
<1> DEFINE c == Completed(CopyOf(p), Local)
           s == Completed(heap[p], Local)
           d == Stored(c.type, c.actor, AddressedTo(c))
<1>1. Room(1) /\ p # 0 /\ PutBack(p, s, d) /\ top' = top + 1 /\ UNCHANGED editVars
  BY DEF LocalSetupActivity
<1>2. d.id = ForeignId
  BY DEF Stored, Blank
<1> HIDE DEF d
<1>3. p \in 0 .. top /\ Local \in Names
  BY NamesAreNames DEF Props
<1>4. Kept(heap[p], s) /\ s.type # "none" /\ s.id = heap[p].id
  BY <1>1, <1>3, CompletedAlike
<1> HIDE DEF s
<1>5. QED BY <1>1, <1>2, <1>3, <1>4, ForeignContents

LEMMA SetupRaisesContents ==
  ASSUME TypeOK, DictInv, ContentsInv, NEW n \in Names, NEW p \in Props,
         SetupRaises(n, p)
  PROVE  StepContents
<1>1. /\ heap' = [r \in Refs |-> IF r = p THEN Completed(heap[r], n) ELSE heap[r]]
      /\ UNCHANGED <<editVars, top, minted>>
  BY DEF SetupRaises
<1>2. ASSUME NEW r \in 1 .. top
      PROVE  Kept(heap[r], heap'[r]) /\ heap'[r].id = heap[r].id
  <2>1. r \in Refs /\ heap[r] \in Dict
    BY ActorsAssumption DEF TypeOK, Refs, ActorsAssumption
  <2>2. CASE r = p
    BY <1>1, <2>1, <2>2, CompletedFacts, CompletedFillsIn
  <2>3. CASE r # p
    BY <1>1, <2>1, <2>3 DEF Kept
  <2>4. QED BY <2>2, <2>3
<1>3. QED BY <1>1, <1>2, NoMoreContents

LEMMA SetupCollectionContents ==
  ASSUME TypeOK, DictInv, ContentsInv, NEW h \in Handles, NEW p \in Props,
         SetupCollection(h, p)
  PROVE  StepContents
<1> DEFINE b == WithId(CopyOf(p), minted + 1)
           c == WithType(b, "Collection")
           made == Mints(c)
           d == [Blank EXCEPT !.type = "Create", !.actor = NameOf[h],
                              !.object = top + 1, !.root = top + 2, !.id = made + 1]
           e == Published(d)
<1>1. /\ Room(2) /\ top' = top + 2 /\ UNCHANGED editVars
      /\ heap' = [heap EXCEPT ![top + 1] = c, ![top + 2] = e]
  BY DEF SetupCollection
<1>2. /\ p \in 0 .. top /\ minted + 1 \in Ids /\ Room(1)
      /\ top \in Nat /\ minted \in Nat /\ minted <= top
      /\ top + 1 \in Refs /\ top + 2 \in Refs /\ heap \in [Refs -> Dict]
      /\ 1 .. top \subseteq Refs /\ ForeignId \notin Ids /\ ForeignId > minted + 2
  <2>1. /\ MaxDicts \in Nat /\ top \in Nat /\ top + 2 <= MaxDicts /\ ~failed
        /\ minted \in Nat /\ minted <= top /\ heap \in [Refs -> Dict]
    BY <1>1, ActorsAssumption DEF Room, TypeOK, ActorsAssumption
  <2>2. QED BY <2>1 DEF Props, Ids, Refs, Room, ForeignId
<1>3. CopyOf(p) \in Dict
  BY <1>2, CopyFacts
<1>4. /\ b \in Dict /\ Kept(CopyOf(p), b)
      /\ b.id = CopyOf(p).id \/ b.id = minted + 1
  BY <1>2, <1>3 DEF WithId, Kept, Dict
<1> HIDE DEF b
<1>5. c \in Dict /\ Kept(b, c) /\ c.id = b.id /\ c.type # "none"
  BY <1>4 DEF WithType, Kept, Dict, Types
<1> HIDE DEF c
<1>6. Kept(CopyOf(p), c)
  BY <1>4, <1>5, KeptTwice
<1>7. Continues(c)
  BY <1>2, <1>4, <1>5, <1>6, CopyContinues
<1>8. made = IF c.id = minted + 1 THEN minted + 1 ELSE minted
  BY DEF Mints
<1> HIDE DEF made
<1>9. d.type = "Create" /\ d.id = made + 1
  BY BlankTyped DEF Blank
<1> HIDE DEF d
<1>10. e.type = "Create" /\ e.id = made + 1
  BY <1>9 DEF Published
<1> HIDE DEF e
<1>11. /\ heap'[top + 1] = c /\ heap'[top + 2] = e
       /\ \A r \in 1 .. top : heap'[r] = heap[r]
       /\ \A r \in 1 .. top' : r \in 1 .. top \/ r = top + 1 \/ r = top + 2
  BY <1>1, <1>2
<1>12. \A r \in 1 .. top :
         /\ heap[r].id \in (0 .. minted) \cup {ForeignId}
         /\ heap[r].id \in Ids => heap[r].type # "none"
  BY DEF DictInv, IdsAreMade, ContentsInv, IdsHaveTypes
<1>13. \A r \in 1 .. top : Kept(heap[r], heap'[r])
  BY <1>11 DEF Kept
<1>14. \A r \in 1 .. top' : heap'[r].id \in Ids => heap'[r].type # "none"
  BY <1>5, <1>10, <1>11, <1>12
<1>15. ASSUME NEW r \in 1 .. top', heap'[r].id \in 1 .. minted,
              heap'[r].type # "Tombstone"
       PROVE  \E q \in 1 .. top : SameContents(heap'[r], heap[q])
  <2>1. CASE r \in 1 .. top
    BY <1>11, <2>1 DEF SameContents
  <2>2. CASE r = top + 1
    BY <1>2, <1>7, <1>11, <1>15, <2>2 DEF Continues
  <2>3. CASE r = top + 2
    BY <1>2, <1>8, <1>10, <1>11, <1>15, <2>3
  <2>4. QED BY <1>11, <2>1, <2>2, <2>3
<1>16. \A r, t \in 1 .. top' :
         (heap'[r].id \in Ids /\ heap'[r].id > minted /\ heap'[t].id = heap'[r].id)
           => SameContents(heap'[r], heap'[t])
  <2> SUFFICES ASSUME NEW r \in 1 .. top', NEW t \in 1 .. top',
                      heap'[r].id \in Ids, heap'[r].id > minted, heap'[t].id = heap'[r].id
               PROVE  SameContents(heap'[r], heap'[t])
    OBVIOUS
  <2>1. \A q \in 1 .. top : ~(heap[q].id \in Ids /\ heap[q].id > minted)
    BY <1>2, <1>12
  <2>2. r \notin 1 .. top /\ t \notin 1 .. top
    BY <1>11, <2>1
  <2>3. c.id # e.id \/ c.id \notin Ids
    <3>1. CASE c.id = minted + 1
      BY <1>2, <1>8, <1>10, <3>1
    <3>2. CASE c.id # minted + 1
      BY <1>8, <1>10, <3>2
    <3>3. QED BY <3>1, <3>2
  <2>4. r = t
    BY <1>11, <2>2, <2>3
  <2>5. QED BY <2>4 DEF SameContents
<1>17. QED BY <1>1, <1>13, <1>14, <1>15, <1>16 DEF StepContents

-----------------------------------------------------------------------------
\* A change by the test is recorded, and its posts before it promise nothing
\* any more.
LEMMA AssignContents ==
  ASSUME TypeOK, DictInv, ContentsInv, NEW r \in 1 .. top,
         NEW entry \in {"id", "actor", "to"}, Assign(r, entry)
  PROVE  ContentsInv' /\ edits' \in Nat /\ changed' \subseteq Refs
<1> DEFINE d == Edited(heap[r], entry)
<1>1. /\ heap' = [heap EXCEPT ![r] = d] /\ UNCHANGED <<top, sent>>
      /\ edits' = edits + 1 /\ changed' = changed \cup {heap[r].root}
  BY DEF Assign, Put
<1>2. /\ heap[r] \in Dict /\ heap[r].root \in 1 .. top /\ edits \in Nat
      /\ heap \in [Refs -> Dict] /\ 1 .. top \subseteq Refs /\ changed \subseteq Refs
  BY ActorsAssumption
     DEF DictInv, RootsAreThere, TypeOK, Refs, ActorsAssumption
<1>3. /\ d.root = heap[r].root /\ d.as = heap[r].as /\ d.type = heap[r].type
      /\ d.id \in {heap[r].id, ForeignId}
  BY <1>2 DEF Edited, Dict
<1> HIDE DEF d
<1>4. ForeignId \notin Ids
  BY ActorsAssumption DEF ForeignId, Ids, ActorsAssumption
<1>5. /\ heap'[r] = d
      /\ \A q \in 1 .. top : q # r => heap'[q] = heap[q]
  BY <1>1, <1>2
<1>6. \A q \in 1 .. top :
        /\ heap'[q].root = heap[q].root /\ heap'[q].as = heap[q].as
        /\ heap'[q].type = heap[q].type
        /\ heap'[q].id = heap[q].id \/ heap'[q].id = ForeignId
        /\ heap'[q].root \notin changed' => heap'[q] = heap[q] /\ heap[q].root \notin changed
  BY <1>1, <1>3, <1>5
<1>7. IdsHaveTypes'
  BY <1>1, <1>4, <1>6 DEF ContentsInv, IdsHaveTypes, Ids
<1>8. FamilyAgrees'
  <2> SUFFICES ASSUME NEW q \in 1 .. top, NEW s \in 1 .. top,
                      heap'[q].id \in Ids, heap'[q].id = heap'[s].id,
                      heap'[q].root \notin changed',
                      heap'[q].type # "Tombstone", heap'[s].type # "Tombstone"
               PROVE  SameContents(heap'[q], heap'[s])
    BY <1>1 DEF FamilyAgrees, Ids
  <2>1. heap'[q] = heap[q] /\ heap[q].root \notin changed
    BY <1>6
  <2>2. heap[s].id = heap[q].id
    BY <1>4, <1>6, <2>1
  <2>3. heap[s].root = heap[q].root
    BY <2>1, <2>2 DEF DictInv, OneFamilyPerId
  <2>4. heap'[s] = heap[s]
    BY <1>6, <2>1, <2>3
  <2>5. QED BY <2>1, <2>4 DEF ContentsInv, FamilyAgrees
<1>9. PublishedHaveIds'
  BY <1>1, <1>6 DEF ContentsInv, PublishedHaveIds
<1>10. PostsAreKept'
  <2> SUFFICES ASSUME NEW m \in sent
               PROVE  /\ m.ref \in DOMAIN m.was /\ DOMAIN m.was \subseteq 1 .. top
                      /\ m.edits \in 0 .. edits'
                      /\ m.edits = edits' =>
                           \A x \in DOMAIN m.was : Kept(m.was[x], heap'[x])
                      /\ (heap'[m.ref].as # 0 /\ heap'[m.ref].root \notin changed') =>
                           m.was[m.ref].id = heap'[m.ref].as /\ m.was[m.ref].type # "none"
    BY <1>1 DEF PostsAreKept
  <2>1. /\ m.ref \in DOMAIN m.was /\ DOMAIN m.was \subseteq 1 .. top
        /\ m.edits \in 0 .. edits
        /\ (heap[m.ref].as # 0 /\ heap[m.ref].root \notin changed) =>
             m.was[m.ref].id = heap[m.ref].as /\ m.was[m.ref].type # "none"
    BY DEF ContentsInv, PostsAreKept
  <2>2. m.edits \in 0 .. edits' /\ m.edits # edits'
    BY <1>1, <1>2, <2>1
  <2>3. QED BY <1>6, <2>1, <2>2
<1>11. QED BY <1>1, <1>2, <1>7, <1>8, <1>9, <1>10 DEF ContentsInv

-----------------------------------------------------------------------------
(***************************************************************************)
(* The invariant.                                                          *)
(***************************************************************************)

\* The conjuncts of the invariant, by what they are about.
Whole == TypeOK /\ DictInv /\ ContentsInv /\ KeysInStep /\ SentAreThere

LEMMA WholeIsIInv == IInv <=> Whole
BY DEF IInv, Whole, DictInv, ContentsInv

\* Steps that leave the dictionaries and what is published alone.
LEMMA DictFrame ==
  ASSUME DictInv, UNCHANGED <<dictVars, documents>> PROVE DictInv'
BY DEF DictInv, dictVars, IdsAreMade, RootsAreThere, DocumentsAreThere,
       OneFamilyPerId, SetupIsServed, ActivityNamesItsActor, PublishedInFamily

LEMMA ContentsFrame ==
  ASSUME ContentsInv, UNCHANGED <<dictVars, editVars, sent>> PROVE ContentsInv'
BY DEF ContentsInv, dictVars, editVars, IdsHaveTypes, FamilyAgrees,
       PublishedHaveIds, PostsAreKept

\* The dictionaries of every step other than the three below.
LEMMA DictStepTyped ==
  ASSUME TypeOK, DictStep, failed' \in BOOLEAN, edits' \in Nat, changed' \subseteq Refs,
         UNCHANGED <<profiles, actorVars, sent>>
  PROVE  TypeOK'
<1>1. /\ top \in Nat /\ minted \in Nat
  BY ActorsAssumption DEF TypeOK, ActorsAssumption
<1>2. top' \in 0 .. MaxDicts /\ minted' \in 0 .. top'
  BY <1>1, ActorsAssumption DEF DictStep, StepTyped, ActorsAssumption
<1>3. QED BY <1>2 DEF TypeOK, DictStep, StepTyped, actorVars

LEMMA KeysFrame ==
  ASSUME KeysInStep, UNCHANGED <<profiles, actorVars, sent>> PROVE KeysInStep'
BY DEF KeysInStep, Have, actorVars

\* Dictionaries that were sent stay in the heap.
LEMMA SentFrame ==
  ASSUME TypeOK, SentAreThere, UNCHANGED sent, top' \in top .. MaxDicts
  PROVE  SentAreThere'
BY ActorsAssumption DEF SentAreThere, TypeOK, ActorsAssumption

LEMMA InitHolds == Init => Whole
<1> SUFFICES ASSUME Init PROVE Whole
  OBVIOUS
<1> USE ActorsAssumption DEF ActorsAssumption
<1>1. TypeOK
  <2>1. /\ top \in 0 .. MaxDicts /\ minted \in 0 .. top
        /\ keys \in Nat /\ edits \in Nat /\ changed \subseteq Refs
    BY DEF Init
  <2>2. heap \in [Refs -> Dict] /\ documents \in [Ids -> Refs \cup {0}]
    BY BlankTyped DEF Init
  <2>3. /\ profiles \in [Names -> Nat] /\ actors \in [Handles -> Nat]
        /\ users \in [Refs -> SUBSET (Names \cup {Several})]
    BY DEF Init
  <2>4. failed \in BOOLEAN /\ sent = {}
    BY DEF Init
  <2>5. QED BY <2>1, <2>2, <2>3, <2>4 DEF TypeOK
<1>2. DictInv
  BY DEF Init, DictInv, IdsAreMade, RootsAreThere, DocumentsAreThere,
         OneFamilyPerId, SetupIsServed, ActivityNamesItsActor, PublishedInFamily
<1>3. KeysInStep /\ SentAreThere
  BY DEF Init, KeysInStep, Have, SentAreThere
<1>4. ContentsInv
  BY DEF Init, ContentsInv, IdsHaveTypes, FamilyAgrees, PublishedHaveIds, PostsAreKept
<1>5. QED BY <1>1, <1>2, <1>3, <1>4 DEF Whole

LEMMA GetRemoteActorStep ==
  ASSUME TypeOK, KeysInStep, NEW h \in Handles, GetRemoteActor(h)
  PROVE  TypeOK' /\ KeysInStep'
<1>1. /\ keys' = KeyPair /\ actors' = [actors EXCEPT ![h] = KeyPair]
      /\ profiles' = [profiles EXCEPT ![NameOf[h]] = KeyPair]
      /\ UNCHANGED <<edits, changed, failed, dictVars, documents, sent>>
  BY DEF GetRemoteActor, editVars
<1>2. /\ KeyPair \in Nat /\ KeyPair # 0
      /\ keys # 0 => KeyPair = keys
  BY DEF KeyPair, TypeOK
<1>3. \A k \in Handles : NameOf[k] \in Names
  BY NamesAreNames
<1>4. TypeOK'
  BY <1>1, <1>2, <1>3 DEF TypeOK, dictVars
<1>5. ASSUME NEW k \in Handles, actors'[k] # 0
      PROVE  actors'[k] = keys' /\ profiles'[NameOf[k]] = keys'
  <2>1. CASE k = h
    BY <1>1, <1>3, <2>1 DEF TypeOK
  <2>2. CASE k # h
    <3>1. actors'[k] = actors[k] /\ actors[k] # 0 /\ actors[k] \in Nat
      BY <1>1, <1>5, <2>2 DEF TypeOK
    <3>2. actors[k] = keys /\ profiles[NameOf[k]] = keys
      BY <3>1 DEF KeysInStep, Have
    <3>3. QED BY <1>1, <1>2, <1>3, <3>1, <3>2 DEF TypeOK
  <2>3. QED BY <2>1, <2>2
<1>6. ASSUME NEW m \in sent', m.key # 0
      PROVE  m.key = keys' /\ profiles'[m.name] = keys'
  <2>1. m \in sent /\ m.name \in Names /\ m.key \in Nat
    BY <1>1 DEF TypeOK
  <2>2. m.key = keys /\ profiles[m.name] = keys
    BY <1>6, <2>1 DEF KeysInStep
  <2>3. QED BY <1>1, <1>2, <1>6, <2>1, <2>2 DEF TypeOK
<1>7. QED BY <1>4, <1>5, <1>6 DEF KeysInStep, Have

LEMMA NextTestStep ==
  ASSUME TypeOK, NextTest
  PROVE  Whole'
<1> USE ActorsAssumption DEF ActorsAssumption
<1>1. TypeOK'
  <2>1. /\ top' \in 0 .. MaxDicts /\ minted' \in 0 .. top'
        /\ keys' \in Nat /\ edits' \in Nat /\ changed' \subseteq Refs
    BY DEF NextTest, TypeOK
  <2>2. heap' \in [Refs -> Dict] /\ documents' \in [Ids -> Refs \cup {0}]
    BY BlankTyped DEF NextTest
  <2>3. /\ profiles' \in [Names -> Nat] /\ actors' \in [Handles -> Nat]
        /\ users' \in [Refs -> SUBSET (Names \cup {Several})]
    BY DEF NextTest
  <2>4. failed' \in BOOLEAN /\ sent' = {}
    BY DEF NextTest
  <2>5. QED BY <2>1, <2>2, <2>3, <2>4 DEF TypeOK
<1>2. DictInv'
  BY DEF NextTest, DictInv, IdsAreMade, RootsAreThere, DocumentsAreThere,
         OneFamilyPerId, SetupIsServed, ActivityNamesItsActor, PublishedInFamily
<1>3. KeysInStep' /\ SentAreThere'
  BY DEF NextTest, KeysInStep, Have, SentAreThere
<1>4. ContentsInv'
  BY DEF NextTest, ContentsInv, IdsHaveTypes, FamilyAgrees, PublishedHaveIds,
         PostsAreKept
<1>5. QED BY <1>1, <1>2, <1>3, <1>4 DEF Whole

\* A signed post carries the key of an actor that there is, and a post what
\* the dictionaries say at its moment.
LEMMA PostStep ==
  ASSUME Whole, NEW h \in Handles, NEW r \in 1 .. top, NEW raises \in BOOLEAN,
         Post(h, r, raises)
  PROVE  Whole'
<1> USE DEF Whole
<1> DEFINE was == [x \in Within(r) |-> heap[x]]
           e == [ref |-> r, was |-> was,
                 edits |-> edits, name |-> NameOf[h],
                 key |-> IF h \in Unsigned THEN 0 ELSE actors[h]]
<1>1. /\ sent' = sent \cup {e} /\ failed' = raises
      /\ UNCHANGED <<editVars, dictVars, serverVars, actorVars>>
  BY DEF Post
<1>2. /\ r \in Refs /\ NameOf[h] \in Names /\ actors[h] \in Nat /\ edits \in Nat
  BY NamesAreNames, ActorsAssumption DEF TypeOK, Refs, ActorsAssumption
<1>3. /\ DOMAIN was \subseteq 1 .. top /\ r \in DOMAIN was
      /\ \A x \in DOMAIN was : was[x] = heap[x]
  BY DEF Within
<1> HIDE DEF was
<1>4. /\ e.ref = r /\ e.name = NameOf[h] /\ e.was = was /\ e.edits = edits
      /\ e.key \in Nat
      /\ e.key # 0 => e.key = actors[h]
  BY <1>2
<1> HIDE DEF e
<1>5. TypeOK'
  <2>1. \A m \in sent' : m.ref \in Refs /\ m.name \in Names /\ m.key \in Nat
    BY <1>1, <1>2, <1>4 DEF TypeOK
  <2>2. QED BY <1>1, <2>1 DEF TypeOK, editVars, dictVars, serverVars, actorVars
<1>6. \A k \in Handles : actors'[k] # 0 => actors'[k] = keys' /\ profiles'[NameOf[k]] = keys'
  BY <1>1 DEF KeysInStep, Have, serverVars, actorVars
<1>7. \A m \in sent' : m.key # 0 => m.key = keys' /\ profiles'[m.name] = keys'
  BY <1>1, <1>4, <1>6 DEF KeysInStep, serverVars, actorVars
<1>8. SentAreThere'
  BY <1>1, <1>4 DEF SentAreThere, dictVars
<1>9. DictInv'
  BY <1>1, DictFrame DEF serverVars
<1>10. /\ e.ref \in DOMAIN e.was /\ DOMAIN e.was \subseteq 1 .. top
       /\ e.edits \in 0 .. edits
       /\ \A x \in DOMAIN e.was : Kept(e.was[x], heap[x])
       /\ (heap[e.ref].as # 0 /\ heap[e.ref].root \notin changed) =>
            e.was[e.ref].id = heap[e.ref].as /\ e.was[e.ref].type # "none"
  <2>1. \A x \in DOMAIN was : Kept(was[x], heap[x])
    BY <1>3 DEF Kept
  <2>2. (heap[r].as # 0 /\ heap[r].root \notin changed) =>
          heap[r].id = heap[r].as /\ heap[r].type # "none"
    <3>1. heap[r].as \in Ids \cup {0}
      <4>1. heap[r] \in Dict
        BY <1>2 DEF TypeOK
      <4>2. QED BY <4>1 DEF Dict
    <3>2. QED BY <3>1 DEF ContentsInv, PublishedHaveIds, IdsHaveTypes
  <2>3. e.edits \in 0 .. edits
    BY <1>2, <1>4
  <2>4. QED BY <1>3, <1>4, <2>1, <2>2, <2>3
<1>11. ContentsInv'
  <2>1. IdsHaveTypes' /\ FamilyAgrees' /\ PublishedHaveIds'
    BY <1>1 DEF ContentsInv, dictVars, editVars, IdsHaveTypes, FamilyAgrees,
                PublishedHaveIds
  <2>2. PostsAreKept'
    <3>1. PostsAreKept
      BY DEF ContentsInv
    <3>2. UNCHANGED <<heap, top, edits, changed>>
      BY <1>1 DEF dictVars, editVars
    <3>3. QED BY <1>1, <1>10, <3>1, <3>2 DEF PostsAreKept
  <2>3. QED BY <2>1, <2>2 DEF ContentsInv
<1>12. QED BY <1>5, <1>6, <1>7, <1>8, <1>9, <1>11 DEF KeysInStep, Have

LEMMA StepHolds == Whole /\ [Next]_vars => Whole'
<1> SUFFICES ASSUME Whole, [Next]_vars PROVE Whole'
  OBVIOUS
<1> USE DEF Whole
<1>1. ASSUME DictStep, StepContents, failed' \in BOOLEAN,
             UNCHANGED <<profiles, actorVars, sent>>
      PROVE  Whole'
  <2>1. top' \in top .. MaxDicts
    BY <1>1 DEF DictStep, StepTyped
  <2>2. edits' \in Nat /\ changed' \subseteq Refs
    BY <1>1 DEF StepContents, editVars, TypeOK
  <2>3. TypeOK'
    BY <1>1, <2>2, DictStepTyped
  <2>4. ContentsInv'
    BY <1>1, StepContentsKeeps
  <2>5. QED BY <1>1, <2>1, <2>3, <2>4, DictStepKeeps, KeysFrame, SentFrame
<1>2. failed \in BOOLEAN
  BY DEF TypeOK
<1>3. CASE NextTest
  BY <1>3, NextTestStep
<1>4. ASSUME NEW l \in Literals, NEW nested \in Props, Literal(l, nested)
      PROVE  Whole'
  <2>1. failed' \in BOOLEAN /\ UNCHANGED <<profiles, actorVars, sent>>
    BY <1>2, <1>4 DEF Literal, serverVars
  <2>2. QED BY <1>1, <1>4, <2>1, LiteralStep, LiteralContents
<1>5. ASSUME NEW p \in Props, NEW withId \in BOOLEAN, MakeObject(p, withId)
      PROVE  Whole'
  <2>1. failed' \in BOOLEAN /\ UNCHANGED <<profiles, actorVars, sent>>
    BY <1>2, <1>5 DEF MakeObject, serverVars
  <2>2. QED BY <1>1, <1>5, <2>1, MakeObjectStep, MakeObjectContents
<1>6. ASSUME NEW p \in Props, NEW withId \in BOOLEAN, NEW n \in Makers,
             MakeActivity(n, p, withId)
      PROVE  Whole'
  <2>1. n \in Names
    BY NamesAreNames DEF Makers
  <2>2. failed' \in BOOLEAN /\ UNCHANGED <<profiles, actorVars, sent>>
    BY <1>2, <1>6 DEF MakeActivity, serverVars
  <2>3. QED BY <1>1, <1>6, <2>1, <2>2, MakeActivityStep, MakeActivityContents
<1>7. ASSUME NEW r \in 1 .. top, NEW entry \in {"id", "actor", "to"}, Assign(r, entry)
      PROVE  Whole'
  <2>1. failed' \in BOOLEAN /\ UNCHANGED <<profiles, actorVars, sent>>
    BY <1>2, <1>7 DEF Assign, serverVars
  <2>2. DictStep /\ ContentsInv' /\ edits' \in Nat /\ changed' \subseteq Refs
    BY <1>7, AssignStep, AssignContents
  <2>3. top' \in top .. MaxDicts
    BY <2>2 DEF DictStep, StepTyped
  <2>4. QED BY <2>1, <2>2, <2>3, DictStepKeeps, DictStepTyped, KeysFrame, SentFrame
<1>8. ASSUME NEW r \in 1 .. top, NEW h \in Handles, DeleteObject(h, r)
      PROVE  Whole'
  <2>1. failed' \in BOOLEAN /\ UNCHANGED <<profiles, actorVars, sent>>
    BY <1>2, <1>8 DEF DeleteObject
  <2>2. QED BY <1>1, <1>8, <2>1, DeleteObjectStep, DeleteObjectContents
<1>9. ASSUME NEW r \in 1 .. top, NEW h \in Handles, NEW raises \in BOOLEAN,
             Post(h, r, raises)
      PROVE  Whole'
  BY <1>9, PostStep
<1>10. ASSUME NEW h \in Handles, GetRemoteActor(h)
       PROVE  Whole'
  <2>1. UNCHANGED <<dictVars, editVars, sent, documents>>
    BY <1>10 DEF GetRemoteActor
  <2>2. SentAreThere'
    BY <2>1 DEF dictVars, SentAreThere
  <2>3. QED BY <1>10, <2>1, <2>2, GetRemoteActorStep, DictFrame, ContentsFrame
<1>11. ASSUME NEW h \in Handles, NEW p \in Props, NEW withId \in BOOLEAN,
              SetupObject(h, p, withId)
       PROVE  Whole'
  <2>1. failed' \in BOOLEAN /\ UNCHANGED <<profiles, actorVars, sent>>
    BY <1>11 DEF SetupObject
  <2>2. QED BY <1>1, <1>11, <2>1, SetupObjectStep, SetupObjectContents
<1>12. ASSUME NEW h \in Handles, NEW p \in Props, SetupActivity(h, p)
       PROVE  Whole'
  <2>1. failed' \in BOOLEAN /\ UNCHANGED <<profiles, actorVars, sent>>
    BY <1>2, <1>12 DEF SetupActivity
  <2>2. QED BY <1>1, <1>12, <2>1, SetupActivityStep, SetupActivityContents
<1>13. ASSUME NEW h \in Handles, NEW p \in Props, SetupCollection(h, p)
       PROVE  Whole'
  <2>1. failed' \in BOOLEAN /\ UNCHANGED <<profiles, actorVars, sent>>
    BY <1>2, <1>13 DEF SetupCollection
  <2>2. QED BY <1>1, <1>13, <2>1, SetupCollectionStep, SetupCollectionContents
<1>14. ASSUME NEW p \in Props, LocalSetupActivity(p)
       PROVE  Whole'
  <2>1. failed' \in BOOLEAN /\ UNCHANGED <<profiles, actorVars, sent>>
    BY <1>2, <1>14 DEF LocalSetupActivity, serverVars
  <2>2. QED BY <1>1, <1>14, <2>1, LocalSetupActivityStep, LocalSetupActivityContents
<1>15. ASSUME NEW p \in Props, LocalSetupObject(p)
       PROVE  Whole'
  <2>1. failed' \in BOOLEAN /\ UNCHANGED <<profiles, actorVars, sent>>
    BY <1>2, <1>15 DEF LocalSetupObject, serverVars
  <2>2. QED BY <1>1, <1>15, <2>1, LocalSetupObjectStep, LocalSetupObjectContents
<1>16. ASSUME NEW p \in Props, NEW n \in Makers, SetupRaises(n, p)
       PROVE  Whole'
  <2>1. failed' \in BOOLEAN /\ UNCHANGED <<profiles, actorVars, sent>>
    BY <1>16 DEF SetupRaises, serverVars
  <2>2. n \in Names
    BY NamesAreNames DEF Makers
  <2>3. QED BY <1>1, <1>16, <2>1, <2>2, SetupRaisesStep, SetupRaisesContents
<1>17. CASE UNCHANGED vars
  <2>1. TypeOK'
    BY <1>17 DEF vars, TypeOK, editVars, dictVars, serverVars, actorVars
  <2>2. DictInv' /\ ContentsInv' /\ KeysInStep'
    BY <1>17, DictFrame, ContentsFrame, KeysFrame DEF vars, serverVars
  <2>3. SentAreThere'
    BY <1>17 DEF vars, dictVars, SentAreThere
  <2>4. QED BY <2>1, <2>2, <2>3
<1>18. QED
  BY <1>3, <1>4, <1>5, <1>6, <1>7, <1>8, <1>9, <1>10, <1>11, <1>12, <1>13,
     <1>14, <1>15, <1>16, <1>17
     DEF Next, TestStep

-----------------------------------------------------------------------------
\* Every reachable state satisfies the inductive invariant.
THEOREM Invariance == Spec => []IInv
<1>1. Init => Whole
  BY InitHolds
<1>2. Whole /\ [Next]_vars => Whole'
  BY StepHolds
<1>3. Whole => IInv
  BY WholeIsIInv
<1>4. QED BY <1>1, <1>2, <1>3, PTL DEF Spec

\* Every variable keeps its type, whatever the tests do with their
\* dictionaries.
THEOREM TypeCorrect == Spec => []TypeOK
<1>1. IInv => TypeOK
  BY DEF IInv
<1>2. QED BY <1>1, Invariance, PTL

\* An identifier of the suite's making belongs to one family of dictionaries
\* (client.py:321-328, support.py:39-71).
THEOREM IdsIdentify == Spec => []OneFamilyPerId
<1>1. IInv => OneFamilyPerId
  BY DEF IInv
<1>2. QED BY <1>1, Invariance, PTL

\* What was published last under an id is what it answers (client.py:307-331).
THEOREM SetupsAreServed == Spec => []SetupIsServed
<1>1. IInv => SetupIsServed
  BY DEF IInv
<1>2. QED BY <1>1, Invariance, PTL

\* Nobody is named in a document that was not named there or given it
\* (support.py:61-62).
THEOREM ActivitiesNameTheirActors == Spec => []ActivityNamesItsActor
<1>1. IInv => ActivityNamesItsActor
  BY DEF IInv
<1>2. QED BY <1>1, Invariance, PTL

\* The key of every signed post is in the profile of its signer
\* (client.py:63-71 and 252-263, signatures.py:29-36).
THEOREM SignersAreKnown == Spec => []SignerIsKnown
<1>1. IInv => SignerIsKnown
  BY DEF IInv, KeysInStep, SignerIsKnown
<1>2. QED BY <1>1, Invariance, PTL

\* The server under test can fetch what has been posted, with what it said:
\* until the test itself changes a dictionary the actors only fill in what is
\* absent, and publications under one id have the same contents
\* (client.py:321-328, support.py:53-62, server.py:121).
THEOREM FetchesArePosts == Spec => []FetchedIsPosted
<1>1. Whole => FetchedIsPosted
  <2> SUFFICES ASSUME Whole, NEW m \in sent, heap[m.ref].as # 0, edits = m.edits
               PROVE  LET id == heap[m.ref].as
                          posted == m.was[m.ref]
                      IN  /\ \A x \in DOMAIN m.was : Kept(m.was[x], heap[x])
                          /\ \/ heap[m.ref].root \in changed
                             \/ posted.type = "Tombstone"
                             \/ Answer(id).status = 410
                             \/ SameContents(Answer(id).body, posted)
    BY DEF FetchedIsPosted
  <2> USE DEF Whole
  <2> DEFINE id == heap[m.ref].as
             posted == m.was[m.ref]
             last == documents[id]
  <2>1. m.ref \in 1 .. top
    BY DEF SentAreThere
  <2>2. id \in Ids
    <3>1. heap[m.ref] \in Dict
      BY <2>1, ActorsAssumption DEF TypeOK, Refs, ActorsAssumption
    <3>2. QED BY <3>1 DEF Dict
  <2>3. last \in 1 .. top /\ heap[last].as = id
    <3>1. last >= m.ref /\ heap[last].as = id /\ last \in 0 .. top
      BY <2>1, <2>2 DEF DictInv, SetupIsServed, DocumentsAreThere
    <3>2. QED BY <2>1, <3>1, ActorsAssumption DEF TypeOK, ActorsAssumption
  <2>4. heap[last].root = heap[m.ref].root
    BY <2>1, <2>2, <2>3 DEF DictInv, PublishedInFamily
  <2>5. \A x \in DOMAIN m.was : Kept(m.was[x], heap[x])
    BY DEF ContentsInv, PostsAreKept
  <2>6. ASSUME heap[m.ref].root \notin changed, posted.type # "Tombstone",
               Answer(id).status # 410
        PROVE  SameContents(Answer(id).body, posted)
    <3>1. heap[m.ref].id = id /\ heap[last].id = id
      BY <2>1, <2>2, <2>3, <2>4, <2>6 DEF ContentsInv, PublishedHaveIds
    <3>2. posted.id = id /\ posted.type # "none" /\ m.ref \in DOMAIN m.was
      BY <2>6 DEF ContentsInv, PostsAreKept
    <3>3. Kept(posted, heap[m.ref])
      BY <2>5, <3>2
    <3>4. Answer(id).body = heap[last] /\ heap[last].type # "Tombstone"
      BY <2>3, <2>6 DEF Answer
    <3>5. heap[m.ref].type # "Tombstone"
      BY <2>6, <3>2, <3>3 DEF Kept
    <3>6. SameContents(heap[last], heap[m.ref])
      BY <2>1, <2>2, <2>3, <2>4, <2>6, <3>1, <3>4, <3>5 DEF ContentsInv, FamilyAgrees
    <3>7. QED BY <3>1, <3>2, <3>3, <3>4, <3>6 DEF Kept, SameContents
  <2>7. QED BY <2>5, <2>6
<1>2. QED BY <1>1, Invariance, WholeIsIInv, PTL

=============================================================================
