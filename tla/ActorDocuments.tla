--------------------------- MODULE ActorDocuments ---------------------------
(***************************************************************************)
(* What the actors of a test do with the dictionaries of that test         *)
(* (support.py:39-124, http/client.py:52-74 and 171-331).  A test hands a  *)
(* dictionary to an actor, which may write into it, copies it one level    *)
(* deep, and publishes the copy by reference on the simulated server.  The *)
(* server under test receives a post and fetches what the post names at    *)
(* any later moment of the test.                                           *)
(*                                                                         *)
(* A dictionary is its place in the heap; 0 stands for None and for a key  *)
(* that is absent.  "object" is the dictionary nested under that key, 0 if *)
(* there is none or only an id; "to" stands for the recipient fields, and  *)
(* for any other content.  "@context" has one value everywhere and is left *)
(* out.  Identifiers are the uuids in the order in which they are made:    *)
(* the scheme, host and path around them depend on the uuid alone.         *)
(***************************************************************************)
EXTENDS Naturals, FiniteSets

CONSTANTS
  Handles,   \* the argument lists with which remote actors are asked for
  NameOf,    \* the name of the actor that such a call returns
  Unsigned,  \* the handles of get_unauthenticated_actor
  Local,     \* the name of a local actor
  Literals,  \* what a test writes in a dictionary of its own
  MaxDicts,  \* bound: dictionaries of one test
  MaxPosts,  \* bound: posts of one test
  MaxEdits   \* bound: changes one test makes to its dictionaries itself

Refs == 1 .. MaxDicts
Ids == 1 .. MaxDicts
ForeignId == MaxDicts + 1  \* ids that the actors of the suite do not make: those
                           \* of the server under test and of the test itself
Names == {NameOf[h] : h \in Handles} \cup {Local}
Nobody == "nobody"
Several == "several"
Types == {"none", "Note", "Like", "Create", "Collection", "Tombstone"}
Recipients == {"none", "public", "followers"}

ASSUME ActorsAssumption ==
  /\ MaxDicts \in Nat /\ MaxPosts \in Nat /\ MaxEdits \in Nat
  /\ NameOf \in [Handles -> STRING] /\ Unsigned \subseteq Handles
  /\ Local \in STRING /\ Nobody \notin Names /\ Several \notin Names
  /\ Literals \subseteq [type : Types, actor : Names \cup {Nobody},
                         nests : BOOLEAN, to : Recipients]

\* The last two fields are history: the dictionary of the test that a
\* dictionary was copied from, and the id it has been published under.
Dict == [id : Ids \cup {0, ForeignId}, type : Types,
         actor : Names \cup {Nobody, Several}, object : Refs \cup {0},
         to : Recipients,
         root : Refs \cup {0}, as : Ids \cup {0}]

Blank == [id |-> 0, type |-> "none", actor |-> Nobody, object |-> 0,
          to |-> "none", root |-> 0, as |-> 0]

VARIABLES
  failed,     \* the running test has ended with an exception
  heap,       \* its dictionaries
  top,        \* how many there are
  minted,     \* uuids made in this test
  documents,  \* the dictionary published under an id, 0 if none
  profiles,   \* the key in the profile published under a name, 0 if none
  actors,     \* the key of the actor object that the lru_caches of this
              \* test's server_support hold for a handle, 0 if none
  keys,       \* key pairs generated by the process
  edits,      \* changes the test has made itself
  changed,    \* history: the dictionaries of the test whose family has been
              \* changed by the test
  sent,       \* posts of this test
  users       \* history: per dictionary of the test, the actors that it
              \* names and those that made an activity of it or a copy of it

editVars == <<edits, changed>>
dictVars == <<heap, top, minted, users>>
serverVars == <<documents, profiles>>
actorVars == <<actors, keys>>
vars == <<failed, editVars, dictVars, serverVars, actorVars, sent>>

Init ==
  /\ failed = FALSE
  /\ heap = [r \in Refs |-> Blank]
  /\ top = 0
  /\ minted = 0
  /\ documents = [i \in Ids |-> 0]
  /\ profiles = [n \in Names |-> 0]
  /\ actors = [h \in Handles |-> 0]
  /\ keys = 0
  /\ edits = 0
  /\ changed = {}
  /\ sent = {}
  /\ users = [r \in Refs |-> {}]

Room(n) == ~failed /\ top + n <= MaxDicts
\* There is an actor object for the handle.
Have(h) == actors[h] # 0
Props == 0 .. top
\* The actors there are.
Makers == {NameOf[h] : h \in {k \in Handles : Have(k)}} \cup {Local}

-----------------------------------------------------------------------------
(***************************************************************************)
(* The steps that the operations share.                                    *)
(***************************************************************************)

\* A copy of a dictionary, dict(properties or {}), in the next place.
CopyOf(p) ==
  IF p = 0 THEN [Blank EXCEPT !.root = top + 1]
           ELSE [heap[p] EXCEPT !.as = 0]

WithType(d, t) == IF d.type = "none" THEN [d EXCEPT !.type = t] ELSE d

WithId(d, i) == IF d.id = 0 THEN [d EXCEPT !.id = i] ELSE d

\* Mutant: the profile is an attribute of the class, so that every actor has
\* the name of the one that was made last.
WithActorOfClass(d, n) ==
  IF d.actor = Nobody
    THEN [d EXCEPT !.actor = IF \E h \in Handles : Have(h) /\ NameOf[h] # n
                               THEN CHOOSE m \in Names : m # n ELSE n]
    ELSE d

\* Mutant: an actor that is given is replaced.
WithActorAlways(d, n) == [d EXCEPT !.actor = n]

WithActor(d, n) == IF d.actor = Nobody THEN [d EXCEPT !.actor = n] ELSE d

\* make_activity writes the defaults into the dictionary of its caller.
Completed(d, n) == WithActor(WithType(d, "Create"), n)

\* make_object.
MadeObject(p, withId) ==
  LET d == WithType(CopyOf(p), "Note")
  IN  IF withId THEN WithId(d, minted + 1) ELSE d

Put(r, d) == heap' = [heap EXCEPT ![r] = d]

\* The copy c goes to the next place and its source p, unless it is None,
\* has become s.
PutBack(p, s, c) ==
  heap' = IF p = 0 THEN [heap EXCEPT ![top + 1] = c]
                   ELSE [heap EXCEPT ![p] = s, ![top + 1] = c]

Uses(r, n) == users' = [users EXCEPT ![r] = @ \cup {n}]

\* Mutant: a uuid is made once and used again.
MintsNever(d) == minted

Mints(d) == IF d.id = minted + 1 THEN minted + 1 ELSE minted

\* Mutant: a document that is already published stays.
ServeKeeps(i, r) ==
  documents' = [j \in Ids |-> IF j = i /\ documents[j] = 0 THEN r ELSE documents[j]]

\* serve_objects.  A foreign id never leads to the simulated server.
Serve(i, r) == documents' = [j \in Ids |-> IF j = i THEN r ELSE documents[j]]

Published(d) == IF d.id \in Ids THEN [d EXCEPT !.as = d.id] ELSE d

\* What a fetch is answered: do_GET serialises a dictionary, and those nested
\* in it, as they are at this moment.
Answer(i) ==
  IF documents[i] = 0 THEN [status |-> 404, body |-> Blank]
  ELSE [status |-> IF heap[documents[i]].type = "Tombstone" THEN 410 ELSE 200,
        body |-> heap[documents[i]]]

-----------------------------------------------------------------------------
(***************************************************************************)
(* Actors.                                                                 *)
(***************************************************************************)

\* Mutant: the key pair is not cached.
FreshKeyPair == keys + 1

\* get_key_pair is cached and always called without a name.
KeyPair == IF keys = 0 THEN 1 ELSE keys

\* The first call with a handle constructs the actor object, which publishes
\* its profile, inbox and outbox; later calls find it in the cache.  Tests ask
\* for actors through fixtures (fixtures.py:94-116), before their body runs.
GetRemoteActor(h) ==
  /\ ~failed /\ top = 0
  /\ ~Have(h)
  /\ keys' = KeyPair
  /\ actors' = [actors EXCEPT ![h] = KeyPair]
  /\ profiles' = [profiles EXCEPT ![NameOf[h]] = KeyPair]
  /\ UNCHANGED <<editVars, failed, dictVars, documents, sent>>

\* The next test, whatever became of this one: it has a server_support, and
\* so caches, of its own, and the simulated server has been reset; get_key_pair
\* keeps its cache.
NextTest ==
  /\ failed' = FALSE
  /\ heap' = [r \in Refs |-> Blank]
  /\ top' = 0
  /\ minted' = 0
  /\ users' = [r \in Refs |-> {}]
  /\ documents' = [i \in Ids |-> 0]
  /\ profiles' = [n \in Names |-> 0]
  /\ actors' = [h \in Handles |-> 0]
  /\ edits' = 0
  /\ changed' = {}
  /\ sent' = {}
  /\ UNCHANGED keys

-----------------------------------------------------------------------------
(***************************************************************************)
(* What the test does to its dictionaries.                                 *)
(***************************************************************************)
Literal(l, nested) ==
  /\ Room(1)
  /\ l.nests <=> nested # 0
  /\ top' = top + 1
  /\ Put(top + 1, [Blank EXCEPT !.type = l.type, !.actor = l.actor,
                                !.object = nested, !.to = l.to,
                                !.root = top + 1])
  /\ users' = [users EXCEPT ![top + 1] = {l.actor} \ {Nobody}]
  /\ UNCHANGED <<editVars, failed, minted, serverVars, actorVars, sent>>

\* d["id"] = ..., d["actor"] = [...], or another entry.
Edited(d, entry) ==
  CASE entry = "id" -> [d EXCEPT !.id = ForeignId]
    [] entry = "actor" -> [d EXCEPT !.actor = Several]
    [] OTHER -> [d EXCEPT !.to = "followers"]

Assign(r, entry) ==
  /\ ~failed
  /\ edits < MaxEdits
  /\ edits' = edits + 1
  /\ changed' = changed \cup {heap[r].root}
  /\ Put(r, Edited(heap[r], entry))
  /\ IF entry = "actor" THEN Uses(heap[r].root, Several) ELSE UNCHANGED users
  /\ UNCHANGED <<failed, top, minted, serverVars, actorVars, sent>>

MakeObject(p, withId) ==
  LET object == MadeObject(p, withId)
  IN  /\ Room(1)
      /\ Put(top + 1, object)
      /\ top' = top + 1
      /\ minted' = Mints(object)
      /\ UNCHANGED <<editVars, failed, users, serverVars, actorVars, sent>>

\* The activity takes over the completed dictionary of the caller; only the
\* activity gets the id.
MakeActivity(n, p, withId) ==
  LET activity == IF withId THEN WithId(Completed(CopyOf(p), n), minted + 1)
                            ELSE Completed(CopyOf(p), n)
  IN  /\ Room(1)
      /\ PutBack(p, IF p = 0 THEN Blank ELSE Completed(heap[p], n), activity)
      /\ top' = top + 1
      /\ minted' = Mints(activity)
      /\ Uses(activity.root, n)
      /\ UNCHANGED <<editVars, failed, serverVars, actorVars, sent>>

-----------------------------------------------------------------------------
(***************************************************************************)
(* Remote actors publish.                                                  *)
(***************************************************************************)

\* Without an id the object cannot be published, and the call raises.
SetupObject(h, p, withId) ==
  LET object == MadeObject(p, withId)
  IN  /\ Have(h)
      /\ Room(1)
      /\ Put(top + 1, Published(object))
      /\ Serve(object.id, top + 1)
      /\ failed' = (object.id = 0)
      /\ top' = top + 1
      /\ minted' = Mints(object)
      /\ UNCHANGED <<editVars, users, profiles, actorVars, sent>>

\* The id is written into the dictionary of the caller as well.
SetupActivity(h, p) ==
  LET n == NameOf[h]
      source == WithId(Completed(heap[p], n), minted + 1)
      activity == WithId(Completed(CopyOf(p), n), minted + 1)
  IN  /\ Have(h)
      /\ p # 0
      /\ Room(1)
      /\ PutBack(p, source, Published(activity))
      /\ Serve(activity.id, top + 1)
      /\ top' = top + 1
      /\ minted' = Mints(activity)
      /\ Uses(activity.root, n)
      /\ UNCHANGED <<editVars, failed, profiles, actorVars, sent>>

\* The collection is embedded in the activity that is published; it is not
\* published itself.
SetupCollection(h, p) ==
  LET n == NameOf[h]
      collection == WithType(WithId(CopyOf(p), minted + 1), "Collection")
      made == Mints(collection)
      activity == [Blank EXCEPT !.type = "Create", !.actor = n,
                                !.object = top + 1, !.root = top + 2,
                                !.id = made + 1]
  IN  /\ Have(h)
      /\ Room(2)
      /\ heap' = [heap EXCEPT ![top + 1] = collection,
                              ![top + 2] = Published(activity)]
      /\ Serve(made + 1, top + 2)
      /\ top' = top + 2
      /\ minted' = made + 1
      /\ Uses(top + 2, n)
      /\ UNCHANGED <<editVars, failed, profiles, actorVars, sent>>

\* delete_object publishes a tombstone under the id.
DeleteObject(h, r) ==
  /\ Have(h)
  /\ Room(1)
  /\ heap[r].id # 0
  /\ Put(top + 1, Published([Blank EXCEPT !.id = heap[r].id, !.type = "Tombstone",
                                          !.root = heap[r].root]))
  /\ Serve(heap[r].id, top + 1)
  /\ top' = top + 1
  /\ UNCHANGED <<editVars, failed, minted, users, profiles, actorVars, sent>>

-----------------------------------------------------------------------------
(***************************************************************************)
(* Local actors post, and get what the server under test has stored.       *)
(***************************************************************************)

\* What get_json returns of something of the given type and recipients.
Stored(type, actor, to) ==
  [Blank EXCEPT !.id = ForeignId, !.type = type, !.actor = actor, !.to = to,
                !.root = top + 1]

\* An activity is addressed to whom its object is addressed, if it says
\* nothing itself.
AddressedTo(activity) ==
  IF activity.to = "none" /\ activity.object # 0
    THEN heap[activity.object].to ELSE activity.to

LocalSetupActivity(p) ==
  LET activity == Completed(CopyOf(p), Local)
  IN  /\ Room(1)
      /\ p # 0
      /\ PutBack(p, Completed(heap[p], Local),
                 Stored(activity.type, activity.actor, AddressedTo(activity)))
      /\ top' = top + 1
      /\ users' = [users EXCEPT ![activity.root] = @ \cup {Local},
                               ![top + 1] = {activity.actor}]
      /\ UNCHANGED <<editVars, failed, minted, serverVars, actorVars, sent>>

\* setup_object of a local actor: the properties are copied, posted in a
\* Create, and come back with an id of the server.  setup_collection differs
\* in the default type.
LocalSetupObject(p) ==
  LET object == WithType(CopyOf(p), "Note")
  IN  /\ Room(1)
      /\ Put(top + 1, Stored(object.type, object.actor, object.to))
      /\ top' = top + 1
      /\ users' = [users EXCEPT ![top + 1] = {object.actor} \ {Nobody}]
      /\ UNCHANGED <<editVars, failed, minted, serverVars, actorVars, sent>>

\* A setup of a local actor ends the test when the post is refused, the answer
\* has no Location, the stored activity cannot be read or there are no
\* properties; what make_activity wrote into the dictionary stays.  One of a
\* remote actor does so if there are no properties, and has written nothing.
SetupRaises(n, p) ==
  /\ ~failed
  /\ failed' = TRUE
  /\ heap' = [r \in Refs |-> IF r = p THEN Completed(heap[r], n) ELSE heap[r]]
  /\ IF p = 0 THEN UNCHANGED users ELSE Uses(heap[p].root, n)
  /\ UNCHANGED <<editVars, top, minted, serverVars, actorVars, sent>>

-----------------------------------------------------------------------------
\* The dictionary r with all that is nested in it.
Within(r) ==
  {x \in 1 .. top : \A S \in SUBSET (1 .. top) :
     (r \in S /\ \A y \in S : heap[y].object \in S \cup {0}) => x \in S}

\* A remote actor posts; an error response raises, unless it is expected.
Post(h, r, raises) ==
  /\ ~failed
  /\ Have(h)
  /\ Cardinality(sent) < MaxPosts
  /\ sent' = sent \cup {[ref |-> r, was |-> [x \in Within(r) |-> heap[x]],
                         edits |-> edits, name |-> NameOf[h],
                         key |-> IF h \in Unsigned THEN 0 ELSE actors[h]]}
  /\ failed' = raises
  /\ UNCHANGED <<editVars, dictVars, serverVars, actorVars>>

-----------------------------------------------------------------------------
\* What a test does until it has ended.
TestStep ==
  \/ \E l \in Literals, nested \in Props : Literal(l, nested)
  \/ \E p \in Props, withId \in BOOLEAN :
       \/ MakeObject(p, withId)
       \/ \E n \in Makers : MakeActivity(n, p, withId)
  \/ \E r \in 1 .. top :
       \/ \E entry \in {"id", "actor", "to"} : Assign(r, entry)
       \/ \E h \in Handles :
            \/ DeleteObject(h, r)
            \/ \E raises \in BOOLEAN : Post(h, r, raises)
  \/ \E h \in Handles :
       \/ GetRemoteActor(h)
       \/ \E p \in Props :
            \/ \E withId \in BOOLEAN : SetupObject(h, p, withId)
            \/ SetupActivity(h, p)
            \/ SetupCollection(h, p)
  \/ \E p \in Props :
       \/ LocalSetupActivity(p)
       \/ LocalSetupObject(p)
       \/ \E n \in Makers : (n # Local => p = 0) /\ SetupRaises(n, p)

Next == NextTest \/ (~failed /\ TestStep)

Spec == Init /\ [][Next]_vars

-----------------------------------------------------------------------------
TypeOK ==
  /\ failed \in BOOLEAN
  /\ heap \in [Refs -> Dict]
  /\ top \in 0 .. MaxDicts
  /\ minted \in 0 .. top
  /\ documents \in [Ids -> Refs \cup {0}]
  /\ profiles \in [Names -> Nat]
  /\ actors \in [Handles -> Nat]
  /\ keys \in Nat
  /\ edits \in Nat
  /\ changed \subseteq Refs
  /\ \A m \in sent : m.ref \in Refs /\ m.name \in Names /\ m.key \in Nat
  /\ users \in [Refs -> SUBSET (Names \cup {Several})]

\* An identifier that the test suite made belongs to the dictionaries copied
\* from one dictionary of the test, and to no other (client.py:321-328,
\* support.py:39-71): two activities share an id only if the test gave the
\* same dictionary, or a copy of it, to both calls.
OneFamilyPerId ==
  \A r, s \in 1 .. top :
    heap[r].id \in Ids /\ heap[r].id = heap[s].id => heap[r].root = heap[s].root

\* What was published last under an id is what the id answers for the rest of
\* the test (client.py:307-331, docs/writing-tests.md:28: "This will ensure
\* the object can be dereferenced").
SetupIsServed ==
  \A r \in 1 .. top :
    heap[r].as # 0 =>
      /\ documents[heap[r].as] >= r
      /\ heap[documents[heap[r].as]].as = heap[r].as

\* Of a dictionary only what it lacked may be filled in.
Kept(was, is) ==
  /\ was.id # 0 => is.id = was.id
  /\ was.type # "none" => is.type = was.type
  /\ was.actor # Nobody => is.actor = was.actor
  /\ is.object = was.object /\ is.to = was.to

SameContents(d, e) ==
  d.id = e.id /\ d.type = e.type /\ d.object = e.object /\ d.to = e.to

\* From a post on, and until the test itself changes one of its dictionaries,
\* the server under test can fetch what has been posted, whatever the actors
\* write into dictionaries of the test that are published or nested in
\* published ones (client.py:321-328, support.py:53-62, server.py:121): they
\* only fill in what is absent.  And whatever is published under the same id,
\* by a setup with the dictionary of an earlier one, has the same contents
\* unless the test has changed such a dictionary or deleted the object; its
\* actor may be another one, if the two were given to different actors.
FetchedIsPosted ==
  \A m \in sent :
    LET id == heap[m.ref].as
        posted == m.was[m.ref]
    IN  (id # 0 /\ edits = m.edits) =>
          /\ \A x \in DOMAIN m.was : Kept(m.was[x], heap[x])
          /\ \/ heap[m.ref].root \in changed
             \/ posted.type = "Tombstone"
             \/ Answer(id).status = 410
             \/ SameContents(Answer(id).body, posted)

\* A dictionary names an actor only if the test has named it there or has
\* given that dictionary, or a copy of it, to that actor (support.py:61-62):
\* what one test does never puts its actors into the documents of another use.
ActivityNamesItsActor ==
  \A r \in 1 .. top :
    heap[r].actor # Nobody => heap[r].actor \in users[heap[r].root]

\* The server under test finds the key of every signed post in the profile
\* of the actor that signed it, although several actor objects may have
\* published that profile and an earlier test's may have been reset away
\* (client.py:63-71 and 252-263, signatures.py:29-36).
SignerIsKnown ==
  \A m \in sent : m.key # 0 => profiles[m.name] = m.key

-----------------------------------------------------------------------------
\* The conjuncts that make the properties above inductive.

\* Identifiers are old or of somebody else's making.
IdsAreMade ==
  \A r \in 1 .. top : heap[r].id \in (0 .. minted) \cup {ForeignId}

RootsAreThere == \A r \in 1 .. top : heap[r].root \in 1 .. top

DocumentsAreThere == \A i \in Ids : documents[i] \in 0 .. top

\* What has been published under an id stays in the family of that id, even
\* when the test has replaced the id of every dictionary that had it.
PublishedInFamily ==
  \A r \in 1 .. top :
    heap[r].as # 0 =>
      /\ heap[r].as <= minted
      /\ \A s \in 1 .. top : heap[r].as \in {heap[s].id, heap[s].as}
                               => heap[s].root = heap[r].root

SentAreThere == \A m \in sent : m.ref \in 1 .. top

\* Whoever gives a dictionary an id has given it a type.
IdsHaveTypes == \A r \in 1 .. top : heap[r].id \in Ids => heap[r].type # "none"

\* The dictionaries under one id say the same.
FamilyAgrees ==
  \A r, s \in 1 .. top :
    (/\ heap[r].id \in Ids /\ heap[r].id = heap[s].id /\ heap[r].root \notin changed
     /\ heap[r].type # "Tombstone" /\ heap[s].type # "Tombstone")
      => SameContents(heap[r], heap[s])

PublishedHaveIds ==
  \A r \in 1 .. top :
    heap[r].as # 0 /\ heap[r].root \notin changed => heap[r].id = heap[r].as

PostsAreKept ==
  \A m \in sent :
    /\ m.ref \in DOMAIN m.was /\ DOMAIN m.was \subseteq 1 .. top
    /\ m.edits \in 0 .. edits
    /\ m.edits = edits => \A x \in DOMAIN m.was : Kept(m.was[x], heap[x])
    /\ (heap[m.ref].as # 0 /\ heap[m.ref].root \notin changed) =>
         m.was[m.ref].id = heap[m.ref].as /\ m.was[m.ref].type # "none"

\* There is one key pair, and every actor that exists has published it.
KeysInStep ==
  /\ \A h \in Handles :
       Have(h) => actors[h] = keys /\ profiles[NameOf[h]] = keys
  /\ \A m \in sent :
       m.key # 0 => m.key = keys /\ profiles[m.name] = keys

IInv ==
  /\ TypeOK
  /\ IdsAreMade /\ RootsAreThere /\ DocumentsAreThere /\ KeysInStep
  /\ PublishedInFamily /\ SentAreThere
  /\ OneFamilyPerId /\ SetupIsServed /\ ActivityNamesItsActor
  /\ IdsHaveTypes /\ FamilyAgrees /\ PublishedHaveIds /\ PostsAreKept
=============================================================================
