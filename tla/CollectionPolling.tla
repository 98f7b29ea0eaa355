------------------------- MODULE CollectionPolling -------------------------
(***************************************************************************)
(* Walking and polling a collection of the server-under-test               *)
(* (support.py:130-187).  A test reads the collection document, follows    *)
(* its "first" and "next" links one request at a time and gathers the      *)
(* items; it does so several times, with a sleep after each, until a       *)
(* predicate holds of what it gathered.  The server-under-test adds and    *)
(* removes items in between, between two pages of one walk included.       *)
(*                                                                         *)
(* The walk is recursive in the code.  Here the calls that are still to be *)
(* made are a stack of frames: the document and the depth of the call.     *)
(*                                                                         *)
(* A test polls in one of two ways: "in" asserts that the target shows up  *)
(* (assert_eventually_in_collection), "out" waits until it has gone        *)
(* (wait_for_collection_state, as the tests of Undo call it).              *)
(***************************************************************************)
EXTENDS SequencesExt

CONSTANTS Items,      \* what the server-under-test may put into the collection
          Target,     \* the item the test is about
          Removable,  \* the items the server-under-test may remove
          Layouts,    \* the shapes of collections considered, see Links
          PageSize,   \* items of a page
          MaxDepth,   \* nested calls the recursion limit leaves room for
          Tries,      \* walks of a poll
          Faults      \* a request may fail

ASSUME PollingAssumption ==
  /\ Target \in Items
  /\ Removable \subseteq Items
  /\ Layouts \subseteq {"inline", "paged", "looped"}
  /\ PageSize \in Nat \ {0}
  /\ MaxDepth \in Nat \ {0}
  /\ Tries \in Nat \ {0}
  /\ Faults \in BOOLEAN

VARIABLES
  coll,     \* the collection at the server-under-test, newest item first
  used,     \* the items that have ever been in it
  layout,   \* how it is laid out in documents
  kind,     \* what the test polls for
  pc,       \* the test: walking, sleeping, judging, done
  tries,    \* walks left, the current one included
  todo,     \* calls of _get_collection_item_uris still to be made
  uris,     \* items gathered by the current walk
  outcome,  \* how the poll ended
  verdict,  \* what the test makes of it
  ever,     \* items in the collection at some time of the walk
  always,   \* items in the collection all the time of the walk
  removed   \* items removed during the walk (these three for the properties)

sutVars == <<coll, used, layout>>
testVars == <<kind, pc, tries, todo, uris, outcome, verdict>>
ghosts == <<ever, always, removed>>
vars == <<coll, used, layout, kind, pc, tries, todo, uris, outcome, verdict,
          ever, always, removed>>

\* get_collection_item_uris calls the walk for the collection itself.
TheCollection == << [doc |-> 0, depth |-> 1] >>

Init ==
  /\ coll \in { s \in SeqOf(Items, Cardinality(Items)) : IsInjective(s) }
  /\ used = ToSet(coll)
  /\ layout \in Layouts
  /\ kind \in {"in", "out"}
  /\ kind = "out" => Target \in ToSet(coll)
  /\ pc = "walk"
  /\ tries = Tries
  /\ todo = TheCollection
  /\ uris = << >>
  /\ outcome = "none"
  /\ verdict = "none"
  /\ ever = ToSet(coll)
  /\ always = ToSet(coll)
  /\ removed = {}

-----------------------------------------------------------------------------
(***************************************************************************)
(* The server-under-test.                                                  *)
(***************************************************************************)

\* The items of a document: document 0 is the collection, document k its
\* k-th page.
ItemsOf(doc) ==
  CASE layout = "inline" -> coll
    [] layout # "inline" /\ doc = 0 -> << >>
    [] OTHER -> SubSeq(coll, (doc - 1) * PageSize + 1,
                       IF doc * PageSize < Len(coll) THEN doc * PageSize
                                                     ELSE Len(coll))

\* The documents under "first" and "next", in this order.  In a looped
\* layout the pages, being collections too, repeat the link to the first one.
Links(doc) ==
  CASE layout = "inline" -> << >>
    [] layout # "inline" /\ doc = 0 -> << 1 >>
    [] OTHER -> (IF layout = "looped" THEN << 1 >> ELSE << >>)
                  \o (IF doc * PageSize < Len(coll) THEN << doc + 1 >> ELSE << >>)

AddItem(i) ==
  /\ i \notin used
  /\ coll' = << i >> \o coll
  /\ used' = used \cup {i}
  /\ ever' = IF pc = "walk" THEN ever \cup {i} ELSE ever
  /\ UNCHANGED <<layout, testVars, always, removed>>

\* The item at a place.
RemoveItem(p) ==
  /\ coll[p] \in Removable
  /\ coll' = RemoveAt(coll, p)
  /\ IF pc = "walk"
       THEN always' = always \ {coll[p]} /\ removed' = removed \cup {coll[p]}
       ELSE UNCHANGED <<always, removed>>
  /\ UNCHANGED <<used, layout, testVars, ever>>

-----------------------------------------------------------------------------
(***************************************************************************)
(* The test.                                                               *)
(***************************************************************************)

\* Mutant: only one of the two links of a document is followed.
CallsFirstOnly(frame) ==
  [ k \in 1 .. (IF frame.doc = 0 THEN Len(Links(0)) ELSE 0) |->
      [doc |-> Links(frame.doc)[k], depth |-> frame.depth + 1] ]

\* The calls a document leads to.
Calls(frame) ==
  [ k \in DOMAIN Links(frame.doc) |->
      [doc |-> Links(frame.doc)[k], depth |-> frame.depth + 1] ]

\* One call: get the document, gather its items, follow its links.
Visit ==
  /\ pc = "walk"
  /\ todo # << >>
  /\ Head(todo).depth <= MaxDepth
  /\ uris' = uris \o ItemsOf(Head(todo).doc)
  /\ todo' = Calls(Head(todo)) \o Tail(todo)
  /\ UNCHANGED <<sutVars, kind, pc, tries, outcome, verdict, ghosts>>

\* Any exception goes through the whole walk and the whole poll.
Abort ==
  /\ pc = "walk"
  /\ todo # << >>
  /\ pc' = "judge"
  /\ outcome' = "raised"
  /\ UNCHANGED <<sutVars, kind, tries, todo, uris, verdict, ghosts>>

\* RecursionError.
TooDeep == todo # << >> /\ Head(todo).depth > MaxDepth /\ Abort

\* An error status, a body that is not JSON, an item without an id.
RequestFails == Faults /\ todo # << >> /\ Head(todo).depth <= MaxDepth /\ Abort

\* Mutant: the predicate of an "out" poll looks for the target.
HoldsInverted == Target \in ToSet(uris)

\* state_predicate(uris)
Holds ==
  IF kind = "in" THEN Target \in ToSet(uris) ELSE Target \notin ToSet(uris)

\* The walk is over: break, or sleep, after the last walk too.
Evaluate ==
  /\ pc = "walk"
  /\ todo = << >>
  /\ IF Holds THEN pc' = "judge" /\ outcome' = "held"
              ELSE pc' = "sleep" /\ UNCHANGED outcome
  /\ UNCHANGED <<sutVars, kind, tries, todo, uris, verdict, ghosts>>

\* Mutant: the list of items is made once for the whole poll.
WakeKeepingItems ==
  /\ pc = "sleep"
  /\ tries > 1
  /\ tries' = tries - 1
  /\ pc' = "walk"
  /\ todo' = TheCollection
  /\ ever' = ToSet(coll)
  /\ always' = ToSet(coll)
  /\ removed' = {}
  /\ UNCHANGED <<sutVars, kind, uris, outcome, verdict>>

\* The next walk, with a list of items of its own.
Wake ==
  /\ pc = "sleep"
  /\ tries > 1
  /\ tries' = tries - 1
  /\ pc' = "walk"
  /\ todo' = TheCollection
  /\ uris' = << >>
  /\ ever' = ToSet(coll)
  /\ always' = ToSet(coll)
  /\ removed' = {}
  /\ UNCHANGED <<sutVars, kind, outcome, verdict>>

\* Mutant: the loop is not bounded.
GiveUpNever == FALSE

\* The last walk was in vain: return what it gathered.
GiveUp ==
  /\ pc = "sleep"
  /\ tries = 1
  /\ pc' = "judge"
  /\ outcome' = "gaveup"
  /\ UNCHANGED <<sutVars, kind, tries, todo, uris, verdict, ghosts>>

\* "in" asserts the membership once more; "out" looks at nothing.
Passes ==
  /\ outcome # "raised"
  /\ kind = "in" => Target \in ToSet(uris)

Judge ==
  /\ pc = "judge"
  /\ pc' = "done"
  /\ verdict' = IF Passes THEN "passed" ELSE "failed"
  /\ UNCHANGED <<sutVars, kind, tries, todo, uris, outcome, ghosts>>

Test ==
  \/ Visit
  \/ TooDeep
  \/ RequestFails
  \/ Evaluate
  \/ Wake
  \/ GiveUp
  \/ Judge

Next ==
  \/ \E i \in Items : AddItem(i)
  \/ \E p \in DOMAIN coll : RemoveItem(p)
  \/ Test

Spec == Init /\ [][Next]_vars

\* The test goes on; the server-under-test owes nothing.
FairSpec == Spec /\ WF_vars(Test)

-----------------------------------------------------------------------------
\* Nothing is gathered that was not in the collection at some time of the
\* current walk: no item of an earlier walk and no item already removed when
\* this one began (support.py:155-158).
SeenWasThere == ToSet(uris) \subseteq ever

\* A finished walk has found every item that was in the collection all the
\* time, however many were added between two pages, as long as none was
\* removed: a removal moves items to pages that have already been read
\* (support.py:160-187).
StaysSeen ==
  (pc = "sleep" /\ removed = {}) => always \subseteq ToSet(uris)

\* What a poll for the target's presence concludes is true of the last walk:
\* it passes only if the target was there, and fails without an exception
\* only if the target was not there all the time (support.py:146-153).
\* What happens after the last walk is not its concern.
PresenceIsRight ==
  (pc = "judge" /\ kind = "in") =>
    /\ outcome = "held" => Target \in ever
    /\ (outcome = "gaveup" /\ removed = {}) => Target \notin always

\* A poll for the target's absence ends with "held" only if the target was
\* absent at some time of the last walk, unless other items were removed
\* (support.py:130-144).
AbsenceIsRight ==
  (pc = "judge" /\ kind = "out" /\ outcome = "held" /\ removed \subseteq {Target})
    => Target \notin always

\* A poll ends, even on pages whose links form a loop: the recursion limit
\* ends that walk (support.py:139-144, 184-187).
PollEnds == <>(pc = "done")

\* "The previously liked object has been removed" (tests/_test_like.py:227):
\* a test that passes has seen the target go.
UndoIsChecked ==
  (pc = "done" /\ kind = "out" /\ verdict = "passed") => Target \notin ToSet(uris)

-----------------------------------------------------------------------------
\* The conjuncts that make the properties above inductive.
TypeOK ==
  /\ coll \in Seq(Items) /\ used \subseteq Items
  /\ layout \in Layouts
  /\ kind \in {"in", "out"}
  /\ pc \in {"walk", "sleep", "judge", "done"}
  /\ tries \in 1 .. Tries
  /\ todo \in Seq([doc : Nat, depth : Nat])
  /\ uris \in Seq(Items)
  /\ outcome \in {"none", "raised", "held", "gaveup"}
  /\ verdict \in {"none", "passed", "failed"}
  /\ ever \subseteq Items /\ always \subseteq Items /\ removed \subseteq Items

\* A call gathers the item at the place p, itself or by the calls it leads to.
Reaches(frame, p) ==
  \/ layout = "inline" \/ frame.doc = 0
  \/ p > (frame.doc - 1) * PageSize

\* What the history variables say of the collection.
HistoryInStep ==
  /\ ToSet(coll) \subseteq used /\ always \subseteq used
  /\ always \cap removed = {}
  /\ pc = "walk" => always \subseteq ToSet(coll) /\ ToSet(coll) \subseteq ever

\* An item that has been there all the time is gathered or still ahead of the
\* walk, which additions can only delay.
GatheredOrAhead ==
  (pc = "walk" /\ removed = {}) =>
    \A p \in DOMAIN coll :
      coll[p] \in always =>
        \/ coll[p] \in ToSet(uris)
        \/ \E k \in DOMAIN todo : Reaches(todo[k], p)

\* What the outcome of a poll says of its last walk.
OutcomeInStep ==
  /\ pc = "sleep" => ~Holds
  /\ pc = "judge" /\ outcome # "raised" =>
       /\ outcome = IF Holds THEN "held" ELSE "gaveup"
       /\ removed = {} => always \subseteq ToSet(uris)

IInv ==
  /\ TypeOK
  /\ SeenWasThere /\ StaysSeen
  /\ HistoryInStep /\ GatheredOrAhead /\ OutcomeInStep
=============================================================================
