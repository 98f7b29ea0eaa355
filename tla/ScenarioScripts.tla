--------------------------- MODULE ScenarioScripts ---------------------------
(***************************************************************************)
(* The tests of the suite that change the server-under-test and look at    *)
(* the outcome, as scripts: what a test posts, what ActivityPub makes of   *)
(* the post, and what the test checks.  Requests that only read a          *)
(* document the test needs (a profile, a stored activity) are left out,    *)
(* and so is the skip of a test whose collection the server does not have. *)
(*                                                                         *)
(* A post carries two effects: the right one, and the wrong one that a     *)
(* server with the defect the test is aimed at lets happen instead.        *)
(***************************************************************************)
EXTENDS Sequences, TLC

\* What a post does to a collection of the server-under-test, and whether the
\* server posts something to the simulated server.
Effect(op, c, i, deliver) == [op |-> op, coll |-> c, item |-> i, deliver |-> deliver]
Nothing == Effect("none", "none", "none", FALSE)
Adds(c, i) == Effect("add", c, i, FALSE)
Removes(c, i) == Effect("remove", c, i, FALSE)
Delivers == Effect("none", "none", "none", TRUE)
AddsAndDelivers(c, i) == Effect("add", c, i, TRUE)

\* A post.  An activity that was made by make_activity is not served by the
\* simulated server, one that was made by setup_activity is.
Post(right, wrong) ==
  [do |-> "post", served |-> TRUE, right |-> right, wrong |-> wrong]
PostUnserved(right, wrong) == [Post(right, wrong) EXCEPT !.served = FALSE]
Prepare(effect) == Post(effect, effect)

\* What a check asks of the list of items.
Has(i) == [is |-> "has", arg |-> i]
Lacks(i) == [is |-> "lacks", arg |-> i]
Is(s) == [is |-> "exactly", arg |-> s]
Size(n) == [is |-> "size", arg |-> n]
First(i) == [is |-> "first", arg |-> i]
NotEmpty == [is |-> "not empty", arg |-> 0]

\* get_collection_item_uris and an assertion.
Once(c, want) == [do |-> "once", coll |-> c, want |-> want]

\* A poll whose outcome is asserted, and one whose outcome is not looked at.
Eventually(c, want) == [do |-> "poll", coll |-> c, want |-> want, checked |-> TRUE]
Poll(c, want) == [do |-> "poll", coll |-> c, want |-> want, checked |-> FALSE]

\* remote_communicator.get_most_recent_post().
Await == [do |-> "await"]

-----------------------------------------------------------------------------
(***************************************************************************)
(* Follow.                                                                 *)
(***************************************************************************)
InboxAcceptLocalFollow ==
  << Prepare(Delivers),
     Post(Adds("following", "remote"), Nothing),
     Once("following", Has("remote")) >>

InboxAcceptRemoteFollow ==
  << Prepare(Nothing),
     Post(AddsAndDelivers("followers", "remote"), Nothing),
     Once("followers", Is(<<"remote">>)) >>

InboxRejectOfLocalFollow ==
  << Prepare(Delivers),
     Post(Nothing, Adds("following", "remote")),
     Once("following", Lacks("remote")) >>

InboxUndoFollow ==
  << Prepare(Nothing),
     Prepare(AddsAndDelivers("followers", "remote")),
     Await,
     Once("followers", Has("remote")),
     Post(Removes("followers", "remote"), Nothing),
     Eventually("followers", Size(0)) >>

OutboxUndoFollow ==
  << Prepare(Delivers),
     Prepare(Adds("following", "remote")),
     Once("following", Has("remote")),
     Post(Removes("following", "remote"), Nothing),
     Once("following", Size(0)) >>

-----------------------------------------------------------------------------
(***************************************************************************)
(* Like and Announce.                                                      *)
(***************************************************************************)
InboxLikeLocal ==
  << Prepare(Adds("outbox", "create")),
     Post(Adds("likes", "like"), Nothing),
     Eventually("likes", Has("like")) >>

OutboxLikeLocal ==
  << Prepare(Adds("outbox", "create")),
     Post(Adds("liked", "note"), Nothing),
     Eventually("liked", Has("note")) >>

InboxUndoLike ==
  << Prepare(Adds("outbox", "create")),
     Prepare(Adds("likes", "like")),
     Eventually("likes", Has("like")),
     PostUnserved(Removes("likes", "like"), Nothing),
     Poll("likes", Lacks("like")) >>

OutboxUndoLike ==
  << Prepare(Adds("inbox", "create")),
     Prepare(Adds("liked", "note")),
     Eventually("liked", Has("note")),
     Post(Removes("liked", "note"), Nothing),
     Poll("liked", Lacks("note")) >>

InboxShareLocal ==
  << Prepare(Adds("outbox", "create")),
     PostUnserved(Adds("shares", "announce"), Nothing),
     Once("shares", Has("announce")) >>

-----------------------------------------------------------------------------
(***************************************************************************)
(* Delivery and Block.                                                     *)
(***************************************************************************)
OutboxDeliveryLocal ==
  << Post(Adds("inbox2", "create"), Nothing),
     Once("inbox2", Has("create")) >>

OutboxDeliveryRemote == << Post(Delivers, Nothing), Await >>

\* The inbox of the remote actor is a document of the simulated server that
\* nothing changes.  Which answer to the blocked post is right depends on the
\* configuration, and the check of it is left out.
ActorBlocking ==
  << Prepare(Adds("inbox", "create1")),
     Prepare(Adds("inbox", "create2")),
     Once("inbox", Size(2)),
     Post(Nothing, Delivers),
     Once("remoteInbox", Size(0)),
     Prepare(Nothing),
     Prepare(Adds("inbox", "create3")),
     Poll("inbox", Size(3)) >>

-----------------------------------------------------------------------------
(***************************************************************************)
(* Collections, Update and Delete.                                         *)
(***************************************************************************)
\* The collection of a remote actor is embedded in a served activity and is
\* not served itself.
InboxAdd ==
  << PostUnserved(Adds("custom", "note"), Nothing),
     Once("unserved", Has("note")) >>

InboxRemove ==
  << PostUnserved(Removes("custom", "note"), Nothing),
     Once("unserved", Size(0)) >>

OutboxAdd ==
  << Prepare(Adds("outbox", "create1")),
     Prepare(Adds("outbox", "create2")),
     Post(Adds("custom", "note"), Nothing),
     Once("custom", Has("note")) >>

OutboxRemove ==
  << Prepare(Adds("outbox", "create")),
     Prepare(Adds("custom", "note")),
     Post(Removes("custom", "note"), Nothing),
     Once("custom", Size(0)) >>

OutboxPartialUpdate ==
  << Prepare(Adds("outbox", "create")),
     Post(Adds("fields", "modified"), Nothing),
     Once("fields", Has("modified")) >>

\* The loop of the test leaves at the first document it is given, and does
\* not sleep between errors: it never waits for the deletion.
OutboxDelete ==
  << Prepare(Adds("objects", "note")),
     Once("objects", Has("note")),
     Post(Removes("objects", "note"), Nothing),
     Once("objects", Lacks("note")) >>

-----------------------------------------------------------------------------
(***************************************************************************)
(* Inbox and outbox.                                                       *)
(***************************************************************************)
OutboxPost ==
  << Post(Adds("outbox", "create"), Nothing),
     Eventually("outbox", Has("create")) >>

\* Five posts in the code; the aim is the order, and three show it.
Newest == <<"a3", "a2", "a1">>

OutboxReverseChrono ==
  << Prepare(Adds("outbox", "a1")),
     Prepare(Adds("outbox", "a2")),
     Post(Adds("outbox", "a3"), Effect("append", "outbox", "a3", FALSE)),
     Once("outbox", Is(Newest)) >>

InboxPost ==
  << Post(Adds("inbox", "create"), Nothing),
     Eventually("inbox", Has("create")) >>

InboxReverseChrono ==
  << Prepare(Adds("inbox", "a1")),
     Prepare(Adds("inbox", "a2")),
     Post(Adds("inbox", "a3"), Effect("append", "inbox", "a3", FALSE)),
     Once("inbox", Is(Newest)) >>

InboxAcceptDeduplicate ==
  << Prepare(Adds("inbox", "create")),
     Post(Nothing, Adds("inbox", "create")),
     Eventually("inbox", Has("create")),
     Once("inbox", Is(<<"create">>)) >>

\* The activity is addressed to the owner of the inbox: setting it up already
\* delivers it there, and the post that follows is a duplicate.
MultitypedActivityInbox ==
  << Post(Adds("inbox", "create"), Nothing),
     Prepare(Nothing),
     Eventually("inbox", Has("create")),
     Once("inbox", First("create")) >>

MultitypedActivityOutbox ==
  << Post(Adds("outbox", "create"), Nothing),
     Eventually("outbox", Has("create")),
     Once("outbox", First("create")) >>

\* The objects are set up by the same actor, in an outbox nobody reads.
MultitypedObjectInbox ==
  << Prepare(Nothing),
     Prepare(Nothing),
     Post(Adds("inbox", "create"), Nothing),
     Eventually("inbox", Has("create")),
     Once("inbox", First("create")) >>

\* The activity is set up, which posts it, and posted once more.
MultitypedObjectOutbox ==
  << Prepare(Adds("outbox", "object")),
     Prepare(Adds("outbox", "setup")),
     Post(Adds("outbox", "create"), Nothing),
     Eventually("outbox", Has("create")) >>

ActivityWithMultipleActors ==
  << Post(Adds("inbox", "create"), Nothing),
     Eventually("inbox", Has("create")),
     Once("inbox", NotEmpty) >>

ActivityWithMultipleObjects ==
  << Post(Adds("inbox", "create"), Nothing),
     Eventually("inbox", Has("create")),
     Once("inbox", NotEmpty) >>

-----------------------------------------------------------------------------
\* The collections a test can read.  The first ones are the server's, the
\* last one is a document of the simulated server.
OfTheServer ==
  {"following", "followers", "likes", "liked", "shares", "inbox", "inbox2",
   "outbox", "custom", "fields", "objects"}
OfTheSimulation == {"remoteInbox"}

Suite ==
  [inbox_accept_local_follow |-> InboxAcceptLocalFollow,
   inbox_accept_remote_follow |-> InboxAcceptRemoteFollow,
   inbox_reject_of_local_follow |-> InboxRejectOfLocalFollow,
   inbox_undo_follow |-> InboxUndoFollow,
   outbox_undo_follow |-> OutboxUndoFollow,
   inbox_like_local |-> InboxLikeLocal,
   outbox_like_local |-> OutboxLikeLocal,
   inbox_undo_like |-> InboxUndoLike,
   outbox_undo_like |-> OutboxUndoLike,
   inbox_share_local |-> InboxShareLocal,
   outbox_delivery_local |-> OutboxDeliveryLocal,
   outbox_delivery_remote |-> OutboxDeliveryRemote,
   actor_blocking |-> ActorBlocking,
   inbox_add |-> InboxAdd,
   inbox_remove |-> InboxRemove,
   outbox_add |-> OutboxAdd,
   outbox_remove |-> OutboxRemove,
   outbox_partial_update |-> OutboxPartialUpdate,
   outbox_delete |-> OutboxDelete,
   outbox_post |-> OutboxPost,
   outbox_reverse_chrono |-> OutboxReverseChrono,
   inbox_post |-> InboxPost,
   inbox_reverse_chrono |-> InboxReverseChrono,
   inbox_accept_deduplicate |-> InboxAcceptDeduplicate,
   multityped_activity_inbox |-> MultitypedActivityInbox,
   multityped_activity_outbox |-> MultitypedActivityOutbox,
   multityped_object_inbox |-> MultitypedObjectInbox,
   multityped_object_outbox |-> MultitypedObjectOutbox,
   activity_with_multiple_actors |-> ActivityWithMultipleActors,
   activity_with_multiple_objects |-> ActivityWithMultipleObjects]
=============================================================================
