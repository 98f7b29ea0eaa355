---------------------------- MODULE PostMailbox ----------------------------
(***************************************************************************)
(* What a test may expect of the remote communicator (interfaces.py:61-68, *)
(* RemoteCommunicator): a mailbox that collects the requests of the        *)
(* running test and is empty when the test starts, and two questions about *)
(* it.  A question is answered once some post is in the mailbox: with the  *)
(* latest post, or with the first request on a path.  It may be given up   *)
(* after a time-out.                                                       *)
(***************************************************************************)
EXTENDS Naturals, Sequences

CONSTANTS Requests, Questions

VARIABLES inbox, asking, answer

mailboxVars == <<inbox, asking, answer>>

Nothing == [kind |-> "none"]
NoQuestion == [fn |-> "none"]

Init ==
  /\ inbox = << >>
  /\ asking = NoQuestion
  /\ answer = Nothing

Deliver(r) ==
  /\ inbox' = Append(inbox, r)
  /\ UNCHANGED <<asking, answer>>

\* A new test starts with an empty mailbox.
Clear ==
  /\ asking = NoQuestion
  /\ inbox' = << >>
  /\ UNCHANGED <<asking, answer>>

Forget ==
  /\ answer' = Nothing
  /\ UNCHANGED <<inbox, asking>>

Ask(q) ==
  /\ asking = NoQuestion
  /\ asking' = q
  /\ answer' = Nothing
  /\ UNCHANGED inbox

HasPost == \E i \in 1 .. Len(inbox) : inbox[i].method = "post"

LatestPost(i) ==
  /\ inbox[i].method = "post"
  /\ \A j \in i + 1 .. Len(inbox) : inbox[j].method # "post"

FirstOn(path, i) ==
  /\ inbox[i].path = path
  /\ \A j \in 1 .. i - 1 : inbox[j].path # path

\* The answer to "which was the latest post" always exists; the answer to
\* "which request was on this path" may be none.
Answer ==
  /\ HasPost
  /\ asking' = NoQuestion
  /\ \/ /\ asking.fn = "get_most_recent_post"
        /\ \E i \in 1 .. Len(inbox) :
             /\ LatestPost(i)
             /\ answer' = [kind |-> "request", call |-> asking, req |-> inbox[i]]
     \/ /\ asking.fn = "get_request"
        /\ \E i \in 1 .. Len(inbox) :
             /\ FirstOn(asking.path, i)
             /\ answer' = [kind |-> "request", call |-> asking, req |-> inbox[i]]
     \/ /\ asking.fn = "get_request"
        /\ \A i \in 1 .. Len(inbox) : inbox[i].path # asking.path
        /\ answer' = [kind |-> "null", call |-> asking]
  /\ UNCHANGED inbox

GiveUp ==
  /\ asking # NoQuestion
  /\ asking' = NoQuestion
  /\ answer' = [kind |-> "timeout"]
  /\ UNCHANGED inbox

Next ==
  \/ \E r \in Requests : Deliver(r)
  \/ \E q \in Questions : Ask(q)
  \/ Clear
  \/ Forget
  \/ Answer
  \/ GiveUp

Spec == Init /\ [][Next]_mailboxVars
=============================================================================
