---------------------------- MODULE RemoteServer ----------------------------
(***************************************************************************)
(* The simulated remote ActivityPub server (http/server.py) together with  *)
(* the two threads and the process that share it:                          *)
(*                                                                         *)
(*  - the TEST thread publishes documents, resets the server before each   *)
(*    test (fixtures.py:180-187) and waits for posts and requests          *)
(*    (http/client.py:77-110, 294-305);                                    *)
(*  - the SERVER thread accepts one connection at a time and runs its      *)
(*    handler to the end (http.server.HTTPServer is not threaded);         *)
(*  - the SERVER-UNDER-TEST opens connections whenever it likes.           *)
(*                                                                         *)
(* reset() does not empty the four objects the server owns: it replaces    *)
(* them, one assignment at a time, and a handler keeps the objects it was  *)
(* constructed with.  An object is therefore named by its attribute and    *)
(* its generation: generation 0 was made by __init__ and generation k by   *)
(* the k-th reset.  The test that follows the k-th reset is test k.        *)
(***************************************************************************)
EXTENDS Naturals, Sequences

CONSTANTS Urls,         \* the URLs the test publishes documents under
          Paths,        \* request paths (with their query)
          DocPath,      \* DocPath[u]: the path under which u is stored
          Sends,        \* what the server-under-test sends: method, path, kind
          NumResets,    \* bound: resets in the session
          NumConns,     \* bound: connections the server-under-test opens
          Debugging,    \* APTEST_DEBUGGING is set: wait for posts forever
          LateDelivery  \* connections of one test may outlive its end

ASSUME ConstantsAssumption ==
  /\ DocPath \in [Urls -> Paths]
  /\ Sends \subseteq [method : {"get", "post"}, path : Paths,
                      kind : {"good", "malformed", "hangup"}]
  /\ NumResets \in Nat
  /\ NumConns \in Nat
  /\ Debugging \in BOOLEAN
  /\ LateDelivery \in BOOLEAN

Attributes == {"documents", "requests", "listeners", "post_received"}

\* The order in which reset() assigns the attributes, which is also the
\* order in which the handler factory in run() reads them.
AttrOrder == <<"documents", "requests", "listeners", "post_received">>

Gen == 0 .. NumResets

Docs == {"object", "Tombstone"}
NoDoc == "none"

Methods == {"get", "post"}

(***************************************************************************)
(* A connection: its request, and (for the properties only) the test       *)
(* during which it was opened and the document its path named then.        *)
(***************************************************************************)
Conn == [id : 1 .. NumConns, method : Methods, path : Paths,
         kind : {"good", "malformed", "hangup"},
         test : Gen, doc : Docs \cup {NoDoc}]

NoConn == [id |-> 0]

Calls == {"get_most_recent_post", "get_request"}

VARIABLES
  test,        \* the last test whose reset has completed
  tpc,         \* where the test thread is
  rstep,       \* the attribute reset() assigns next
  call,        \* the call the test waits in: its name and wanted path
  outcome,     \* how the last call ended
  attr,        \* attr[a]: the generation of the object attribute a holds
  documents,   \* documents[g][p]: contents of the documents object g
  requests,    \* requests[g]: contents of the requests list g
  listening,   \* listening[g]: listeners list g holds the test's monitor
  backlog,     \* connections the server has not accepted yet
  opened,      \* every connection opened, in order (for the properties)
  hpc,         \* where the handler is
  conn,        \* the connection being handled
  cap,         \* cap[a]: generation the factory read for attribute a
  cstep,       \* the attribute the factory reads next
  status       \* HTTP status sent for conn, 0 when none

testVars == <<test, tpc, rstep, call, outcome>>
heapVars == <<attr, documents, requests, listening>>
handlerVars == <<hpc, conn, cap, cstep, status>>
vars == <<test, tpc, rstep, call, outcome, attr, documents, requests,
          listening, backlog, opened, hpc, conn, cap, cstep, status>>

NoCall == [fn |-> "none"]
NoOutcome == [kind |-> "none"]
PathList == [p \in Paths |-> NoDoc]

Posts(s) == {i \in 1 .. Len(s) : s[i].method = "post"}

Init ==
  /\ test = 0
  /\ tpc = "run"
  /\ rstep = 1
  /\ call = NoCall
  /\ outcome = NoOutcome
  /\ attr = [a \in Attributes |-> 0]
  /\ documents = [g \in Gen |-> PathList]
  /\ requests = [g \in Gen |-> << >>]
  /\ listening = [g \in Gen |-> FALSE]
  /\ backlog = << >>
  /\ opened = << >>
  /\ hpc = "idle"
  /\ conn = NoConn
  /\ cap = [a \in Attributes |-> 0]
  /\ cstep = 1
  /\ status = 0

-----------------------------------------------------------------------------
(***************************************************************************)
(* The test thread.                                                        *)
(***************************************************************************)

\* serve_document: the host and the fragment of the URL are dropped.
Serve(u, doc) ==
  /\ tpc = "run"
  /\ documents' = [documents EXCEPT ![attr["documents"]][DocPath[u]] = doc]
  /\ UNCHANGED <<testVars, attr, requests, listening, backlog, opened,
                 handlerVars>>

\* The autouse fixture calls reset() before the next test.
BeginReset ==
  /\ tpc \in {"run", "over"}
  /\ test < NumResets
  /\ LateDelivery \/ (backlog = << >> /\ hpc = "idle")
  /\ tpc' = "reset"
  /\ rstep' = 1
  /\ outcome' = NoOutcome
  /\ UNCHANGED <<test, call, heapVars, backlog, opened, handlerVars>>

\* Mutant: reset() keeps the requests list.
ResetKeepsRequests ==
  /\ tpc = "reset"
  /\ attr' = IF AttrOrder[rstep] = "requests" THEN attr
             ELSE [attr EXCEPT ![AttrOrder[rstep]] = test + 1]
  /\ IF rstep < 4
       THEN /\ rstep' = rstep + 1
            /\ UNCHANGED <<test, tpc>>
       ELSE /\ rstep' = 1
            /\ test' = test + 1
            /\ tpc' = "run"
  /\ UNCHANGED <<call, outcome, documents, requests, listening, backlog,
                 opened, handlerVars>>

\* One assignment of reset(): attribute rstep gets a new, empty object.
ResetStep ==
  /\ tpc = "reset"
  /\ attr' = [attr EXCEPT ![AttrOrder[rstep]] = test + 1]
  /\ IF rstep < 4
       THEN /\ rstep' = rstep + 1
            /\ UNCHANGED <<test, tpc>>
       ELSE /\ rstep' = 1
            /\ test' = test + 1
            /\ tpc' = "run"
  /\ UNCHANGED <<call, outcome, documents, requests, listening, backlog,
                 opened, handlerVars>>

\* Mutant: any request, not only a post, counts as received.
CallWaitAnyRequest(c) ==
  /\ tpc = "run"
  /\ call' = c
  /\ outcome' = NoOutcome
  /\ tpc' = IF requests[attr["requests"]] # << >> THEN "woken" ELSE "held"
  /\ UNCHANGED <<test, rstep, heapVars, backlog, opened, handlerVars>>

\* get_most_recent_post / get_request up to the check in _wait_for_post:
\* the lock of post_received is taken, and kept ("held") when no post is
\* there yet.
CallWait(c) ==
  /\ tpc = "run"
  /\ call' = c
  /\ outcome' = NoOutcome
  /\ tpc' = IF Posts(requests[attr["requests"]]) # {} THEN "woken" ELSE "held"
  /\ UNCHANGED <<test, rstep, heapVars, backlog, opened, handlerVars>>

\* Mutant: the wait keeps the lock.
SleepHolding ==
  /\ tpc = "held"
  /\ UNCHANGED vars

\* post_received.wait(): join the wait set and release the lock.
Sleep ==
  /\ tpc = "held"
  /\ tpc' = "asleep"
  /\ UNCHANGED <<test, rstep, call, outcome, heapVars, backlog, opened,
                 handlerVars>>

\* wait(5) returns False: "No post received in timeout period" ends the test.
Timeout ==
  /\ tpc = "asleep"
  /\ ~Debugging
  /\ tpc' = "over"
  /\ call' = NoCall
  /\ outcome' = [kind |-> "timeout"]
  /\ UNCHANGED <<test, rstep, heapVars, backlog, opened, handlerVars>>

\* The positions of s that the call may return.
Matches(s, c) ==
  IF c.fn = "get_most_recent_post"
    THEN Posts(s)
    ELSE {i \in 1 .. Len(s) : s[i].path = c.path}

\* Mutant: the list is not scanned in reverse.
PickedForward(s, c, i) ==
  /\ i \in Matches(s, c)
  /\ \A j \in Matches(s, c) : i <= j

\* get_most_recent_post takes the last match, get_request the first one.
Picked(s, c, i) ==
  /\ i \in Matches(s, c)
  /\ \A j \in Matches(s, c) :
        IF c.fn = "get_most_recent_post" THEN j <= i ELSE i <= j

\* _wait_for_post has returned: scan the list, without the lock, for the
\* answer; None when nothing matches.
Scan ==
  /\ tpc = "woken"
  /\ tpc' = "run"
  /\ call' = NoCall
  /\ LET s == requests[attr["requests"]]
     IN  \/ /\ Matches(s, call) = {}
            /\ outcome' = [kind |-> "null", call |-> call]
         \/ \E i \in 1 .. Len(s) :
              /\ Picked(s, call, i)
              /\ outcome' = [kind |-> "request", call |-> call, req |-> s[i]]
  /\ UNCHANGED <<test, rstep, heapVars, backlog, opened, handlerVars>>

\* expect_request: append the monitor to the server's listeners.
ExpectRequest ==
  /\ tpc = "run"
  /\ listening' = [listening EXCEPT ![attr["listeners"]] = TRUE]
  /\ UNCHANGED <<testVars, attr, documents, requests, backlog, opened,
                 handlerVars>>

\* wait_for_request: nothing is checked before the wait.
WaitForRequest ==
  /\ tpc = "run"
  /\ listening[attr["listeners"]]
  /\ tpc' = "awaiting"
  /\ outcome' = NoOutcome
  /\ UNCHANGED <<test, rstep, call, heapVars, backlog, opened, handlerVars>>

\* wait(15) elapses; its result is ignored and the test goes on.
RequestWaitElapses ==
  /\ tpc = "awaiting"
  /\ tpc' = "run"
  /\ outcome' = [kind |-> "elapsed"]
  /\ UNCHANGED <<test, rstep, call, heapVars, backlog, opened, handlerVars>>

-----------------------------------------------------------------------------
(***************************************************************************)
(* The server-under-test.                                                  *)
(***************************************************************************)

\* It opens a connection: a "good" one, one whose body does not parse
\* ("malformed"), or one it closes before the response is written
\* ("hangup").
Open(r) ==
  /\ Len(opened) < NumConns
  /\ LateDelivery \/ tpc # "reset"
  /\ LET c == [id |-> Len(opened) + 1, method |-> r.method, path |-> r.path,
               kind |-> r.kind, test |-> test,
               doc |-> documents[attr["documents"]][r.path]]
     IN  /\ backlog' = Append(backlog, c)
         /\ opened' = Append(opened, c)
  /\ UNCHANGED <<testVars, heapVars, handlerVars>>

-----------------------------------------------------------------------------
(***************************************************************************)
(* The server thread: serve_forever and the request handler.               *)
(***************************************************************************)

\* serve_forever accepts the oldest connection and calls the factory.
Accept ==
  /\ hpc = "idle"
  /\ backlog # << >>
  /\ conn' = Head(backlog)
  /\ backlog' = Tail(backlog)
  /\ hpc' = "capture"
  /\ UNCHANGED <<testVars, heapVars, opened, cap, cstep, status>>

\* Mutant: the factory uses the objects of the time the server was made.
CaptureAtStart ==
  /\ hpc = "capture"
  /\ cstep' = IF cstep < 4 THEN cstep + 1 ELSE 1
  /\ hpc' = IF cstep < 4 THEN "capture"
            ELSE IF conn.method = "get" THEN "record" ELSE "ack"
  /\ UNCHANGED <<testVars, heapVars, backlog, opened, conn, cap, status>>

\* The factory reads one attribute of the HTTPServer.
Capture ==
  /\ hpc = "capture"
  /\ cap' = [cap EXCEPT ![AttrOrder[cstep]] = attr[AttrOrder[cstep]]]
  /\ cstep' = IF cstep < 4 THEN cstep + 1 ELSE 1
  /\ hpc' = IF cstep < 4 THEN "capture"
            ELSE IF conn.method = "get" THEN "record" ELSE "ack"
  /\ UNCHANGED <<testVars, heapVars, backlog, opened, conn, status>>

\* The end of a handler, by return or by an exception.
Finish ==
  /\ hpc' = "idle"
  /\ conn' = NoConn
  /\ cap' = [a \in Attributes |-> 0]
  /\ status' = 0
  /\ UNCHANGED cstep

Goto(pc) ==
  /\ hpc' = pc
  /\ UNCHANGED <<conn, cap, cstep>>

\* do_POST first sends the 200 header, before it has read the body.  The
\* header is flushed: if the peer has gone that may raise, and the request is
\* never recorded.
PostAck ==
  /\ hpc = "ack"
  /\ \/ status' = 200 /\ Goto("record")
     \/ conn.kind = "hangup" /\ Finish
  /\ UNCHANGED <<testVars, heapVars, backlog, opened>>

\* Mutants: the request goes to the first list ever made; GETs are not logged.
RecordAtStart ==
  /\ hpc = "record"
  /\ requests' = [requests EXCEPT ![0] = Append(@, conn)]
  /\ Goto(IF conn.method = "get" THEN "lookup" ELSE "ok")
  /\ UNCHANGED <<testVars, attr, documents, listening, backlog, opened, status>>

RecordPostsOnly ==
  /\ hpc = "record"
  /\ requests' = IF conn.method = "get" THEN requests
                 ELSE [requests EXCEPT ![cap["requests"]] = Append(@, conn)]
  /\ Goto(IF conn.method = "get" THEN "lookup" ELSE "ok")
  /\ UNCHANGED <<testVars, attr, documents, listening, backlog, opened, status>>

\* Append to the captured requests list.  A POST whose body cannot be read
\* raises before that, and its handler ends.
Record ==
  /\ hpc = "record"
  /\ IF conn.method = "post" /\ conn.kind = "malformed"
       THEN Finish /\ UNCHANGED requests
       ELSE /\ requests' = [requests EXCEPT ![cap["requests"]] =
                              Append(@, conn)]
            /\ Goto(IF conn.method = "get" THEN "lookup" ELSE "ok")
            /\ UNCHANGED status
  /\ UNCHANGED <<testVars, attr, documents, listening, backlog, opened>>

\* do_GET looks the path up in the captured documents and sends the header,
\* which may raise if the peer has gone.
StatusOf(doc) ==
  CASE doc = NoDoc -> 404 [] doc = "Tombstone" -> 410 [] OTHER -> 200

Lookup ==
  /\ hpc = "lookup"
  /\ \/ /\ status' = StatusOf(documents[cap["documents"]][conn.path])
        /\ Goto("ok")
     \/ conn.kind = "hangup" /\ Finish
  /\ UNCHANGED <<testVars, heapVars, backlog, opened>>

\* Write the response body.  If the peer has gone the write may raise, and
\* then neither the listeners nor the waiters of post_received hear of it.
WriteBody ==
  /\ hpc = "ok"
  /\ \/ Goto("listen") /\ UNCHANGED status
     \/ conn.kind = "hangup" /\ Finish
  /\ UNCHANGED <<testVars, heapVars, backlog, opened>>

\* Call the captured listeners; the test's monitor wakes wait_for_request.
\* The monitor does not say which request it heard: outcome keeps it for the
\* properties.
Listen ==
  /\ hpc = "listen"
  /\ LET wakes == /\ tpc = "awaiting"
                  /\ cap["listeners"] = attr["listeners"]
                  /\ listening[cap["listeners"]]
     IN  IF wakes
           THEN tpc' = "run" /\ outcome' = [kind |-> "heard", req |-> conn]
           ELSE UNCHANGED <<tpc, outcome>>
  /\ IF conn.method = "get"
       THEN Finish
       ELSE Goto("notify") /\ UNCHANGED status
  /\ UNCHANGED <<test, rstep, call, heapVars, backlog, opened>>

\* Mutant: the notification does not take the lock.
NotifyUnlocked ==
  /\ hpc = "notify"
  /\ tpc' = IF tpc = "asleep" /\ cap["post_received"] = attr["post_received"]
              THEN "woken" ELSE tpc
  /\ Finish
  /\ UNCHANGED <<test, rstep, call, outcome, heapVars, backlog, opened>>

\* with self._post_received: notify_all().  The test thread holds the lock
\* of the current condition between its check and its wait.
Notify ==
  /\ hpc = "notify"
  /\ ~(tpc = "held" /\ cap["post_received"] = attr["post_received"])
  /\ tpc' = IF tpc = "asleep" /\ cap["post_received"] = attr["post_received"]
              THEN "woken" ELSE tpc
  /\ Finish
  /\ UNCHANGED <<test, rstep, call, outcome, heapVars, backlog, opened>>

-----------------------------------------------------------------------------
WaitCalls == [fn : {"get_most_recent_post"}]
             \cup [fn : {"get_request"}, path : Paths]

TestStep ==
  \/ \E u \in Urls, doc \in Docs : Serve(u, doc)
  \/ BeginReset
  \/ ResetStep
  \/ \E c \in WaitCalls : CallWait(c)
  \/ Sleep
  \/ Timeout
  \/ Scan
  \/ ExpectRequest
  \/ WaitForRequest
  \/ RequestWaitElapses

ServerStep ==
  \/ Accept
  \/ Capture
  \/ PostAck
  \/ Record
  \/ Lookup
  \/ WriteBody
  \/ Listen
  \/ Notify

Next ==
  \/ TestStep
  \/ ServerStep
  \/ \E r \in Sends : Open(r)

Spec == Init /\ [][Next]_vars

(***************************************************************************)
(* The server thread keeps running, and the test thread finishes what it   *)
(* is in the middle of: the remaining assignments of a reset, the step     *)
(* from the check into the wait, a time-out that is due, the scan.  Which  *)
(* calls a test makes, and what the server-under-test sends, is not        *)
(* assumed.                                                                *)
(***************************************************************************)
Fairness ==
  /\ WF_vars(ServerStep)
  /\ WF_vars(ResetStep)
  /\ WF_vars(Sleep)
  /\ WF_vars(Timeout)
  /\ WF_vars(Scan)
  /\ WF_vars(RequestWaitElapses)

FairSpec == Spec /\ Fairness

-----------------------------------------------------------------------------
(***************************************************************************)
(* Type invariant.                                                         *)
(***************************************************************************)
TestTypeOK ==
  /\ test \in Gen
  /\ tpc \in {"run", "reset", "held", "asleep", "woken", "awaiting", "over"}
  /\ rstep \in 1 .. 4
  /\ call \in WaitCalls \cup {NoCall}
  /\ (call # NoCall) <=> (tpc \in {"held", "asleep", "woken"})
  /\ outcome \in [kind : {"none", "timeout", "elapsed"}]
                 \cup [kind : {"heard"}, req : Conn]
                 \cup [kind : {"null"}, call : WaitCalls]
                 \cup [kind : {"request"}, call : WaitCalls, req : Conn]

HeapTypeOK ==
  /\ attr \in [Attributes -> Gen]
  /\ documents \in [Gen -> [Paths -> Docs \cup {NoDoc}]]
  /\ requests \in [Gen -> Seq(Conn)]
  /\ listening \in [Gen -> BOOLEAN]
  /\ backlog \in Seq(Conn)
  /\ opened \in Seq(Conn)

HandlerTypeOK ==
  /\ hpc \in {"idle", "capture", "ack", "record", "lookup", "ok", "listen",
              "notify"}
  /\ conn \in Conn \cup {NoConn}
  /\ (conn = NoConn) <=> (hpc = "idle")
  /\ cap \in [Attributes -> Gen]
  /\ cstep \in 1 .. 4
  /\ status \in {0, 200, 404, 410}

\* Every variable ranges over its set, a call is pending exactly while the
\* test thread waits for a post, and a connection is in the handler exactly
\* while the handler runs.
TypeOK == TestTypeOK /\ HeapTypeOK /\ HandlerTypeOK

-----------------------------------------------------------------------------
(***************************************************************************)
(* Safety.                                                                 *)
(***************************************************************************)
Current(a) == attr[a]

Elements(s) == {s[i] : i \in 1 .. Len(s)}

\* The connections a test may rely on: opened after its reset was complete.
Own(c) == c.test = test /\ tpc # "reset"

\* A post is recorded for certain if its body parses and its peer stays.
Readable(c) == c.method = "post" => c.kind = "good"

\* No lost wake-up: when the test thread is about to wait or waits although
\* one of its posts is in the list, then that post is still in the hands of
\* the handler and the handler will notify the condition the test waits on
\* (server.py:72-94 appends without the lock; client.py:85-93 checks with
\* it).  A peer that hung up is the exception: writing to it may raise.
NoLostWakeup ==
  tpc \in {"held", "asleep"} =>
    \A c \in Elements(requests[Current("requests")]) :
      (Own(c) /\ c.method = "post" /\ c.kind = "good") =>
        /\ conn = c
        /\ hpc \in {"ok", "listen", "notify"}
        /\ cap["post_received"] = Current("post_received")

\* No request of the running test is lost to the reset that preceded it:
\* it is in the backlog, or in the handler, or in the list the test reads
\* (server.py:106-110 against the capture in server.py:134-140).  A post whose
\* body does not parse, or whose peer goes before the header is out, is lost.
NoRequestLost ==
  \A c \in Elements(opened) :
    (Own(c) /\ Readable(c)) =>
      \/ c \in Elements(backlog)
      \/ conn = c /\ hpc \in {"capture", "ack", "record"}
      \/ c \in Elements(requests[Current("requests")])

\* A document that was published when the connection was opened is found
\* (200 or 410), unless a reset has replaced the documents since.
PublishedIsFound ==
  (status = 404 /\ conn.doc # NoDoc) => cap["documents"] > conn.test

\* A list holds only requests of its own test or of an earlier one whose
\* handler was constructed after the reset (server.py:106-110).
NoLeakForward ==
  \A g \in Gen : \A c \in Elements(requests[g]) : c.test <= g

\* The answer of a wait is a request made during the running test: "The
\* tests in this suite are designed to run in a clean server state (test
\* isolation)" (README.md:31).
OwnAnswersOnly ==
  outcome.kind = "request" => outcome.req.test = test

\* _wait_for_post only returns when a post is there, so
\* get_most_recent_post never returns None (client.py:81-94, 104-110; the
\* caller asserts it in _test_delivery.py:85).
NeverEmptyAnswer ==
  /\ tpc = "woken" => Posts(requests[Current("requests")]) # {}
  /\ outcome.kind = "null" => outcome.call.fn = "get_request"

\* wait_for_request that was woken (client.py:298-305) finds the very request
\* that woke it in the list the test reads, and the running test made it: the
\* handler appends to the list it captured before it calls the listeners it
\* captured (server.py:45-70, 79-92), and reset() replaces both.
HeardIsRecorded ==
  outcome.kind = "heard" =>
    /\ outcome.req \in Elements(requests[Current("requests")])
    /\ outcome.req.test = test

-----------------------------------------------------------------------------
(***************************************************************************)
(* The inductive invariant behind the safety properties.                   *)
(***************************************************************************)

\* Outside reset() all four attributes hold the objects of the running test;
\* inside, those already assigned hold the next ones.
AttrsInStep ==
  /\ \A i \in 1 .. 4 :
       attr[AttrOrder[i]] =
         IF tpc = "reset" /\ i < rstep THEN test + 1 ELSE test
  /\ tpc = "reset" => test < NumResets

\* Connections come from the running test or an earlier one.
ConnsFromPast ==
  /\ \A c \in Elements(opened) : c.test <= test
  /\ Elements(backlog) \subseteq Elements(opened)
  /\ conn # NoConn => conn \in Elements(opened)

Captured(i) == hpc # "capture" \/ i < cstep

\* The factory reads an attribute after the connection was opened: it finds
\* the object of the connection's test or a newer one, never one that is
\* newer than the attribute.
CaptureInStep ==
  conn # NoConn =>
    \A i \in 1 .. 4 :
      Captured(i) => /\ conn.test <= cap[AttrOrder[i]]
                     /\ cap[AttrOrder[i]] <= attr[AttrOrder[i]]

\* A document seen at opening time stays in the documents object of that
\* test (no operation deletes a document), and those of tests to come are
\* empty.
DocumentsStay ==
  /\ \A c \in Elements(opened) :
       c.doc # NoDoc => documents[c.test][c.path] # NoDoc
  /\ \A g \in Gen : g > test => documents[g] = PathList

\* Between connections nothing is read or sent yet, and only do_POST starts
\* with the header.
HandlerInStep ==
  /\ hpc # "capture" => cstep = 1
  /\ hpc = "ack" => conn.method = "post"
  /\ hpc \in {"idle", "capture", "ack"} => status = 0

IInv ==
  /\ TypeOK
  /\ AttrsInStep
  /\ ConnsFromPast
  /\ CaptureInStep
  /\ DocumentsStay
  /\ HandlerInStep
  /\ NoLostWakeup
  /\ NoRequestLost
  /\ PublishedIsFound
  /\ NoLeakForward

-----------------------------------------------------------------------------
(***************************************************************************)
(* Liveness.                                                               *)
(***************************************************************************)
Coming ==
  \E c \in Elements(backlog) \cup {conn} :
    c # NoConn /\ c.test = test /\ c.method = "post" /\ c.kind = "good"

\* A test that waits without a time-out (APTEST_DEBUGGING), or is about to,
\* is woken by any well-formed post of its own that is on its way.
OwnPostWakes ==
  (tpc \in {"held", "asleep"} /\ Coming) ~> (tpc \notin {"held", "asleep"})

\* The handler never waits forever for a lock the test thread holds: every
\* connection is accepted and finished.
EveryConnectionFinished == []<>(backlog = << >> /\ hpc = "idle")

-----------------------------------------------------------------------------
(***************************************************************************)
(* What the component promises: the mailbox of module PostMailbox.         *)
(***************************************************************************)
Mailbox == INSTANCE PostMailbox WITH
  inbox <- requests[Current("requests")],
  asking <- call,
  answer <- IF outcome.kind \in {"null", "request", "timeout"}
              THEN outcome ELSE NoOutcome,
  Requests <- Conn,
  Questions <- WaitCalls

\* While no connection outlives its test, the reset, the capture and the
\* condition variable together implement the mailbox.
ImplementsMailbox == Mailbox!Spec
=============================================================================
