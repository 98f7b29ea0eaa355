# A verification project for activitypub-testsuite

`activitypub-testsuite` is a pytest plugin. It starts an ActivityPub server (the *server under
test*, SUT) as a subprocess, simulates a remote ActivityPub server next to it, and runs tests that
talk to the SUT over HTTP and observe what the SUT fetches from and delivers to the simulated
server. This directory holds TLA+ models of the parts of that program where something can go wrong
that its tests would hardly reach, the TLC runs that check them, and machine-checked proofs.

All source paths below are relative to `src/activitypub_testsuite/`, and `tests/` is the directory there, except for
`docs/`, `README.md` and `tests/test_*.py`, which are relative to the root of the repository.

## 1. Inventory

| component | source | state it keeps | operations | modelled in |
|---|---|---|---|---|
| simulated remote server | `http/server.py`, `fixtures.py:165-187` | documents by path, list of requests, list of listeners, a condition `post_received`, the server thread, the global `_remote_http_server` | `serve_document`, `reset`, `do_GET`, `do_POST`, `start`, `run`, `stop` | RemoteServer, ServerLifecycle |
| remote communicator, request monitor | `http/client.py:77-110, 294-305` | the monitor's condition | `_wait_for_post`, `get_request`, `get_most_recent_post`, `expect_request`, `wait_for_request` | RemoteServer |
| server-under-test process and its monitor | `fixtures.py:190-277` | subprocess, output pipe, `start_event`, global `_server_error` | start, read a line, kill, join, per-test check | SutMonitor |
| test setup | `fixtures.py:180-187, 271-277, 301-336` | sections of `config.toml`, what the report has been given | `test_config`, the autouse fixtures in the order of their names | TestSession |
| configuration and capabilities | `fixtures.py:339-384` | `config.toml` | capability resolution, skip and fail | Capabilities |
| HTTP actors | `support.py:39-124`, `http/client.py:52-74, 171-331` | dictionaries of a test, documents published for a remote actor, caches of actors and keys | `make_object`, `make_activity`, `make_collection`, `setup_object`, `setup_activity`, `setup_collection`, `delete_object`, `post` | ActorDocuments, TestBody |
| collection walk and polling | `support.py:130-214` | the items gathered so far | `get_collection_item_uris`, `wait_for_collection_state`, `assert_eventually_in_collection` | CollectionPolling |
| HTTP signatures | `http/signatures.py`, `http/client.py:112-169` | the headers of a request | fill in headers, build the text to sign, sign | HttpSignature, TestBody (signing; see 5) |
| media types and dates | `support.py:272-461` | none | `parse_accept_header`, `parse_content_type`, `validate_date_times` | MediaTypes, DateTimes, TestBody |
| the tests | `tests/_test_*.py` | none | scenarios: inbox, outbox, follow, like, undo, announce, delivery, ... | Scenarios (the tests that change the server; see 5) |
| vocabulary helpers | `ap.py` | none | `get_id`, `get_types`, `is_type` | see 5 |
| report hooks and generator | `fixtures.py:394-485`, `report/` | metadata of the session and of each test | hooks of the JSON report plugin, rendering | see 5 |
| installation of the tests, command line | `fixtures.py:280-298`, `cli.py` | symbolic links | `install_as_link`, `install_fedi_tests` | see 5 |
| interfaces | `interfaces.py` | none | protocols | see 5 |

The parts interact in these ways. The **test thread** (pytest) calls into the remote server object
directly: it writes `_documents`, replaces all four attributes in `reset()` before each test, and
waits on `post_received`. The **server thread** runs `serve_forever`, one connection at a time; for
each connection it reads the four attributes and runs a handler with what it read. The **SUT** is a
process of its own that opens connections to the server thread and answers the test thread's
requests; it may do part of its work after it has answered. The **monitor thread** reads the SUT's
output and raises the start event and the error flag that the test thread looks at.

### What is hard here

* `reset()` is four assignments and a new connection reads four attributes, with no lock.
* a handler keeps what it read, however many resets happen before it ends;
* requests are appended without the lock under which the waiter checks for them;
* time-outs race the events they wait for, and one of them is silently ignored;
* connections of one test can be accepted during the next one;
* a peer that hangs up or sends a body that does not parse ends a handler in the middle;
* the error of one thread is held against whichever test looks at the flag next;
* the fixtures of a test run in the order of their names, and any of them may end the setup;
* dictionaries are written into, copied one level deep and published by reference, so that a document can
  change after it was published, and two activities can come from one dictionary;
* a collection changes between the requests of one walk.

For each component, what makes it correct:

* **simulated remote server and communicator**: a request of the running test is in the list the
  test reads or on its way there; a post of the running test wakes the waiting test; a document
  that was published before a connection was opened is found; an answer belongs to the running test.
* **process and monitor**: a server error fails the test it happened in and no other; the process is
  never blocked by its own output; the session's end is reached and leaves no thread behind.
* **life of the simulated server**: every test starts without documents of another one, whichever
  test creates the server; the session's end neither blocks nor leaves the port served.
* **collection walk and polling**: what a poll concludes is true of the collection at some time of
  its last walk, although the walk takes several requests; every poll ends.
* **capabilities**: the deepest level that says anything decides; the loop ends; identifiers are
  judged in order and the first one that is not allowed decides.
* **test setup**: the verdict of a test is a function of its sections, of the decision about its
  capabilities and of what happened while it was watched, whichever fixture ended its setup; one error fails one test.
* **HTTP actors**: an identifier belongs to one family of dictionaries; what was published last is what a fetch
  answers, and it says what was posted, whatever the actors write into the dictionaries afterwards; a document names
  nobody the test did not involve; the key of a signed post can be found.
* **HTTP signatures**: the signature holds for the request as it arrives, unless it covers the target of a url that has
  a query or an escape; a request is signed over its whole list or not sent.
* **media types and dates**: the verdict on an entity does not depend on the order of the fields, and nothing is
  accepted that the documentation rules out; what is taken apart can be put together again.
* **scenarios**: a scenario passes against a server that does what ActivityPub asks,
  also when it works after it has answered, and fails against one that does not.

## 2. Modules

```
  RemoteServer ==implements==> PostMailbox          MCRemoteServer (constants for TLC)
     ^-- RemoteServerProofs
  SutMonitor
     ^-- SutMonitorProofs
  ServerLifecycle <--extends-- TestSession ==implements==> TestVerdicts
                                  |   TestConfig <--extends-- TestSession, TestVerdicts
                                  ^-- TestSessionProofs (about both)
  Capabilities ==implements==> CapabilityGate       MCCapabilities (constants for TLC)
     |   CapabilityTable <--extends-- Capabilities, CapabilityGate
     ^-- CapabilitiesProofs
  CollectionPolling
     ^-- CollectionPollingProofs
  Scenarios <--extends-- ScenarioCourses            MCScenarios with ScenarioScripts
                            ^-- ScenariosProofs
  TestBody --extends--> ActorDocuments, SupportValues   MCTestBody (constants for TLC)
  ActorDocuments
     ^-- ActorDocumentsProofs
  SupportValues --extends--> DateTimes, MediaTypes, HttpSignature
     ^-- SupportValuesProofs
```

`CollectionPolling` and `Scenarios` look at the same loop at two scales: the first takes a walk
apart into its requests, the second takes a walk as one read and puts the loop into whole tests.

An operator whose name ends in what goes wrong and whose comment begins with "Mutant:" is not part of
a specification: it is a plausible bug, put in the place of the definition that follows it to see
that a property notices.

### RemoteServer (`http/server.py`, `http/client.py:77-110, 294-305`, `fixtures.py:180-187`)

The important fact about `reset()` is that it *replaces* the four objects the server owns, one
assignment at a time, while handlers keep the objects they were constructed with. An object is
therefore named by its attribute and a *generation*: `attr[a]` is the generation that attribute `a`
holds, `cap[a]` the one the current handler was given, and `documents`, `requests` and `listening`
hold the contents by generation. `ResetStep` is one assignment of `reset()`, `Capture` one
attribute read of the lambda in `run()`, in the same order as in the code.

The test thread is `tpc`: it serves documents (`Serve`), begins a reset, asks for a post. `CallWait` ends at the check
under the lock ("held"), `Sleep` is the entry into `wait()`, which releases the lock, `Notify` is `notify_all()` and
needs the lock, `Timeout` is `wait(5)` returning `False`, `Scan` is the loop over the list after the wait.
`ExpectRequest`, `WaitForRequest` and `RequestWaitElapses` are the request monitor of a remote actor. The handler is
`hpc`: `Accept`, `Capture`, then for a POST `PostAck`, `Record`, `WriteBody`, `Listen`, `Notify`, for a GET `Record`,
`Lookup`, `WriteBody`, `Listen`; a body that does not parse ends it after the acknowledgement, and a peer that hung up
ends it at any of its writes (`PostAck`, `Lookup`, `WriteBody`), each of which may also still succeed, so that the
request of such a peer may or may not be recorded, and may or may not be heard of. The server accepts one connection
at a time because `http.server.HTTPServer` is not threaded.

`opened` and the fields `test` and `doc` of a connection are history: they are only read by properties.

With `LateDelivery = FALSE` a test ends only when the backlog is empty and the handler idle, which is
what happens when the server under test does all of its work before it answers. With `TRUE` it may
work on, and connections are accepted before, between and after the four assignments of a reset.

**PostMailbox** says what `RemoteCommunicator` (`interfaces.py:61-68`) promises: a mailbox that is
cleared between tests, and two questions that are answered from it once it holds a post. The refinement
maps the mailbox to the list of the current generation, the question to the pending call and the
answer to its outcome.

### SutMonitor (`fixtures.py:190-277`)

One action per call of `readline()` (`ReadFirst`, `ReadPending`, `Drain`), with the effect of the error
matcher inside it as in the local function; the session's fixture (`StartServer`, `WaitEnds`, `Kill`, `Join`,
`Close`) and the per-test check (`BeginTest`, `EndTest`). A line is the class the two matchers give it.
The process (`WriteLine`, `Crash`) and the bounded pipe are external. `orphan` chooses whether a child of the
process keeps the pipe open after the kill. `Close` is `Popen.__exit__`, which cannot close the
reader while another thread is inside `readline()`.

### ServerLifecycle (`http/server.py:123-147`, `fixtures.py:157-187`)

The session creates the server in the middle of any test (`Create`), the autouse fixture resets it
if the global says that it exists (`ResetFixture`), a test may leave its setup before that (`LeaveSetup`), the
thread binds, serves and ends (`Bind`, `ServeForever`, `LoopEnds`), `Finish` and `StopReturns` are `stop()`. The
loop's request flag and the event `shutdown()` waits for are those of `socketserver.BaseServer`, because a `stop()`
between the bind and the loop is the interesting case. `PortTaken` is the choice whether another process owns the
port: `find_available_tcp_port` returns the first number of its range without having tried it.

### TestConfig, TestVerdicts, TestSession (`fixtures.py:180-187, 271-277, 310-384`)

`TestConfig` gives the sections of a test: the one with its name and, for an instance of a parametrized test, the
table in it with the name of the parameters; a section may be missing, or be a value that is no table.

`TestSession` extends `ServerLifecycle` with one test from its setup to its report. Pytest runs autouse fixtures in
the order of their names, so `stage` goes through `check_server_state` (`Check`, with the `test_config` it needs, or
`ConfigRaises`), `conditionally_skip_test` (`ConditionallySkip`), `reset_remote_http_server` (`Reset`, the
`ResetFixture` of the life cycle), `skip_without_server_capabilities` (`Gate`, whose decision `Capabilities` explains)
and the body (`UseServer`, `EndBody`). A fixture that ends the setup leads to `Teardown`, where
`check_server_state` looks at the flag. `ErrorLine` is the monitor of the server under test reduced to what this
thread sees of it: at any moment, once, it raises the flag and ends; `SutMonitor` has the rest. `seen` and
`blamed` are history.

`TestVerdicts` promises one verdict: `VerdictOf` is a function of the sections, the gate's decision, the end of the
body and whether an error came between setup and teardown; it has no fixtures and no order. The refinement is
the identity on `test`, `sections`, `seen` and `verdict`.

### CollectionPolling (`support.py:130-187, 208-214`)

The recursion of `_get_collection_item_uris` is a stack of calls still to be made; `Visit` is one call: one
request, its items appended, the calls for `first` and `next` pushed in this order. `Evaluate`, `Wake` and
`GiveUp` are the loop of `wait_for_collection_state`, `Judge` is its caller: `assert_eventually_in_collection`
looks at the returned items ("in"), the Undo tests do not ("out"). The server under test adds and removes
items between any two requests and lays the collection out inline, in pages, or in pages that repeat the
link `first` of their collection. `ever`, `always` and `removed` are history about the current walk.

### CapabilityTable, CapabilityGate, Capabilities (`fixtures.py:339-384`)

`CapabilityTable` gives a configuration as the entry under each identifier and the entry under its `.default`;
`Tables` are the ones a TOML file can express. `Says` is what one level says: the entry, or the default when the entry
is a table. `CapabilityGate` states the decision in one step, by quantifying over levels. It leaves open what becomes
of a test with an undeclared capability outside strict mode (`Unsettled`): the manual says that it can be skipped, a
comment in the code that it is assumed to work. `Capabilities` makes the decision with the loops of the code, `level`
being the number of names left in `capability_id`. How `dictlib.dig` fails on a value that is not a table is chosen
once (`leafRaises`), since the library is not part of the repository.

### ScenarioScripts, Scenarios, ScenarioCourses (`tests/_test_*.py`, `support.py:130-157`, `http/client.py:104-200`)

`ScenarioScripts` gives 30 tests as scripts of four kinds of steps: a post, a single read of a collection, a
poll, a wait for a delivery. A post carries the effect ActivityPub asks for (`right`) and the one that a server
with the defect the test is aimed at lets happen instead (`wrong`); the two are equal for a post that only
prepares the ground. `served` says whether the simulated server serves the activity: `setup_activity` of a
remote actor publishes it, `make_activity` does not. A poll is `checked` if the test looks at what the loop
read last.

`Scenarios` runs one script against one kind of server: `async` (answers, then works, in the order of the
posts, always before the test has slept `Delay` times), `defective` (the wrong effect instead of the right
one), `dereferences` (drops, or if it works before it answers refuses, an activity it cannot fetch). `Work` is the
server; it may come between any two steps of the test. `PollRead`, `PollSleep` and `PollEnds` are the loop of
`wait_for_collection_state`, which sleeps after its last read too, so that five reads span four periods.
Also a server that works later stores an activity before it answers, since the answer names it
(`client.py:198-200`): fetching the stored activity is not a step.

The tests to which a property does not apply are not listed but computed from their scripts: `Patient` (a single
read only comes after a checked poll), `Blind` (nothing checked after the post depends on its effect),
`MayLookTooEarly` (what is checked holds at the start, or the post must have no effect).

`ScenarioCourses` says what a suite must be like for these verdicts, and has the inductive invariant. The *course* of
a test against a kind of server is what its posts make of that server, one after the other, whenever the server gets
to them: a sequence of states, without reads, polls or time. `Possible` is the states the server can be in when the
test is at a step (any up to the last post, or just that one if it works before it answers), `Passable` whether
the test can get past the step in such a state. The assumptions compare the two: `LawfulAssumption` (a test asks a
correct server for nothing but what its posts lead to), `PatienceAssumption` (the poll before a single read waits for
enough), `DefectAssumption` (there are two steps, often one, that no defective server gets the test past).
`MCScenarios` computes the courses from the scripts, and TLC evaluates the assumptions for all 30 tests and 8 kinds
of server in both runs; a script that loses a step the test relies on is refused there.

### ActorDocuments (`support.py:39-124`, `http/client.py:52-74, 171-331`)

A dictionary is a place in `heap`; an activity's nested object is a reference, and so is a published document, so that
a change made through one name is seen through the others. `CopyOf` is `dict(properties or {})`: one level deep.
`Completed` is what `make_activity` writes into the dictionary *of its caller* before it copies it, and
`SetupActivity` writes the id into it as well. Identifiers are the uuids in the order in which they are made;
`ForeignId` stands for every id that the suite did not make. One action per method: `MakeObject`, `MakeActivity`,
`SetupObject`, `SetupActivity`, `SetupCollection`, `DeleteObject`, and for a local actor `LocalSetupActivity` and
`LocalSetupObject`, which get back what the server under test has stored. `SetupRaises` is any of the ways in which a
setup can end the test: the post of a local actor, or a call without properties. `Literal` and `Assign` are what the
test itself writes. `GetRemoteActor` is a call that finds nothing in the `lru_cache` of this test's `server_support`;
`get_key_pair` keeps its own cache over tests. `NextTest` empties everything but the key. `Answer` is the GET handler
of `RemoteServer` at this moment. The fields `root` and `as` of a dictionary, and `users` and `changed`, are history:
the dictionary of the test it was copied from, the id it was published under, the actors the test has involved with
it, and the families of dictionaries that the test has changed itself. A post in `sent` remembers what the posted
dictionary and those nested in it said (`was`), and how many changes the test had made.

### DateTimes, MediaTypes, HttpSignature, SupportValues (`support.py:272-461`, `http/signatures.py`)

`DateTimes`: a string is a timestamp with its parts or one of the other kinds; `MatchesRegex` is what `RFC3339_REGEX`
accepts of it, `FieldOutcome` the branches of the loop body, `ValidateField` one turn of `validate_date_times`, in the
order of a set of strings, which differs from run to run. What the documentation allows is a definition of its own,
that knows nothing of the code: `ConformsToAS2` is the docstring at `support.py:414-419`, `Documented` adds what the
comment at `support.py:401` says of `closed`. `MediaTypes`: `ParseParam` and `EndEntry` are the loops of
`parse_accept_header`, `SplitTree` and `SplitSuffix` the two splits of `parse_content_type` on a sequence of tokens.
`HttpSignature`: `SynthesizeHeader` is one turn of the loop that fills in missing headers, `ConstructLine` one turn of
the loop that builds the text, with its `KeyError`. A digest is the text it is made of, a signature the text it signs;
`Verifies` is what a receiver of the request finds when it builds the text again. A path is given as it is sent, and
`Unquoted` says what it is with its escapes decoded: `url.path` of httpx is decoded, and that is what is signed.
`SupportValues` composes the three: a test is one thread, so one call returns or raises before the next begins.

### TestBody

`TestBody` puts `ActorDocuments` and `SupportValues` together into what the body of a test calls. The body is one
thread, so a call of a helper has ended before the next step of the actors. Actors and helpers share no variable, so
the composition lets helpers run only in a test that has not made anything yet: anywhere else they would do the same,
and TLC would look at every behaviour of the one once for every state of the other. For the same reason the theorems
about the parts are stated of the parts.

## 3. Runs

| run | question | bounds | distinct states (depth) |
|---|---|---|---|
| `remote_isolated` | does the server implement the mailbox when no connection outlives its test? with malformed bodies and hang-ups | 1 reset, 2 connections of 5 kinds, 2 URLs with one path | 891 530 (35) |
| `remote_late` | what still holds when connections race the reset, and a test waits without a time-out: is it always woken by its own post, and the handler never stuck? | 1 reset, 2 connections of 2 kinds | 1 552 463 (35) |
| `remote_stale_answer` | finding: a stale post answers a later test | as `remote_late` | |
| `sut_monitor` | blame, progress of the writer, teardown, end of the thread | 3 tests, 4 lines, pipe of 2 lines, both matchers | 56 648 (23) |
| `session` | does every test get the verdict its sections and its course ask for, and a clean start? does `stop()` return and the thread end? | 3 tests, every section, every decision of the gate | 284 041 (27) |
| `collection_polling` | are the conclusions of a poll right while the collection changes? | 4 items, pages of 2, 2 walks, recursion limit 3, failing requests | 229 791 (17) |
| `poll_undo` | finding: an Undo test passes although nothing was undone | 2 items | |
| `capabilities` | do the loops take the gate's decision, and end? | every table over 3 nested levels and one more name, 2 identifiers | 1 550 310 (13) |
| `capability_undeclared` | finding: a test with an undeclared capability runs | as `capabilities` | |
| `scenarios` | which servers does a test fail, and which may it pass? | 30 tests, 8 kinds of server, the 5 reads of the code, `Delay` 4 | 3 525 (21) |
| `scenario_block` | finding: the test of Block passes although the Block was delivered | as `scenarios` | |
| `test_body` | do identifiers, published documents, names and keys stay right on a heap of shared dictionaries? are dates judged alike in any order, media types taken apart, requests signed as they are sent? | 3 dictionaries, 1 post and 1 change per test, 2 actor objects that share a name, a local actor; 3 timed fields, 19 values, 6 Accept headers, subtypes of up to 4 names, 8 requests, 6 lists of headers | 3 856 641 (14) |

Why the bounds are enough. *RemoteServer*: every property relates the running test to one other test and a
connection to at most one other, so one reset gives both sides of it and two connections give a
handler at work while another waits; 5 kinds of connections cover both methods and each way a
handler can end. *SutMonitor*: a flag can be set before, in and after a test and be read in the next one,
which takes two tests; the third shows that nothing accumulates. The pipe of two lines can be full, and
be emptied in part, by four lines. *TestSession*: the server can be created in any test, so that there is a test
before, during and after the creation, and an error can be spent on one test and looked for in the next.
*CollectionPolling*: pages of two items make page boundaries differ from
item boundaries; four items fill two pages exactly, the case in which `next` must not appear; two walks
show what one leaves for the next; a limit of three calls is the smallest that reaches the second page.
*Capabilities*: three levels allow a level with something above and something below it, and the second
name is one that shares nothing. *Scenarios*: the scripts and the number of reads are those of the code; a
server that is slower than four periods is too slow for the suite, and `Delay = 4` is the slowest that is not.
*TestBody*: three dictionaries are one that is shared and two that come of it, or an object, an
activity around it and a third; two actor objects under one name publish the same profile, one of them
without signing; one change of the test tells what the test does from what the actors do. The dates are every branch of
the calendar (leap years of each rule, short and long months, day 0, month 13, year 0) and each part of a timestamp once
in each other form that it may take; three fields are one before, one at and one after the bad one; four names allow dots
and pluses in every order; paths and queries are there with and without an escape and a query; the header
lists are the default, the empty one, one without the target, two with a header that a GET cannot have, and a repetition.
The proofs remove the bounds for everything they cover.

Deadlock is not checked: a session ends, and the last state of every model is one in which nothing
remains to be done.

### Fairness

`remote_late`: weak fairness of the server thread's steps, and of what the test thread is in the middle of
(the rest of a reset, the step into the wait, a time-out that is due, the scan). These are threads
that run; nothing is assumed of which calls a test makes or what the server under test sends.
`sut_monitor`: the monitor thread and the session go on, which the time-outs of `wait(10)` and `join(10)`
justify; the process owes nothing. `session`: the server thread goes on and `shutdown()` returns once
it can; no test and no error line is owed. `collection_polling` and `capabilities`: the test goes on; the server
under test owes nothing. The other runs check no liveness and assume no fairness: in `scenarios` the speed of the
server is a bound on `age`, because the question is how the suite judges a server that does its work in time.

### Findings

1. `remote_stale_answer`: `reset()` does not wait for connections in the backlog, so a post sent for one test
   can be the most recent post of the next, against the isolation the README promises.
2. `poll_undo`: the Undo tests of `_test_like.py` ignore the result of the poll and pass when the tries are
   used up.
3. `scenario_block`: `test_actor_blocking` looks for the Block in a collection of the simulated server that nothing
   ever changes.
4. `capability_undeclared`: the manual says that tests can be skipped if the capabilities they need are not declared
   (`docs/configuration.md:11`); outside strict mode the code runs them (`fixtures.py:378-379`).

Observed while modelling, without a run of their own:

* *simulated server*: "No post received in timeout period" can be raised with the post in the list, because the
  handler appends before it takes the lock and the list is not looked at after a time-out (`client.py:93`);
  `start()` does not wait for the bind (a barrier of one party), and a failed bind is not reported
  (`server.py:123-136`).
* *test setup*: `conditionally_skip_test` looks whether the value of `xfail` is true, `check_server_state` whether the
  key is there (`fixtures.py:276, 334`), so a test with `xfail = false` runs and no server error counts; a section that
  is no table fails in the setup and again in the teardown.
* *capabilities*: `is_env_set` calls `str().lower(x)`, a `TypeError`, for every
  variable that is set (`fixtures.py:349`), so with `APTEST_STRICT_CAPABILITIES` every test errors in its setup.
* *collections*: `assert_eventually_in_collection` ignores its arguments `tries` and `period`
  (`support.py:146-152`); the walk follows `first` on pages as well and ends in a `RecursionError` on pages that
  repeat it; `max_count` would not be honoured across pages (`support.py:187`).
* *actors*: the manual says that a setup "will ensure the object can be dereferenced" (`docs/writing-tests.md:28`); the
  `setup_collection` of a remote actor embeds the collection in a served activity and does not serve it. A dictionary
  given to `setup_activity` twice carries the id of the first activity into the second, which then replaces the first.
* *signatures*: the signed path is decoded and without the query (`signatures.py:139`), so that no signature over the
  target of a url with a query, or with an escape in its path, verifies; `from_signed_request` and `verify_request`
  use names that do not exist.
* *media types*: `parse_accept_header` never returns: it constructs a `MediaDescriptor` of five fields from three
  (`support.py:312-315`), or fails earlier on a first parameter without "=", against `tests/test_media_headers.py:31-59`.
* *dates*: `RFC3339_REGEX` refuses seconds without a fraction, which the docstring's grammar allows
  (`support.py:414-419`), and accepts a trailing line end; the year 0, which that grammar has, is refused. `DatesVerdict`
  says nothing of what may be refused; `isinstance(field, str)` looks at the
  name of the field instead of its value (`support.py:430`), so a boolean `closed` raises a `TypeError`, and which
  exception an entity with two bad values raises depends on the order of a set.
* *tests*: the manual says that tests must poll because servers work after they have answered
  (`docs/challenges.md:31-33`), and `_test_delivery.py:33` marks one that does not; about half of the scenarios read
  once and fail a correct server of that kind (the ones for which `Patient` is false). `test_inbox_add` and
  `test_inbox_remove` read a collection that the simulated server does not serve and can never pass;
  `test_outbox_delete` never waits for a deletion that is not there at its first read, and fails a server that returns
  a tombstone with success, although it looks for one (`_test_delete.py:66, 81`); the last poll of
  `test_actor_blocking` is not checked; `inbox_undo_like`, `inbox_share_local`, `inbox_add` and `inbox_remove` post
  activities that the simulated server does not serve, which a server that dereferences what it receives rejects;
  `inbox_reject_of_local_follow`, `inbox_accept_deduplicate` and `outbox_remove` can pass a slow server that will do
  the wrong thing; `_test_core.py:518` passes a dictionary to `get_json`.
* *ports*: `find_available_tcp_port` binds port 0 and so always returns the first port of its range, tried or not
  (`support.py:251-261`; `PortTaken`).

## 4. Proofs

All theorems are for every value of the constants that satisfies the named assumption of the module.

**RemoteServerProofs** (assumption `ConstantsAssumption`). `TypeCorrect`, `NoLostWakeup`, `NoRequestLost`,
`PublishedIsFound` and `NoLeakForward` follow from one inductive invariant, `IInv`. None of them is inductive alone.
`AttrsInStep` says which generation each attribute holds at each point of a reset; with `ConnsFromPast` it gives that
a connection is never newer than any attribute; `CaptureInStep` carries this over to what a handler has read:
`conn.test <= cap[a] <= attr[a]`. For a connection of the running test both ends are equal, so its handler has read
the objects the test uses: that is `NoRequestLost`. `NoLostWakeup` needs in addition that the handler which appended a
post has not yet notified, and that it will notify the condition the test waits on. `DocumentsStay` (no operation
deletes a document) gives `PublishedIsFound`. The proof goes action by action; frame lemmas (`OnlyResetAssigns`,
`TestGrows`, `HandlerMoves`) say once what most actions leave alone. It covers late connections: `LateDelivery` is not
assumed false.

Its second half assumes in addition that `LateDelivery` is false, explicitly in each theorem. `Isolation` adds to
`IInv` that connections belong to the running test and none is open during a reset (`ConnsIsolated`), that a list
holds only requests of its own test and the lists of tests to come are empty (`ListsIsolated`), and that a handler
past its recording has a request of its method in the list (`RecordedFirst`). From it follow `OwnAnswersOnly`,
`NeverEmptyAnswer` and `HeardIsRecorded` (the very request that woke `wait_for_request` is in the list the test reads,
because the handler has appended it to the list it captured before it calls the listeners it captured), and
`ServerImplementsMailbox`: the end of a reset is `Clear`, a call `Ask`, a time-out `GiveUp`, the append `Deliver`, the
scan `Answer`, and every other step forgets an answer or leaves the mailbox alone. That the assumption is needed is
the finding `remote_stale_answer`.

**SutMonitorProofs** (`MonitorAssumption`). `BlameIsExact` from `FlagInStep`: while a test runs, the
flag is set exactly if the error line was read during this test, and once it has been read the monitor
reads nothing more. With and without matchers, for any pipe.

**TestSessionProofs** (`LifecycleAssumption`). First `ServerLifecycle`: `TestsStartClean` from `PublishedInStep`: while
the global is unset nothing is published, so that the reset that does nothing has nothing to clear. Every step
of a session is a step of the life cycle or leaves it alone (`LifecycleStep`), so that `SessionTestsStartClean` follows.
`ErrorsAreBlamedOnce` from `FlagInStep`: the flag is raised once, and while a test is watched a raised flag has not
been spent. `FixturesImplementVerdicts`: at every stage, what the report has been given so far is what `VerdictOf`
says of the sections for the stages that are over (`TestInStep`); the report is the only step that is not a stutter,
a new test or an error.

**CapabilitiesProofs** (`CapabilitiesAssumption`: identifiers are sequences and closed under prefixes).
`RunsAreAllowed`, and `LoopsImplementGate`: the specification of the loops implies that of the gate, whichever way the
gate settles what the manual and the code's comment disagree on. The loop
invariant is `LoopInStep`: no level the inner loop has left behind says anything. `OneDecides` (at most
one level decides) turns "found false nowhere below" into "not declared false".

**CollectionPollingProofs** (`PollingAssumption`). `GatheredWasThere`, `WalksAreComplete`, `PresencesAreRight` and
`AbsencesAreRight`, for any items, page size, recursion limit and number of tries. The idea is `GatheredOrAhead`: as
long as nothing is removed, an item that has been there since the walk began is gathered, or at a place that one of
the calls still to be made reaches. An addition moves every item one place on, and a place that a call reaches stays
reached when it grows; a visit takes the items of one page and leaves the calls for the pages behind it
(`VisitReaches`). A removal moves items back to where the walk has been: that is why `removed` is in the properties.
When no call is left, everything that stayed has been gathered. The recursion needs no induction over data because the
calls still to be made are the state, and the loop is the specification's.

**ScenariosProofs** (`ScenarioAssumption` and those of `ScenarioCourses`; any suite, number of tries and delay).
`CourseInStep` is the refinement of a run by the course of its test: the server is in the `n`-th state, the test has
asked for the `m`-th, the queue holds exactly the posts in between, and every two steps the test has passed were
passable in possible states that come in the same order (`HasPassed`). A correct server that has emptied its queue
lets the test get past every step (`EmptyQueuePassable`), so a read that fails finds a post in the queue, and finds it
a period older than the failed read before (`AgeInStep`): no checked poll of a correct server makes more than `Delay`
reads in vain (`PollInStep`). `PatientTestsPass` follows (`VerdictInStep`), with the hypothesis `Delay < Tries`, which
the run has with 4 and the suite's 5, and for which the sleep after the last read counts for nothing.
`PassesAreServed` is half of the verdict on servers that work before they answer, for servers of all kinds: a test
that passes has found everything it reads. The other half is about the suite's 30 scripts and stays with the run: such
a server without a defect fails exactly the tests that need something nobody serves (`SyncVerdicts`).
`DefectsAreDetected`: a pass has got past the two steps of `DefectAssumption`.

**ActorDocumentsProofs** (`ActorsAssumption`). `IdsIdentify`, `SetupsAreServed`, `ActivitiesNameTheirActors`,
`SignersAreKnown` and `FetchesArePosts` from one invariant: ids are of this test's making or foreign (`IdsAreMade`),
so that a new uuid is nobody's; roots and documents are dictionaries that exist; and there is one key, which every
actor object has published (`KeysInStep`). The proof goes by operation; the lemmas about the shared steps (`CopyOf`,
`Completed`, `WithId`) say what each keeps of a dictionary. `FetchesArePosts` compares what was posted, entry by
entry, with what is there later, and the rest of the invariant is for it. What has been published under an id stays in
the family of that id when a dictionary gets another one (`PublishedInFamily`), and what was sent exists
(`SentAreThere`). The dictionaries under one id say the same unless the test has changed one of their family
(`FamilyAgrees`): whoever gives a dictionary an id has given it a type (`IdsHaveTypes`), so that a copy of it finds
nothing to fill in but an actor. A published dictionary has the id it was published under (`PublishedHaveIds`), and
what was posted has only been filled in since (`PostsAreKept`). `StepContents` says once what a step of the actors may
do to the entries of dictionaries: it fills in what is absent, a copy under an old id says what its original says, and
the dictionaries under a new id agree. Each operation is shown to be such a step, and that such a step keeps the
conjuncts is shown once (`StepContentsKeeps`); a change by the test itself is a case of its own (`AssignContents`).

**SupportValuesProofs** (`SigningAssumption`, `DateValuesAssumption`, `ClosedIsAField`, `SubtypesAssumption`).
`SignaturesHold` and `AllOrNothingIsSigned`: the first loop fills in the headers it has passed (`FilledSoFar`), the
second has signed the headers it has passed with the values that are sent (`LinesSoFar`); the signature then holds
exactly if the target, where it is signed, is the one that is sent. `DatesAreJudged`: the fields already visited were
fine, in whatever order (`VisitedFine`), and a value that is fine is one the documentation allows, but for a line end
(`FineIsAgreed`). `MediaTypesAreRecovered`: a last dot and a first plus exist when there are any (the least element of
a set of numbers, by well-founded induction from the library), and tokens and marks alternate, so that between the two
there is exactly one name. The theorems about signing are about `SigningSpec`; `ValuesSign` says that the composition
is one of its behaviours, so they hold there too.

Every invariant of the passing runs but `SyncVerdicts`, and every refinement, is proved. Model-checked only:
`SyncVerdicts`, which is a statement about 30 given scripts; the liveness properties (`OwnPostWakes`,
`EveryConnectionFinished`, `WriterGoesOn`, `TeardownEnds`, `MonitorEnds`, `StopEnds`, `ThreadEnds`, `PollEnds`,
`ResolutionEnds`), which need fairness; and that the scripts of the suite are as `ScenarioCourses` assumes, which is a
statement about the same scripts that TLC evaluates.

## 5. Not modelled

* **Vocabulary helpers** (`ap.py`): single expressions without state; `get_id` is what `CollectionPolling` compares
  items by.
* **Report hooks and generator**, **installation, command line**: rendering of results that have been decided, file
  links, argument parsing; no interaction.
* **Interfaces**: protocols without behaviour.
* **HTTP signatures, the receiving side**: `from_signed_request`, `verify_request` and `get_signature_fields` are
  called by nothing and cannot run (they use a constructor argument, a function of `time` and an attribute that do not
  exist). `Verifies` is therefore the receiver the draft describes, not that code. **Cryptography** and the **wire
  format of HTTP** are those of libraries.
* **Tests that look only at one answer** (status codes, media types, properties of a document), tests marked as
  skipped, and the skip of a test whose collection does not exist: a script of one request has nothing to interleave.
* **The server under test**: any program; each module takes it as an environment that may do anything its
  interface allows, within the bounds of the run.
* **Helpers without behaviour of their own**: `validate_uri` (no body), `rfc3339_datetime` (formats),
  `as2_equals`, `is_unauthorized` and `dereference` (one expression or one request), `asynctosync`
  (`fixtures.py:121-135`) and the proxy argument of `get` (unused by the suite), `add_to_collection` and the property
  setters that raise `NotImplementedError`.
