------------------------- MODULE RemoteServerProofs -------------------------
(***************************************************************************)
(* Theorems about RemoteServer, for all values of its constants: any       *)
(* number of tests and connections, with and without time-outs.  The first *)
(* part also holds with connections that outlive their test.               *)
(***************************************************************************)
EXTENDS RemoteServer, TLAPS

LEMMA NoConnIsNoConn == NoConn \notin Conn
BY DEF NoConn, Conn

LEMMA OrderTyped == \A i \in 1 .. 4 : AttrOrder[i] \in Attributes
BY DEF AttrOrder, Attributes

\* The elements of a sequence after an append and before a Tail.
LEMMA ElementsAppend ==
  ASSUME NEW S, NEW s \in Seq(S), NEW e \in S
  PROVE  Elements(Append(s, e)) = Elements(s) \cup {e}
<1>1. \A x \in Elements(Append(s, e)) : x \in Elements(s) \cup {e}
  BY DEF Elements
<1>2. \A x \in Elements(s) : x \in Elements(Append(s, e))
  BY DEF Elements
<1>3. e \in Elements(Append(s, e))
  <2>1. /\ Len(s) + 1 \in 1 .. Len(Append(s, e))
        /\ Append(s, e)[Len(s) + 1] = e
    OBVIOUS
  <2>2. QED BY <2>1 DEF Elements
<1>4. QED BY <1>1, <1>2, <1>3

LEMMA ElementsHeadTail ==
  ASSUME NEW S, NEW s \in Seq(S), s # << >>
  PROVE  /\ Head(s) \in Elements(s)
         /\ Elements(Tail(s)) \subseteq Elements(s)
         /\ Elements(s) \subseteq {Head(s)} \cup Elements(Tail(s))
<1>1. Head(s) \in Elements(s)
  BY DEF Elements
<1>2. Elements(Tail(s)) \subseteq Elements(s)
  BY DEF Elements
<1>3. ASSUME NEW i \in 1 .. Len(s), i # 1
      PROVE  s[i] \in Elements(Tail(s))
  <2>1. i - 1 \in 1 .. Len(Tail(s)) /\ Tail(s)[i - 1] = s[i]
    BY <1>3
  <2>2. QED BY <2>1 DEF Elements
<1>4. \A i \in 1 .. Len(s) : s[i] \in {Head(s)} \cup Elements(Tail(s))
  BY <1>3
<1>5. QED BY <1>1, <1>2, <1>4 DEF Elements

LEMMA ElementsTyped ==
  ASSUME NEW S, NEW s \in Seq(S)
  PROVE  Elements(s) \subseteq S
BY DEF Elements

-----------------------------------------------------------------------------
LEMMA NoCallIsNoCall == NoCall \notin WaitCalls
BY DEF NoCall, WaitCalls

LEMMA TypeInit == Init => TypeOK
BY ConstantsAssumption, NoConnIsNoConn
   DEF Init, TypeOK, TestTypeOK, HeapTypeOK, HandlerTypeOK, Gen, PathList,
       Attributes, NoCall, NoOutcome, NoConn, Docs, NoDoc

\* The handler's end leaves a well-typed, idle handler.
LEMMA FinishTyped ==
  ASSUME HandlerTypeOK, Finish PROVE HandlerTypeOK'
<1>1. 0 \in Gen
  BY ConstantsAssumption DEF Gen
<1>2. cap' \in [Attributes -> Gen]
  BY <1>1 DEF Finish
<1>3. QED
  BY <1>2 DEF HandlerTypeOK, Finish

\* A step of the test thread or of the peer leaves the handler typed.
LEMMA GotoTyped ==
  ASSUME HandlerTypeOK, hpc # "idle", NEW pc, Goto(pc),
         pc \in {"record", "lookup", "ok", "listen", "notify"},
         status' \in {0, 200, 404, 410}
  PROVE  HandlerTypeOK'
BY DEF HandlerTypeOK, Goto

\* Each group of variables stays typed while it does not change.
LEMMA TestFrame ==
  ASSUME TestTypeOK, UNCHANGED testVars PROVE TestTypeOK'
BY DEF TestTypeOK, testVars

LEMMA HeapFrame ==
  ASSUME HeapTypeOK, UNCHANGED <<heapVars, backlog, opened>> PROVE HeapTypeOK'
BY DEF HeapTypeOK, heapVars

LEMMA HandlerFrame ==
  ASSUME HandlerTypeOK, UNCHANGED handlerVars PROVE HandlerTypeOK'
BY DEF HandlerTypeOK, handlerVars

LEMMA TypeStep == TypeOK /\ AttrsInStep /\ [Next]_vars => TypeOK'
<1> SUFFICES ASSUME TypeOK, AttrsInStep, [Next]_vars PROVE TypeOK'
  OBVIOUS
<1> USE ConstantsAssumption, OrderTyped, NoCallIsNoCall
    DEF TypeOK, testVars, heapVars, handlerVars
<1>1. ASSUME NEW u \in Urls, NEW doc \in Docs, Serve(u, doc) PROVE TypeOK'
  <2>1. attr["documents"] \in Gen /\ DocPath[u] \in Paths
    BY DEF HeapTypeOK, Attributes
  <2>2. TestTypeOK'
    BY <1>1 DEF Serve, TestTypeOK
  <2>3. HandlerTypeOK'
    BY <1>1 DEF Serve, HandlerTypeOK
  <2>4. documents' \in [Gen -> [Paths -> Docs \cup {NoDoc}]]
    BY <1>1, <2>1 DEF Serve, HeapTypeOK
  <2>5. HeapTypeOK'
    BY <1>1, <2>4 DEF Serve, HeapTypeOK
  <2>6. QED BY <2>2, <2>3, <2>5
<1>2. CASE BeginReset
  <2>1. TestTypeOK'
    BY <1>2 DEF BeginReset, NoOutcome, TestTypeOK
  <2>2. HeapTypeOK' /\ HandlerTypeOK'
    BY <1>2, HeapFrame, HandlerFrame DEF BeginReset
  <2>3. QED BY <2>1, <2>2
<1>3. CASE ResetStep
  <2>1. test + 1 \in Gen
    BY <1>3 DEF ResetStep, AttrsInStep, Gen, TestTypeOK
  <2>2. attr' \in [Attributes -> Gen]
    BY <1>3, <2>1 DEF ResetStep, TestTypeOK, HeapTypeOK
  <2>3. TestTypeOK'
    BY <1>3, <2>1 DEF ResetStep, TestTypeOK
  <2>4. HandlerTypeOK'
    BY <1>3 DEF ResetStep, HandlerTypeOK
  <2>5. HeapTypeOK'
    BY <1>3, <2>2 DEF ResetStep, HeapTypeOK
  <2>6. QED BY <2>3, <2>4, <2>5
<1>4. ASSUME NEW c \in WaitCalls, CallWait(c) PROVE TypeOK'
  <2>1. TestTypeOK'
    BY <1>4 DEF CallWait, NoOutcome, TestTypeOK
  <2>2. HeapTypeOK' /\ HandlerTypeOK'
    BY <1>4, HeapFrame, HandlerFrame DEF CallWait
  <2>3. QED BY <2>1, <2>2
<1>5. CASE Sleep
  <2>1. TestTypeOK'
    BY <1>5 DEF Sleep, TestTypeOK
  <2>2. HeapTypeOK' /\ HandlerTypeOK'
    BY <1>5, HeapFrame, HandlerFrame DEF Sleep
  <2>3. QED BY <2>1, <2>2
<1>6. CASE Timeout
  <2>1. TestTypeOK'
    BY <1>6 DEF Timeout, TestTypeOK
  <2>2. HeapTypeOK' /\ HandlerTypeOK'
    BY <1>6, HeapFrame, HandlerFrame DEF Timeout
  <2>3. QED BY <2>1, <2>2
<1>7. CASE Scan
  <2>1. call \in WaitCalls
    BY <1>7 DEF Scan, TestTypeOK
  <2>2. requests[attr["requests"]] \in Seq(Conn)
    BY DEF HeapTypeOK, Attributes
  <2>3. TestTypeOK'
    BY <1>7, <2>1, <2>2 DEF Scan, TestTypeOK
  <2>4. QED
    BY <1>7, <2>3, HeapFrame, HandlerFrame DEF Scan
<1>8. CASE ExpectRequest
  <2>1. listening' = [listening EXCEPT ![attr["listeners"]] = TRUE]
    BY <1>8 DEF ExpectRequest
  <2>2. listening' \in [Gen -> BOOLEAN]
    BY <2>1, Zenon DEF HeapTypeOK
  <2>3. QED
    <3>1. TestTypeOK' /\ HandlerTypeOK'
      BY <1>8, TestFrame, HandlerFrame DEF ExpectRequest
    <3>2. HeapTypeOK'
      BY <1>8, <2>2 DEF ExpectRequest, HeapTypeOK
    <3>3. QED BY <3>1, <3>2
<1>9. CASE WaitForRequest
  <2>1. TestTypeOK'
    BY <1>9 DEF WaitForRequest, NoOutcome, TestTypeOK
  <2>2. HeapTypeOK' /\ HandlerTypeOK'
    BY <1>9, HeapFrame, HandlerFrame DEF WaitForRequest
  <2>3. QED BY <2>1, <2>2
<1>10. CASE RequestWaitElapses
  <2>1. TestTypeOK'
    BY <1>10 DEF RequestWaitElapses, TestTypeOK
  <2>2. HeapTypeOK' /\ HandlerTypeOK'
    BY <1>10, HeapFrame, HandlerFrame DEF RequestWaitElapses
  <2>3. QED BY <2>1, <2>2
<1>11. ASSUME NEW r \in Sends, Open(r) PROVE TypeOK'
  <2> DEFINE c == [id |-> Len(opened) + 1, method |-> r.method,
                   path |-> r.path, kind |-> r.kind, test |-> test,
                   doc |-> documents[attr["documents"]][r.path]]
  <2>1. /\ r.path \in Paths
        /\ r.method \in Methods
        /\ r.kind \in {"good", "malformed", "hangup"}
    BY DEF Methods
  <2>2. documents[attr["documents"]][r.path] \in Docs \cup {NoDoc}
    BY <2>1 DEF HeapTypeOK, Attributes
  <2>3. Len(opened) + 1 \in 1 .. NumConns
    BY <1>11 DEF Open, HeapTypeOK
  <2>4. test \in Gen
    BY DEF TestTypeOK
  <2>5. c \in Conn
    BY <2>1, <2>2, <2>3, <2>4 DEF Conn
  <2>6. backlog' = Append(backlog, c) /\ opened' = Append(opened, c)
    BY <1>11 DEF Open
  <2>7. backlog' \in Seq(Conn) /\ opened' \in Seq(Conn)
    BY <2>5, <2>6 DEF HeapTypeOK
  <2>8. QED
    <3>1. HeapTypeOK'
      BY <1>11, <2>7 DEF Open, HeapTypeOK
    <3>2. TestTypeOK' /\ HandlerTypeOK'
      BY <1>11, TestFrame, HandlerFrame DEF Open
    <3>3. QED BY <3>1, <3>2
<1>12. CASE Accept
  <2>1. Head(backlog) \in Conn /\ Tail(backlog) \in Seq(Conn)
    BY <1>12 DEF Accept, HeapTypeOK
  <2>2. conn' # NoConn
    BY <1>12, <2>1, NoConnIsNoConn DEF Accept
  <2>3. QED
    <3>1. TestTypeOK'
      BY <1>12, TestFrame DEF Accept
    <3>2. HeapTypeOK'
      BY <1>12, <2>1 DEF Accept, HeapTypeOK
    <3>3. HandlerTypeOK'
      BY <1>12, <2>1, <2>2 DEF Accept, HandlerTypeOK
    <3>4. QED BY <3>1, <3>2, <3>3
<1>13. CASE Capture
  <2>1. cap' \in [Attributes -> Gen]
    BY <1>13 DEF Capture, HeapTypeOK, HandlerTypeOK
  <2>2. HandlerTypeOK'
    BY <1>13, <2>1 DEF Capture, HandlerTypeOK
  <2>3. QED
    BY <1>13, <2>2, TestFrame, HeapFrame DEF Capture
<1>14. CASE PostAck
  <2>1. HandlerTypeOK'
    BY <1>14, GotoTyped, FinishTyped DEF PostAck
  <2>2. QED
    BY <1>14, <2>1, TestFrame, HeapFrame DEF PostAck
<1>15. CASE Record
  <2>1. HandlerTypeOK'
    <3>1. CASE Finish
      BY <3>1, FinishTyped
    <3>2. CASE ~Finish
      <4> DEFINE pc == IF conn.method = "get" THEN "lookup" ELSE "ok"
      <4>1. Goto(pc) /\ status' = status /\ hpc # "idle"
        BY <1>15, <3>2 DEF Record
      <4>2. QED BY <4>1, GotoTyped DEF HandlerTypeOK
    <3>3. QED BY <3>1, <3>2
  <2>2. requests' \in [Gen -> Seq(Conn)]
    <3>1. CASE UNCHANGED requests
      BY <3>1 DEF HeapTypeOK
    <3>2. CASE requests' = [requests EXCEPT ![cap["requests"]] = Append(@, conn)]
      <4>1. conn \in Conn /\ cap["requests"] \in Gen
        BY <1>15 DEF Record, HandlerTypeOK, Attributes
      <4>2. Append(requests[cap["requests"]], conn) \in Seq(Conn)
        BY <4>1 DEF HeapTypeOK
      <4>3. QED BY <3>2, <4>1, <4>2 DEF HeapTypeOK
    <3>3. QED BY <1>15, <3>1, <3>2 DEF Record
  <2>3. QED
    <3>1. TestTypeOK'
      BY <1>15, TestFrame DEF Record
    <3>2. HeapTypeOK'
      BY <1>15, <2>2 DEF Record, HeapTypeOK
    <3>3. QED BY <2>1, <3>1, <3>2
<1>16. CASE Lookup
  <2>1. status' \in {0, 200, 404, 410}
    BY <1>16 DEF Lookup, StatusOf, Finish
  <2>2. HandlerTypeOK'
    BY <1>16, <2>1, GotoTyped, FinishTyped DEF Lookup
  <2>3. QED
    BY <1>16, <2>2, TestFrame, HeapFrame DEF Lookup
<1>17. CASE WriteBody
  <2>1. HandlerTypeOK'
    <3>1. CASE Finish
      BY <3>1, FinishTyped
    <3>2. CASE Goto("listen") /\ UNCHANGED status
      BY <1>17, <3>2, GotoTyped DEF WriteBody, HandlerTypeOK
    <3>3. QED BY <1>17, <3>1, <3>2 DEF WriteBody
  <2>2. QED
    BY <1>17, <2>1, TestFrame, HeapFrame DEF WriteBody
<1>18. CASE Listen
  <2>0. conn \in Conn
    BY <1>18 DEF Listen, HandlerTypeOK
  <2>1. HandlerTypeOK'
    <3>1. CASE Finish
      BY <3>1, FinishTyped
    <3>2. CASE Goto("notify") /\ UNCHANGED status
      BY <1>18, <3>2, GotoTyped DEF Listen, HandlerTypeOK
    <3>3. QED BY <1>18, <3>1, <3>2 DEF Listen
  <2>2. TestTypeOK'
    BY <1>18, <2>0 DEF Listen, TestTypeOK
  <2>3. QED
    BY <1>18, <2>1, <2>2, HeapFrame DEF Listen
<1>19. CASE Notify
  <2>1. HandlerTypeOK'
    BY <1>19, FinishTyped DEF Notify
  <2>2. TestTypeOK'
    BY <1>19 DEF Notify, TestTypeOK
  <2>3. QED
    BY <1>19, <2>1, <2>2, HeapFrame DEF Notify
<1>20. CASE UNCHANGED vars
  BY <1>20, TestFrame, HeapFrame, HandlerFrame DEF vars
<1>21. QED
  BY <1>1, <1>2, <1>3, <1>4, <1>5, <1>6, <1>7, <1>8, <1>9, <1>10, <1>11,
     <1>12, <1>13, <1>14, <1>15, <1>16, <1>17, <1>18, <1>19, <1>20
     DEF Next, TestStep, ServerStep

-----------------------------------------------------------------------------
(***************************************************************************)
(* The parts of the inductive invariant, one lemma each.                   *)
(***************************************************************************)

\* What a step other than an assignment of reset() does to the attributes.
LEMMA OnlyResetAssigns ==
  ASSUME [Next]_vars, ~ResetStep
  PROVE  UNCHANGED <<attr, test>>
BY DEF Next, TestStep, ServerStep, vars, testVars, heapVars, Serve, BeginReset,
       CallWait, Sleep, Timeout, Scan, ExpectRequest, WaitForRequest,
       RequestWaitElapses, Open, Accept, Capture, PostAck, Record, Lookup,
       WriteBody, Listen, Notify

\* ... and to the test thread's place in reset().
LEMMA ResetPlace ==
  ASSUME TypeOK, [Next]_vars, ~ResetStep
  PROVE  \/ tpc' = tpc /\ rstep' = rstep
         \/ tpc' = "reset" /\ rstep' = 1 /\ test < NumResets /\ tpc # "reset"
         \/ tpc' # "reset" /\ tpc # "reset" /\ rstep' = rstep
BY DEF TypeOK, TestTypeOK, Next, TestStep, ServerStep, vars, testVars, Serve,
       BeginReset, CallWait, Sleep, Timeout, Scan, ExpectRequest,
       WaitForRequest, RequestWaitElapses, Open, Accept, Capture, PostAck,
       Record, Lookup, WriteBody, Listen, Notify

LEMMA AttrsStep == TypeOK /\ AttrsInStep /\ [Next]_vars => AttrsInStep'
<1> SUFFICES ASSUME TypeOK, AttrsInStep, [Next]_vars PROVE AttrsInStep'
  OBVIOUS
<1>1. CASE ResetStep
  <2>1. \A i \in 1 .. 4 : attr'[AttrOrder[i]] =
          IF i = rstep THEN test + 1 ELSE attr[AttrOrder[i]]
    BY <1>1 DEF ResetStep, TypeOK, TestTypeOK, HeapTypeOK, AttrOrder,
                Attributes
  <2>2. QED
    BY <1>1, <2>1 DEF ResetStep, AttrsInStep, TypeOK, TestTypeOK, Gen
<1>2. CASE ~ResetStep
  <2>1. UNCHANGED <<attr, test>>
    BY <1>2, OnlyResetAssigns
  <2>2. QED
    BY <1>2, <2>1, ResetPlace DEF AttrsInStep, TypeOK, TestTypeOK
<1>3. QED BY <1>1, <1>2

\* What each step does to the connections.
LEMMA ConnMoves ==
  ASSUME TypeOK, [Next]_vars
  PROVE  \/ \E r \in Sends : Open(r)
         \/ Accept
         \/ /\ UNCHANGED <<opened, backlog>>
            /\ conn' = conn \/ conn' = NoConn
BY DEF Next, TestStep, ServerStep, vars, testVars, heapVars, handlerVars,
       Serve, BeginReset, ResetStep, CallWait, Sleep, Timeout, Scan,
       ExpectRequest, WaitForRequest, RequestWaitElapses, Capture, PostAck,
       Record, Lookup, WriteBody, Listen, Notify, Finish, Goto

LEMMA TestGrows ==
  ASSUME TypeOK, [Next]_vars PROVE test <= test'
<1>1. CASE ResetStep
  BY <1>1 DEF ResetStep, TypeOK, TestTypeOK, Gen
<1>2. CASE ~ResetStep
  BY <1>2, OnlyResetAssigns DEF TypeOK, TestTypeOK, Gen
<1>3. QED BY <1>1, <1>2

\* The connection that Open(r) appends.
NewConn(r) == [id |-> Len(opened) + 1, method |-> r.method, path |-> r.path,
               kind |-> r.kind, test |-> test,
               doc |-> documents[attr["documents"]][r.path]]

LEMMA OpenAppends ==
  ASSUME TypeOK, NEW r \in Sends, Open(r)
  PROVE  /\ NewConn(r) \in Conn
         /\ Elements(opened') = Elements(opened) \cup {NewConn(r)}
         /\ Elements(backlog') = Elements(backlog) \cup {NewConn(r)}
<1>1. /\ r.path \in Paths
      /\ r.method \in Methods
      /\ r.kind \in {"good", "malformed", "hangup"}
  BY ConstantsAssumption DEF Methods
<1>2. documents[attr["documents"]][r.path] \in Docs \cup {NoDoc}
  BY <1>1 DEF TypeOK, HeapTypeOK, Attributes
<1>3. Len(opened) + 1 \in 1 .. NumConns
  BY ConstantsAssumption DEF Open, TypeOK, HeapTypeOK
<1>4. NewConn(r) \in Conn
  BY <1>1, <1>2, <1>3 DEF Conn, NewConn, TypeOK, TestTypeOK
<1>5. /\ backlog' = Append(backlog, NewConn(r))
      /\ opened' = Append(opened, NewConn(r))
  BY DEF Open, NewConn
<1>6. QED
  BY <1>4, <1>5, ElementsAppend DEF TypeOK, HeapTypeOK

LEMMA ConnsStep ==
  TypeOK /\ AttrsInStep /\ ConnsFromPast /\ [Next]_vars => ConnsFromPast'
<1> SUFFICES ASSUME TypeOK, AttrsInStep, ConnsFromPast, [Next]_vars
             PROVE  ConnsFromPast'
  OBVIOUS
<1>0. \A c \in Elements(opened) : c.test \in Nat /\ c.test <= test'
  <2>1. Elements(opened) \subseteq Conn
    BY ElementsTyped DEF TypeOK, HeapTypeOK
  <2>2. \A c \in Elements(opened) : c.test \in Nat
    BY <2>1, ConstantsAssumption DEF Conn, Gen
  <2>3. test \in Nat /\ test' \in Nat
    BY TypeStep, ConstantsAssumption DEF TypeOK, TestTypeOK, Gen
  <2>4. QED
    BY <2>2, <2>3, TestGrows DEF ConnsFromPast
<1>1. ASSUME NEW r \in Sends, Open(r) PROVE ConnsFromPast'
  <2>1. NewConn(r).test <= test' /\ conn' = conn
    BY <1>1 DEF Open, NewConn, testVars, handlerVars, TypeOK, TestTypeOK, Gen
  <2>2. QED
    BY <1>0, <1>1, <2>1, OpenAppends DEF ConnsFromPast
<1>2. CASE Accept
  BY <1>0, <1>2, ElementsHeadTail
     DEF Accept, ConnsFromPast, TypeOK, HeapTypeOK
<1>3. CASE UNCHANGED <<opened, backlog>> /\ (conn' = conn \/ conn' = NoConn)
  BY <1>0, <1>3 DEF ConnsFromPast
<1>4. QED BY <1>1, <1>2, <1>3, ConnMoves

\* What each step does to the handler.
LEMMA HandlerMoves ==
  ASSUME TypeOK, [Next]_vars
  PROVE  \/ Accept
         \/ Capture
         \/ Finish /\ hpc \notin {"idle", "capture"}
         \/ /\ UNCHANGED <<conn, cap, cstep>>
            /\ \/ UNCHANGED <<hpc, status>>
               \/ hpc \notin {"idle", "capture"} /\ hpc' \notin {"idle", "capture", "ack"}
BY DEF Next, TestStep, ServerStep, vars, testVars, heapVars, handlerVars,
       Serve, BeginReset, ResetStep, CallWait, Sleep, Timeout, Scan,
       ExpectRequest, WaitForRequest, RequestWaitElapses, Open, PostAck,
       Record, Lookup, WriteBody, Listen, Notify, Goto

LEMMA HandlerStep == TypeOK /\ HandlerInStep /\ [Next]_vars => HandlerInStep'
<1> SUFFICES ASSUME TypeOK, HandlerInStep, [Next]_vars PROVE HandlerInStep'
  OBVIOUS
<1>1. CASE Accept
  BY <1>1 DEF Accept, HandlerInStep
<1>2. CASE Capture
  <2>1. conn \in Conn
    BY <1>2 DEF Capture, TypeOK, HandlerTypeOK
  <2>2. QED
    BY <1>2, <2>1 DEF Capture, HandlerInStep, Conn, Methods, TypeOK,
                      HandlerTypeOK
<1>3. CASE Finish /\ hpc \notin {"idle", "capture"}
  BY <1>3 DEF Finish, HandlerInStep
<1>4. CASE UNCHANGED <<conn, cap, cstep>> /\ UNCHANGED <<hpc, status>>
  BY <1>4 DEF HandlerInStep
<1>5. CASE /\ UNCHANGED <<conn, cap, cstep>>
           /\ hpc \notin {"idle", "capture"}
           /\ hpc' \notin {"idle", "capture", "ack"}
  BY <1>5 DEF HandlerInStep
<1>6. QED BY <1>1, <1>2, <1>3, <1>4, <1>5, HandlerMoves

LEMMA AttrsGrow ==
  ASSUME TypeOK, AttrsInStep, [Next]_vars
  PROVE  \A a \in Attributes : attr[a] <= attr'[a]
<1>1. CASE ResetStep
  <2>1. attr[AttrOrder[rstep]] = test /\ AttrOrder[rstep] \in Attributes
    BY <1>1, OrderTyped DEF ResetStep, AttrsInStep, TypeOK, TestTypeOK
  <2>2. attr' = [attr EXCEPT ![AttrOrder[rstep]] = test + 1]
    BY <1>1 DEF ResetStep
  <2>3. test \in Nat /\ \A a \in Attributes : attr[a] \in Nat
    BY ConstantsAssumption DEF TypeOK, TestTypeOK, HeapTypeOK, Gen
  <2>4. QED BY <2>1, <2>2, <2>3 DEF TypeOK, HeapTypeOK
<1>2. CASE ~ResetStep
  BY <1>2, OnlyResetAssigns, ConstantsAssumption DEF TypeOK, HeapTypeOK, Gen
<1>3. QED BY <1>1, <1>2

LEMMA CaptureStep ==
  TypeOK /\ AttrsInStep /\ ConnsFromPast /\ HandlerInStep /\ CaptureInStep
    /\ [Next]_vars => CaptureInStep'
<1> SUFFICES ASSUME TypeOK, AttrsInStep, ConnsFromPast, HandlerInStep,
                    CaptureInStep, [Next]_vars
             PROVE  CaptureInStep'
  OBVIOUS
<1>0. /\ \A i \in 1 .. 4 : AttrOrder[i] \in Attributes
      /\ \A a \in Attributes : /\ attr[a] \in Nat
                               /\ attr'[a] \in Nat
                               /\ cap[a] \in Nat
                               /\ attr[a] <= attr'[a]
  <2>1. attr \in [Attributes -> Gen] /\ attr' \in [Attributes -> Gen]
    BY TypeStep DEF TypeOK, HeapTypeOK
  <2>2. cap \in [Attributes -> Gen]
    BY DEF TypeOK, HandlerTypeOK
  <2>3. QED
    BY <2>1, <2>2, OrderTyped, AttrsGrow, ConstantsAssumption DEF Gen
<1>1. CASE Accept
  BY <1>1 DEF Accept, CaptureInStep, HandlerInStep, Captured
<1>2. CASE Capture
  <2>1. conn' = conn /\ conn # NoConn /\ attr' = attr
    BY <1>2 DEF Capture, TypeOK, HandlerTypeOK, heapVars
  <2>2. conn.test <= test /\ conn.test \in Nat /\ test \in Nat
    BY <2>1 DEF ConnsFromPast, TypeOK, HandlerTypeOK, Conn, TestTypeOK, Gen
  <2>3. \A i \in 1 .. 4 : test <= attr[AttrOrder[i]]
    BY <2>2 DEF AttrsInStep
  <2>4. \A i \in 1 .. 4 : cap'[AttrOrder[i]] =
          IF i = cstep THEN attr[AttrOrder[i]] ELSE cap[AttrOrder[i]]
    BY <1>2 DEF Capture, TypeOK, HandlerTypeOK, AttrOrder, Attributes
  <2>5. \A i \in 1 .. 4 : Captured(i)' => i = cstep \/ Captured(i)
    BY <1>2 DEF Capture, Captured, TypeOK, HandlerTypeOK
  <2>6. QED
    BY <1>0, <2>1, <2>2, <2>3, <2>4, <2>5 DEF CaptureInStep
<1>3. CASE Finish
  BY <1>3 DEF Finish, CaptureInStep
<1>4. CASE UNCHANGED <<conn, cap, cstep>> /\ UNCHANGED <<hpc, status>>
  <2>1. CASE conn = NoConn
    BY <1>4, <2>1 DEF CaptureInStep
  <2>2. CASE conn # NoConn
    <3>1. \A i \in 1 .. 4 : Captured(i)' <=> Captured(i)
      BY <1>4 DEF Captured
    <3>2. QED BY <1>0, <1>4, <2>2, <3>1 DEF CaptureInStep
  <2>3. QED BY <2>1, <2>2
<1>5. CASE /\ UNCHANGED <<conn, cap, cstep>>
           /\ hpc \notin {"idle", "capture"}
           /\ hpc' \notin {"idle", "capture", "ack"}
  <2>1. \A i \in 1 .. 4 : Captured(i)
    BY <1>5 DEF Captured
  <2>2. QED BY <1>0, <1>5, <2>1 DEF CaptureInStep
<1>6. QED BY <1>1, <1>2, <1>3, <1>4, <1>5, HandlerMoves

\* The document steps: only Serve writes, only Open looks.
LEMMA DocumentMoves ==
  ASSUME TypeOK, [Next]_vars
  PROVE  \/ \E u \in Urls, doc \in Docs : Serve(u, doc)
         \/ \E r \in Sends : Open(r)
         \/ UNCHANGED <<documents, opened>>
BY DEF Next, TestStep, ServerStep, vars, testVars, heapVars, handlerVars,
       BeginReset, ResetStep, CallWait, Sleep, Timeout, Scan, ExpectRequest,
       WaitForRequest, RequestWaitElapses, Accept, Capture, PostAck, Record,
       Lookup, WriteBody, Listen, Notify

LEMMA DocumentsStep ==
  TypeOK /\ AttrsInStep /\ DocumentsStay /\ [Next]_vars => DocumentsStay'
<1> SUFFICES ASSUME TypeOK, AttrsInStep, DocumentsStay, [Next]_vars
             PROVE  DocumentsStay'
  OBVIOUS
<1>0. /\ Elements(opened) \subseteq Conn
      /\ test \in Nat /\ test' \in Nat /\ test <= test'
      /\ Gen \subseteq Nat
      /\ documents \in [Gen -> [Paths -> Docs \cup {NoDoc}]]
  <2>1. Elements(opened) \subseteq Conn
    BY ElementsTyped DEF TypeOK, HeapTypeOK
  <2>2. Gen \subseteq Nat
    BY ConstantsAssumption DEF Gen
  <2>3. test \in Nat /\ test' \in Nat
    BY <2>2, TypeStep DEF TypeOK, TestTypeOK
  <2>4. QED
    BY <2>1, <2>2, <2>3, TestGrows DEF TypeOK, HeapTypeOK
<1>1. ASSUME NEW u \in Urls, NEW doc \in Docs, Serve(u, doc)
      PROVE  DocumentsStay'
  <2>1. attr["documents"] = test /\ DocPath[u] \in Paths /\ doc # NoDoc
    <3>1. AttrOrder[1] = "documents" /\ tpc # "reset"
      BY <1>1 DEF AttrOrder, Serve
    <3>2. attr[AttrOrder[1]] = test
      BY <3>1 DEF AttrsInStep
    <3>3. QED BY <3>1, <3>2, ConstantsAssumption DEF Docs, NoDoc
  <2>2. /\ documents' = [documents EXCEPT ![test][DocPath[u]] = doc]
        /\ UNCHANGED <<opened, test>>
    BY <1>1, <2>1 DEF Serve, testVars
  <2>3. \A g \in Gen, p \in Paths :
           documents[g][p] # NoDoc => documents'[g][p] # NoDoc
    BY <1>0, <2>1, <2>2
  <2>4. \A g \in Gen : g > test => documents'[g] = documents[g]
    BY <1>0, <2>2
  <2>5. \A c \in Elements(opened) : c.test \in Gen /\ c.path \in Paths
    BY <1>0 DEF Conn
  <2>6. QED
    BY <2>2, <2>3, <2>4, <2>5 DEF DocumentsStay
<1>2. ASSUME NEW r \in Sends, Open(r) PROVE DocumentsStay'
  <2>1. UNCHANGED <<documents, test>>
    BY <1>2 DEF Open, testVars, heapVars
  <2>2. NewConn(r).doc # NoDoc
          => documents[NewConn(r).test][NewConn(r).path] # NoDoc
    <3>1. attr["documents"] = test \/ attr["documents"] = test + 1
      <4>1. AttrOrder[1] = "documents"
        BY DEF AttrOrder
      <4>2. attr[AttrOrder[1]] = test \/ attr[AttrOrder[1]] = test + 1
        BY DEF AttrsInStep
      <4>3. QED BY <4>1, <4>2
    <3>2. r.path \in Paths /\ attr["documents"] \in Gen
      BY ConstantsAssumption DEF TypeOK, HeapTypeOK, Attributes
    <3>3. attr["documents"] = test + 1 => documents[attr["documents"]] = PathList
      BY <1>0, <3>2 DEF DocumentsStay
    <3>4. QED
      BY <3>1, <3>2, <3>3 DEF NewConn, PathList
  <2>3. QED
    BY <1>2, <2>1, <2>2, OpenAppends DEF DocumentsStay
<1>3. CASE UNCHANGED <<documents, opened>>
  BY <1>0, <1>3 DEF DocumentsStay
<1>4. QED BY <1>1, <1>2, <1>3, DocumentMoves

\* A handler that serves a connection of the running test has captured the
\* objects of the running test.
LEMMA OwnCapture ==
  ASSUME TypeOK, AttrsInStep, CaptureInStep, conn # NoConn,
         hpc # "capture", Own(conn)
  PROVE  \A a \in Attributes : cap[a] = attr[a]
<1>1. \A i \in 1 .. 4 : cap[AttrOrder[i]] = attr[AttrOrder[i]]
  <2> SUFFICES ASSUME NEW i \in 1 .. 4
               PROVE  cap[AttrOrder[i]] = attr[AttrOrder[i]]
    OBVIOUS
  <2>1. test <= cap[AttrOrder[i]] /\ cap[AttrOrder[i]] <= attr[AttrOrder[i]]
    BY DEF CaptureInStep, Captured, Own
  <2>2. attr[AttrOrder[i]] = test
    BY DEF AttrsInStep, Own
  <2>3. cap[AttrOrder[i]] \in Nat /\ test \in Nat
    BY OrderTyped, ConstantsAssumption
       DEF TypeOK, TestTypeOK, HandlerTypeOK, Gen
  <2>4. QED BY <2>1, <2>2, <2>3
<1>2. \A a \in Attributes : \E i \in 1 .. 4 : AttrOrder[i] = a
  <2>1. /\ AttrOrder[1] = "documents" /\ AttrOrder[2] = "requests"
        /\ AttrOrder[3] = "listeners" /\ AttrOrder[4] = "post_received"
    BY DEF AttrOrder
  <2>2. QED BY <2>1 DEF Attributes
<1>3. QED BY <1>1, <1>2

\* What Record does to the current list.
LEMMA RecordAppends ==
  ASSUME TypeOK, Record
  PROVE  \/ UNCHANGED requests /\ ~Readable(conn) /\ Finish
         \/ /\ \A g \in Gen : Elements(requests'[g]) =
                 IF g = cap["requests"] THEN Elements(requests[g]) \cup {conn}
                                        ELSE Elements(requests[g])
            /\ cap["requests"] \in Gen
            /\ hpc' = (IF conn.method = "get" THEN "lookup" ELSE "ok")
            /\ UNCHANGED <<conn, cap>>
<1>1. CASE conn.method = "post" /\ conn.kind = "malformed"
  BY <1>1 DEF Record, Readable
<1>2. CASE ~(conn.method = "post" /\ conn.kind = "malformed")
  <2>1. requests' = [requests EXCEPT ![cap["requests"]] = Append(@, conn)]
    BY <1>2 DEF Record
  <2>2. conn \in Conn /\ cap["requests"] \in Gen
    BY DEF Record, TypeOK, HandlerTypeOK, Attributes
  <2>3. Elements(Append(requests[cap["requests"]], conn))
          = Elements(requests[cap["requests"]]) \cup {conn}
    BY <2>2, ElementsAppend DEF TypeOK, HeapTypeOK
  <2>4. \A g \in Gen : requests'[g] =
          IF g = cap["requests"] THEN Append(requests[g], conn) ELSE requests[g]
    BY <2>1 DEF TypeOK, HeapTypeOK
  <2>5. QED
    BY <1>2, <2>2, <2>3, <2>4 DEF Record, Goto
<1>3. QED BY <1>1, <1>2

LEMMA WakeupStep ==
  TypeOK /\ AttrsInStep /\ CaptureInStep /\ NoLostWakeup /\ [Next]_vars
    => NoLostWakeup'
<1> SUFFICES ASSUME TypeOK, AttrsInStep, CaptureInStep, NoLostWakeup,
                    [Next]_vars,
                    tpc' \in {"held", "asleep"},
                    NEW c \in Elements(requests[attr["requests"]])',
                    Own(c)', c.method = "post", c.kind = "good"
             PROVE  /\ conn' = c
                    /\ hpc' \in {"ok", "listen", "notify"}
                    /\ cap'["post_received"] = attr'["post_received"]
  BY DEF NoLostWakeup, Current
<1> DEFINE Here == c \in Elements(requests[attr["requests"]])
           Safe == /\ conn = c
                   /\ hpc \in {"ok", "listen", "notify"}
                   /\ cap["post_received"] = attr["post_received"]
<1>0. Here /\ tpc \in {"held", "asleep"} /\ UNCHANGED test => Safe
  BY DEF NoLostWakeup, Current, Own
<1>1. CASE \E u \in Urls, doc \in Docs : Serve(u, doc)
  BY <1>1 DEF Serve, testVars
<1>2. CASE BeginReset \/ ResetStep \/ Timeout \/ Scan
  BY <1>2 DEF BeginReset, ResetStep, Timeout, Scan, TypeOK, TestTypeOK
<1>3. CASE ExpectRequest \/ WaitForRequest \/ RequestWaitElapses
  BY <1>3 DEF ExpectRequest, WaitForRequest, RequestWaitElapses, testVars
<1>4. ASSUME NEW q \in WaitCalls, CallWait(q) PROVE FALSE
  <2>1. Here
    BY <1>4 DEF CallWait, heapVars
  <2>2. Posts(requests[attr["requests"]]) # {}
    BY <2>1 DEF Posts, Elements
  <2>3. QED BY <1>4, <2>2 DEF CallWait
<1>5. CASE Sleep
  BY <1>0, <1>5 DEF Sleep, heapVars, handlerVars
<1>6. CASE \E r \in Sends : Open(r)
  BY <1>0, <1>6 DEF Open, testVars, heapVars, handlerVars
<1>7. CASE Accept \/ Capture
  BY <1>0, <1>7 DEF Accept, Capture, testVars, heapVars
<1>8. CASE Record
  <2>1. ~Here
    BY <1>0, <1>8 DEF Record, testVars
  <2>2. UNCHANGED <<attr, tpc, test>> /\ attr["requests"] \in Gen
    BY <1>8 DEF Record, testVars, TypeOK, HeapTypeOK, Attributes
  <2>3. /\ c = conn /\ conn' = conn /\ cap' = cap
        /\ hpc' = (IF conn.method = "get" THEN "lookup" ELSE "ok")
    <3>1. CASE UNCHANGED requests /\ ~Readable(conn) /\ Finish
      BY <2>1, <2>2, <3>1
    <3>2. CASE /\ \A g \in Gen : Elements(requests'[g]) =
                   IF g = cap["requests"] THEN Elements(requests[g]) \cup {conn}
                                          ELSE Elements(requests[g])
               /\ cap["requests"] \in Gen
               /\ hpc' = (IF conn.method = "get" THEN "lookup" ELSE "ok")
               /\ UNCHANGED <<conn, cap>>
      <4>1. c \in Elements(requests'[attr["requests"]])
        BY <2>2
      <4>2. c \in Elements(requests[attr["requests"]]) \cup {conn}
        BY <2>2, <3>2, <4>1
      <4>3. QED BY <2>1, <3>2, <4>2
    <3>3. QED BY <1>8, <3>1, <3>2, RecordAppends
  <2>4. Own(conn) /\ conn # NoConn /\ hpc = "record"
    BY <1>8, <2>2, <2>3 DEF Own, Record, TypeOK, HandlerTypeOK
  <2>5. cap["post_received"] = attr["post_received"]
    BY <2>4, OwnCapture DEF Attributes
  <2>6. QED BY <2>2, <2>3, <2>5
<1>9. CASE PostAck \/ Lookup \/ WriteBody
  <2>1. Safe
    BY <1>0, <1>9 DEF PostAck, Lookup, WriteBody, testVars, heapVars
  <2>2. QED
    BY <1>9, <2>1 DEF PostAck, Lookup, WriteBody, Goto, heapVars
<1>10. CASE Listen
  <2>1. Safe
    BY <1>0, <1>10 DEF Listen, heapVars
  <2>2. QED
    BY <1>10, <2>1 DEF Listen, Goto, heapVars
<1>11. CASE Notify
  BY <1>0, <1>11 DEF Notify, heapVars
<1>12. CASE UNCHANGED vars
  BY <1>0, <1>12 DEF vars
<1>13. QED
  BY <1>1, <1>2, <1>3, <1>4, <1>5, <1>6, <1>7, <1>8, <1>9, <1>10, <1>11, <1>12
     DEF Next, TestStep, ServerStep

\* A request keeps its place unless it is the one in the handler.
LEMMA RequestsKept ==
  ASSUME TypeOK, [Next]_vars, ~Record
  PROVE  UNCHANGED requests
BY DEF Next, TestStep, ServerStep, vars, testVars, heapVars, handlerVars,
       Serve, BeginReset, ResetStep, CallWait, Sleep, Timeout, Scan,
       ExpectRequest, WaitForRequest, RequestWaitElapses, Open, Accept,
       Capture, PostAck, Lookup, WriteBody, Listen, Notify

LEMMA LostStep ==
  TypeOK /\ AttrsInStep /\ ConnsFromPast /\ CaptureInStep /\ HandlerInStep
    /\ NoRequestLost /\ [Next]_vars => NoRequestLost'
<1> SUFFICES ASSUME TypeOK, AttrsInStep, ConnsFromPast, CaptureInStep,
                    HandlerInStep, NoRequestLost, [Next]_vars,
                    NEW c \in Elements(opened)', Own(c)', Readable(c)
             PROVE  \/ c \in Elements(backlog')
                    \/ conn' = c /\ hpc' \in {"capture", "ack", "record"}
                    \/ c \in Elements(requests[attr["requests"]])'
  BY DEF NoRequestLost, Current
<1> DEFINE Held == \/ c \in Elements(backlog)
                   \/ conn = c /\ hpc \in {"capture", "ack", "record"}
                   \/ c \in Elements(requests[attr["requests"]])
<1>0. c \in Elements(opened) /\ UNCHANGED <<tpc, test>> => Held
  BY DEF NoRequestLost, Current, Own
<1>1. ASSUME NEW r \in Sends, Open(r) PROVE Held'
  BY <1>0, <1>1, OpenAppends DEF Open, testVars, heapVars, handlerVars
<1>2. CASE ResetStep
  <2>1. opened' = opened /\ test' = test + 1 /\ c.test = test + 1
    BY <1>2 DEF ResetStep, Own
  <2>2. c.test <= test /\ test \in Nat
    BY <2>1, ConstantsAssumption DEF ConnsFromPast, TypeOK, TestTypeOK, Gen
  <2>3. QED BY <2>1, <2>2
<1>3. CASE Accept
  BY <1>0, <1>3, ElementsHeadTail
     DEF Accept, testVars, heapVars, TypeOK, HeapTypeOK
<1>4. CASE Capture \/ PostAck
  <2>1. Held /\ UNCHANGED <<attr, tpc, test, backlog, requests>>
    BY <1>0, <1>4 DEF Capture, PostAck, testVars, heapVars
  <2>2. conn = c /\ hpc = "ack" => conn.kind # "hangup"
    BY DEF Readable, HandlerInStep
  <2>3. QED
    BY <1>4, <2>1, <2>2 DEF Capture, PostAck, Goto
<1>5. CASE Record
  <2>1. Held /\ UNCHANGED <<attr, tpc, test, backlog>>
    BY <1>0, <1>5 DEF Record, testVars
  <2>2. attr["requests"] \in Gen
    BY DEF TypeOK, HeapTypeOK, Attributes
  <2>3. CASE UNCHANGED requests /\ ~Readable(conn) /\ Finish
    <3>1. c # conn
      BY <2>3
    <3>2. QED BY <2>1, <2>3, <3>1
  <2>4. CASE \A g \in Gen : Elements(requests'[g]) =
               IF g = cap["requests"] THEN Elements(requests[g]) \cup {conn}
                                      ELSE Elements(requests[g])
    <3>1. Elements(requests[attr["requests"]])
            \subseteq Elements(requests[attr["requests"]])'
      BY <2>1, <2>2, <2>4
    <3>2. CASE c = conn
      <4>1. Own(conn) /\ conn # NoConn /\ hpc # "capture"
        BY <1>5, <2>1, <3>2 DEF Own, Record, TypeOK, HandlerTypeOK
      <4>2. cap["requests"] = attr["requests"]
        BY <4>1, OwnCapture DEF Attributes
      <4>3. QED BY <2>1, <2>2, <2>4, <3>2, <4>2
    <3>3. QED BY <2>1, <3>1, <3>2
  <2>5. QED BY <1>5, <2>3, <2>4, RecordAppends
<1>6. CASE Lookup \/ WriteBody
  BY <1>0, <1>6 DEF Lookup, WriteBody, testVars, heapVars
<1>7. CASE Listen \/ Notify
  <2>1. Held
    BY <1>7 DEF Listen, Notify, NoRequestLost, Current, Own
  <2>2. QED
    BY <1>7, <2>1 DEF Listen, Notify, heapVars
<1>8. CASE \/ \E u \in Urls, doc \in Docs : Serve(u, doc)
           \/ ExpectRequest
  BY <1>0, <1>8 DEF Serve, ExpectRequest, testVars, handlerVars
<1>9. CASE \/ BeginReset
           \/ \E q \in WaitCalls : CallWait(q)
           \/ Sleep
           \/ Timeout
           \/ Scan
           \/ WaitForRequest
           \/ RequestWaitElapses
  <2>1. tpc # "reset" /\ tpc' # "reset" /\ UNCHANGED <<opened, test>>
    BY <1>9 DEF BeginReset, CallWait, Sleep, Timeout, Scan, WaitForRequest,
                RequestWaitElapses, Own
  <2>2. Held
    BY <2>1 DEF NoRequestLost, Current, Own
  <2>3. QED
    BY <1>9, <2>2 DEF BeginReset, CallWait, Sleep, Timeout, Scan,
                WaitForRequest, RequestWaitElapses, heapVars, handlerVars
<1>10. CASE UNCHANGED vars
  BY <1>0, <1>10 DEF vars
<1>11. QED
  BY <1>1, <1>2, <1>3, <1>4, <1>5, <1>6, <1>7, <1>8, <1>9, <1>10
     DEF Next, TestStep, ServerStep

LEMMA FoundStep ==
  TypeOK /\ ConnsFromPast /\ CaptureInStep /\ DocumentsStay /\ HandlerInStep
    /\ PublishedIsFound /\ [Next]_vars => PublishedIsFound'
<1> SUFFICES ASSUME TypeOK, ConnsFromPast, CaptureInStep, DocumentsStay,
                    HandlerInStep, PublishedIsFound, [Next]_vars,
                    status' = 404, conn'.doc # NoDoc
             PROVE  cap'["documents"] > conn'.test
  BY DEF PublishedIsFound
<1>1. CASE Accept \/ Capture
  BY <1>1 DEF Accept, Capture, HandlerInStep
<1>2. CASE Finish \/ PostAck
  BY <1>2 DEF Finish, PostAck
<1>3. CASE Lookup /\ ~Finish
  <2>1. UNCHANGED <<conn, cap>> /\ conn \in Conn /\ conn # NoConn
    BY <1>3 DEF Lookup, Goto, TypeOK, HandlerTypeOK
  <2>2. documents[cap["documents"]][conn.path] = NoDoc
    BY <1>3 DEF Lookup, StatusOf
  <2>3. documents[conn.test][conn.path] # NoDoc
    BY <2>1 DEF ConnsFromPast, DocumentsStay
  <2>4. conn.test <= cap["documents"]
    <3>1. AttrOrder[1] = "documents" /\ Captured(1)
      BY <1>3 DEF AttrOrder, Lookup, Captured
    <3>2. QED BY <2>1, <3>1 DEF CaptureInStep
  <2>5. conn.test \in Nat /\ cap["documents"] \in Nat
    BY <2>1, ConstantsAssumption
       DEF Conn, TypeOK, HandlerTypeOK, Attributes, Gen
  <2>6. QED BY <2>1, <2>2, <2>3, <2>4, <2>5
<1>4. CASE UNCHANGED <<conn, cap, status>>
  BY <1>4 DEF PublishedIsFound
<1>5. QED
  BY <1>1, <1>2, <1>3, <1>4
     DEF Next, TestStep, ServerStep, vars, testVars, heapVars, handlerVars,
         Serve, BeginReset, ResetStep, CallWait, Sleep, Timeout, Scan,
         ExpectRequest, WaitForRequest, RequestWaitElapses, Open, Record,
         WriteBody, Listen, Notify, Goto

LEMMA LeakStep ==
  TypeOK /\ CaptureInStep /\ NoLeakForward /\ [Next]_vars => NoLeakForward'
<1> SUFFICES ASSUME TypeOK, CaptureInStep, NoLeakForward, [Next]_vars
             PROVE  NoLeakForward'
  OBVIOUS
<1>1. CASE Record
  <2>1. conn.test <= cap["requests"]
    <3>1. AttrOrder[2] = "requests" /\ Captured(2) /\ conn # NoConn
      BY <1>1 DEF AttrOrder, Record, Captured, TypeOK, HandlerTypeOK
    <3>2. QED BY <3>1 DEF CaptureInStep
  <2>2. QED
    <3>1. CASE UNCHANGED requests
      BY <3>1 DEF NoLeakForward
    <3>2. CASE \A g \in Gen : Elements(requests'[g]) =
                 IF g = cap["requests"] THEN Elements(requests[g]) \cup {conn}
                                        ELSE Elements(requests[g])
      <4>1. ASSUME NEW g \in Gen, NEW c \in Elements(requests'[g])
            PROVE  c.test <= g
        <5>1. CASE g = cap["requests"] /\ c = conn
          BY <2>1, <5>1
        <5>2. CASE c \in Elements(requests[g])
          BY <5>2 DEF NoLeakForward
        <5>3. QED BY <3>2, <4>1, <5>1, <5>2
      <4>2. QED BY <4>1 DEF NoLeakForward
    <3>3. QED BY <1>1, <3>1, <3>2, RecordAppends
<1>2. CASE ~Record
  BY <1>2, RequestsKept DEF NoLeakForward
<1>3. QED BY <1>1, <1>2

-----------------------------------------------------------------------------
LEMMA InvInit == Init => IInv
<1> SUFFICES ASSUME Init PROVE IInv
  OBVIOUS
<1>1. TypeOK
  BY TypeInit
<1>2. \A s : s = << >> => Elements(s) = {}
  BY DEF Elements
<1>3. AttrsInStep
  BY OrderTyped DEF Init, AttrsInStep
<1>4. ConnsFromPast /\ CaptureInStep /\ HandlerInStep
  BY <1>2 DEF Init, ConnsFromPast, CaptureInStep, HandlerInStep
<1>5. DocumentsStay
  BY <1>2 DEF Init, DocumentsStay
<1>6. NoLostWakeup /\ NoRequestLost /\ PublishedIsFound
  BY <1>2 DEF Init, NoLostWakeup, NoRequestLost, PublishedIsFound
<1>7. NoLeakForward
  BY <1>2 DEF Init, NoLeakForward
<1>8. QED
  BY <1>1, <1>3, <1>4, <1>5, <1>6, <1>7 DEF IInv

LEMMA InvStep == IInv /\ [Next]_vars => IInv'
BY TypeStep, AttrsStep, ConnsStep, CaptureStep, DocumentsStep, HandlerStep,
   WakeupStep, LostStep, FoundStep, LeakStep DEF IInv

\* The inductive invariant holds throughout: the objects a handler captured
\* are never older than the test its connection belongs to.
THEOREM Invariance == Spec => []IInv
BY InvInit, InvStep, PTL DEF Spec

\* Every reachable state is well typed.
THEOREM TypeCorrect == Spec => []TypeOK
<1>1. IInv => TypeOK
  BY DEF IInv
<1>2. QED BY <1>1, Invariance, PTL

\* _wait_for_post never sleeps through a post of its own test that a live
\* peer sent, however reset() and the handlers interleave.
THEOREM WakeupsAreNotLost == Spec => []NoLostWakeup
<1>1. IInv => NoLostWakeup
  BY DEF IInv
<1>2. QED BY <1>1, Invariance, PTL

\* Whatever the running test's peers sent is in the list the test reads, or
\* on its way there.
THEOREM RequestsAreNotLost == Spec => []NoRequestLost
<1>1. IInv => NoRequestLost
  BY DEF IInv
<1>2. QED BY <1>1, Invariance, PTL

\* A document published before a connection was opened is found by it.
THEOREM PublishedDocumentsAreFound == Spec => []PublishedIsFound
<1>1. IInv => PublishedIsFound
  BY DEF IInv
<1>2. QED BY <1>1, Invariance, PTL

\* No list holds a request of a later test.
THEOREM NothingLeaksForward == Spec => []NoLeakForward
<1>1. IInv => NoLeakForward
  BY DEF IInv
<1>2. QED BY <1>1, Invariance, PTL

-----------------------------------------------------------------------------
(***************************************************************************)
(* What RemoteServer does when no connection outlives the test it was      *)
(* opened in, for all values of the other constants: the answers of a test *)
(* are its own, and the server implements the mailbox of PostMailbox.      *)
(***************************************************************************)

\* During a reset no connection is waiting or handled, so that a connection
\* belongs to the running test for as long as it exists, and the outcome of
\* the last call has been dropped.
ConnsIsolated ==
  /\ tpc = "reset" => /\ backlog = << >>
                      /\ hpc = "idle"
                      /\ outcome = NoOutcome
  /\ \A c \in Elements(backlog) : c.test = test
  /\ conn # NoConn => conn.test = test

\* A list holds the requests of its own test, and those of tests to come are
\* empty.
ListsIsolated ==
  \A g \in Gen : /\ \A c \in Elements(requests[g]) : c.test = g
                 /\ g > test => requests[g] = << >>

\* The handler records a request before it answers, and only a post notifies.
RecordedFirst ==
  /\ hpc \in {"lookup", "ok", "listen", "notify"}
       => conn \in Elements(requests[cap["requests"]])
  /\ hpc = "notify" => conn.method = "post"

Isolation ==
  /\ IInv
  /\ ConnsIsolated
  /\ ListsIsolated
  /\ RecordedFirst
  /\ OwnAnswersOnly
  /\ NeverEmptyAnswer
  /\ HeardIsRecorded

-----------------------------------------------------------------------------
\* What the reset and the capture amount to without late connections.
LEMMA TestsAgree ==
  ASSUME IInv, ConnsIsolated
  PROVE  /\ test \in Gen /\ Gen \subseteq Nat
         /\ tpc # "reset" => /\ attr["requests"] = test
                             /\ attr["listeners"] = test
                             /\ attr["post_received"] = test
         /\ conn # NoConn => tpc # "reset"
         /\ conn # NoConn /\ hpc # "capture" =>
              /\ cap["requests"] = test
              /\ cap["listeners"] = test
              /\ cap["post_received"] = test
<1>1. test \in Gen /\ Gen \subseteq Nat
  BY ConstantsAssumption DEF IInv, TypeOK, TestTypeOK, Gen
<1>2. /\ AttrOrder[2] = "requests" /\ AttrOrder[3] = "listeners"
      /\ AttrOrder[4] = "post_received"
  BY DEF AttrOrder
<1>3. ASSUME tpc # "reset" PROVE \A i \in 1 .. 4 : attr[AttrOrder[i]] = test
  BY <1>3 DEF IInv, AttrsInStep
<1>4. conn # NoConn => tpc # "reset"
  BY DEF ConnsIsolated, IInv, TypeOK, HandlerTypeOK
<1>5. ASSUME conn # NoConn, hpc # "capture"
      PROVE  \A i \in 1 .. 4 : cap[AttrOrder[i]] = test
  <2>1. \A i \in 1 .. 4 : conn.test <= cap[AttrOrder[i]] /\ cap[AttrOrder[i]] <= test
    BY <1>3, <1>4, <1>5 DEF IInv, CaptureInStep, Captured
  <2>2. conn.test = test
    BY <1>5 DEF ConnsIsolated
  <2>3. \A i \in 1 .. 4 : cap[AttrOrder[i]] \in Nat
    <3>1. cap \in [Attributes -> Gen]
      BY DEF IInv, TypeOK, HandlerTypeOK
    <3>2. QED BY <1>1, <3>1, OrderTyped
  <2>4. QED BY <1>1, <2>1, <2>2, <2>3
<1>6. QED BY <1>1, <1>2, <1>3, <1>4, <1>5

LEMMA ConnsIsolatedStep ==
  ASSUME ~LateDelivery, IInv, ConnsIsolated, [Next]_vars
  PROVE  ConnsIsolated'
<1>1. CASE BeginReset
  BY <1>1 DEF BeginReset, ConnsIsolated, handlerVars
<1>2. CASE ResetStep
  <2>1. backlog = << >> /\ hpc = "idle" /\ outcome = NoOutcome /\ conn = NoConn
    BY <1>2 DEF ResetStep, ConnsIsolated, IInv, TypeOK, HandlerTypeOK
  <2>2. Elements(backlog) = {}
    BY <2>1 DEF Elements
  <2>3. UNCHANGED <<backlog, hpc, outcome, conn>>
    BY <1>2 DEF ResetStep, handlerVars
  <2>4. QED BY <2>1, <2>2, <2>3 DEF ConnsIsolated
<1>3. ASSUME NEW r \in Sends, Open(r) PROVE ConnsIsolated'
  <2>1. tpc # "reset" /\ UNCHANGED <<tpc, test, conn>>
    BY <1>3 DEF Open, testVars, handlerVars
  <2>2. NewConn(r).test = test
    BY DEF NewConn
  <2>3. Elements(backlog') = Elements(backlog) \cup {NewConn(r)}
    BY <1>3, OpenAppends DEF IInv
  <2>4. QED BY <2>1, <2>2, <2>3 DEF ConnsIsolated
<1>4. CASE Accept
  <2>1. /\ conn' = Head(backlog) /\ backlog' = Tail(backlog) /\ backlog # << >>
        /\ UNCHANGED <<tpc, test>>
    BY <1>4 DEF Accept, testVars
  <2>2. /\ conn' \in Elements(backlog)
        /\ Elements(backlog') \subseteq Elements(backlog)
    BY <2>1, ElementsHeadTail DEF IInv, TypeOK, HeapTypeOK
  <2>3. QED BY <2>1, <2>2 DEF ConnsIsolated
<1>5. CASE /\ ~BeginReset /\ ~ResetStep /\ ~Accept
           /\ ~\E r \in Sends : Open(r)
  <2>1. UNCHANGED <<backlog, test>> /\ (conn' = conn \/ conn' = NoConn)
    BY <1>5, ConnMoves, OnlyResetAssigns DEF IInv
  <2>2. tpc' = "reset" => UNCHANGED <<tpc, hpc, outcome>>
    BY <1>5 DEF ConnsIsolated, Next, TestStep, ServerStep, vars, testVars,
                handlerVars, Serve, CallWait, Sleep, Timeout, Scan, ExpectRequest,
                WaitForRequest, RequestWaitElapses, Capture, PostAck, Record,
                Lookup, WriteBody, Listen, Notify
  <2>3. QED BY <2>1, <2>2 DEF ConnsIsolated
<1>6. QED BY <1>1, <1>2, <1>3, <1>4, <1>5

\* Record appends the connection, which is of the running test, to the list of
\* that test.
LEMMA RecordIsOwn ==
  ASSUME IInv, ConnsIsolated, Record
  PROVE  /\ UNCHANGED <<test, tpc, attr, call, outcome>>
         /\ \/ UNCHANGED requests /\ Finish
            \/ /\ requests' = [requests EXCEPT ![test] = Append(@, conn)]
               /\ UNCHANGED <<conn, cap>>
               /\ conn \in Conn /\ conn.test = test /\ tpc # "reset"
               /\ attr["requests"] = test /\ cap["requests"] = test
               /\ hpc' = (IF conn.method = "get" THEN "lookup" ELSE "ok")
<1>1. conn \in Conn /\ conn # NoConn /\ hpc = "record"
  BY NoConnIsNoConn DEF Record, IInv, TypeOK, HandlerTypeOK
<1>2. conn.test = test
  BY <1>1 DEF ConnsIsolated
<1>3. tpc # "reset" /\ attr["requests"] = test /\ cap["requests"] = test
  BY <1>1, TestsAgree
<1>4. QED
  BY <1>1, <1>2, <1>3 DEF Record, Goto, testVars

LEMMA ListsIsolatedStep ==
  ASSUME IInv, ConnsIsolated, ListsIsolated, [Next]_vars
  PROVE  ListsIsolated'
<1>0. test \in Nat /\ test' \in Nat /\ test <= test' /\ Gen \subseteq Nat
  BY TypeStep, TestGrows, ConstantsAssumption DEF IInv, TypeOK, TestTypeOK, Gen
<1>1. CASE UNCHANGED requests
  BY <1>0, <1>1 DEF ListsIsolated
<1>2. CASE /\ Record
           /\ requests' = [requests EXCEPT ![test] = Append(@, conn)]
           /\ conn \in Conn /\ conn.test = test /\ test' = test
  <2>1. requests \in [Gen -> Seq(Conn)] /\ test \in Gen
    BY DEF IInv, TypeOK, HeapTypeOK, TestTypeOK
  <2>2. /\ requests'[test] = Append(requests[test], conn)
        /\ \A g \in Gen : g # test => requests'[g] = requests[g]
    BY <1>2, <2>1
  <2>3. Elements(requests'[test]) = Elements(requests[test]) \cup {conn}
    BY <1>2, <2>1, <2>2, ElementsAppend
  <2>4. QED BY <1>0, <1>2, <2>1, <2>2, <2>3 DEF ListsIsolated
<1>3. QED
  BY <1>1, <1>2, RequestsKept, RecordIsOwn DEF IInv

LEMMA RecordedFirstStep ==
  ASSUME IInv, ConnsIsolated, RecordedFirst, [Next]_vars
  PROVE  RecordedFirst'
<1>1. CASE Record
  <2>1. CASE Finish
    BY <2>1 DEF Finish, RecordedFirst
  <2>2. CASE /\ requests' = [requests EXCEPT ![test] = Append(@, conn)]
             /\ UNCHANGED <<conn, cap>>
             /\ conn \in Conn /\ cap["requests"] = test
             /\ hpc' # "notify"
    <3>1. requests \in [Gen -> Seq(Conn)] /\ test \in Gen
      BY DEF IInv, TypeOK, HeapTypeOK, TestTypeOK
    <3>2. requests'[test] = Append(requests[test], conn)
      BY <2>2, <3>1
    <3>3. conn \in Elements(requests'[test])
      BY <2>2, <3>1, <3>2, ElementsAppend
    <3>4. QED BY <2>2, <3>3 DEF RecordedFirst
  <2>3. QED BY <1>1, <2>1, <2>2, RecordIsOwn
<1>2. CASE ~Record
  <2>1. UNCHANGED requests
    BY <1>2, RequestsKept DEF IInv
  <2>2. \/ hpc' \in {"idle", "capture", "ack", "record"}
        \/ /\ UNCHANGED <<conn, cap>>
           /\ hpc \in {"lookup", "ok", "listen", "notify"}
           /\ hpc' = "notify" => hpc = "notify" \/ conn.method = "post"
    <3>1. CASE Accept \/ Capture \/ PostAck
      BY <3>1 DEF Accept, Capture, PostAck, Goto, Finish, IInv, TypeOK, HandlerTypeOK
    <3>2. CASE Lookup \/ WriteBody
      BY <3>2 DEF Lookup, WriteBody, Finish, Goto
    <3>3. CASE Listen \/ Notify
      <4>1. conn # NoConn => conn.method \in {"get", "post"}
        BY DEF IInv, TypeOK, HandlerTypeOK, Conn, Methods
      <4>2. QED
        BY <3>3, <4>1 DEF Listen, Notify, Finish, Goto, IInv, TypeOK, HandlerTypeOK
    <3>4. CASE UNCHANGED handlerVars
      BY <3>4 DEF handlerVars, IInv, TypeOK, HandlerTypeOK
    <3>5. QED
      BY <1>2, <3>1, <3>2, <3>3, <3>4
         DEF Next, TestStep, ServerStep, vars, handlerVars, Serve, BeginReset,
             ResetStep, CallWait, Sleep, Timeout, Scan, ExpectRequest,
             WaitForRequest, RequestWaitElapses, Open
  <2>3. QED BY <2>1, <2>2 DEF RecordedFirst
<1>3. QED BY <1>1, <1>2
-----------------------------------------------------------------------------
\* The posts of a list: there is one exactly if an element is a post.
LEMMA PostsAreElements ==
  ASSUME NEW s \in Seq(Conn)
  PROVE  Posts(s) # {} <=> \E c \in Elements(s) : c.method = "post"
BY DEF Posts, Elements

\* While the test runs, its list only grows.
LEMMA ListGrows ==
  ASSUME IInv, ConnsIsolated, [Next]_vars, tpc # "reset", ~BeginReset
  PROVE  /\ attr' = attr /\ test' = test /\ attr["requests"] = test
         /\ requests[test] \in Seq(Conn) /\ requests'[test] \in Seq(Conn)
         /\ Elements(requests[test]) \subseteq Elements(requests'[test])
<1>1. attr' = attr /\ test' = test
  BY OnlyResetAssigns DEF ResetStep
<1>2. attr["requests"] = test
  BY TestsAgree
<1>3. requests \in [Gen -> Seq(Conn)] /\ test \in Gen
  BY DEF IInv, TypeOK, HeapTypeOK, TestTypeOK
<1>4. CASE UNCHANGED requests
  BY <1>1, <1>2, <1>3, <1>4
<1>5. CASE /\ requests' = [requests EXCEPT ![test] = Append(@, conn)]
           /\ conn \in Conn
  <2>1. requests'[test] = Append(requests[test], conn)
    BY <1>3, <1>5
  <2>2. Elements(requests'[test]) = Elements(requests[test]) \cup {conn}
    BY <1>3, <1>5, <2>1, ElementsAppend
  <2>3. QED BY <1>1, <1>2, <1>3, <1>5, <2>1, <2>2
<1>6. QED
  BY <1>4, <1>5, RequestsKept, RecordIsOwn DEF IInv

\* What each step does to the outcome of the last call.
LEMMA OutcomeMoves ==
  ASSUME [Next]_vars
  PROVE  \/ Scan
         \/ outcome' = outcome
         \/ outcome' = NoOutcome
         \/ outcome' = [kind |-> "timeout"]
         \/ outcome' = [kind |-> "elapsed"]
         \/ Listen /\ outcome' = [kind |-> "heard", req |-> conn]
<1>1. ASSUME NEW u \in Urls, NEW doc \in Docs, Serve(u, doc) PROVE outcome' = outcome
  BY <1>1 DEF Serve, testVars
<1>2. ASSUME NEW c \in WaitCalls, CallWait(c) PROVE outcome' = NoOutcome
  BY <1>2 DEF CallWait
<1>3. ASSUME NEW r \in Sends, Open(r) PROVE outcome' = outcome
  BY <1>3 DEF Open, testVars
<1>4. Listen => \/ outcome' = outcome
                \/ outcome' = [kind |-> "heard", req |-> conn]
  BY DEF Listen
<1>5. UNCHANGED vars => outcome' = outcome
  BY DEF vars
<1>6. CASE ServerStep /\ ~Listen
  BY <1>6 DEF ServerStep, testVars, Accept, Capture, PostAck, Record, Lookup,
              WriteBody, Notify
<1>7. CASE \/ BeginReset \/ ResetStep \/ Sleep \/ Timeout
           \/ ExpectRequest \/ WaitForRequest \/ RequestWaitElapses
  BY <1>7 DEF testVars, BeginReset, ResetStep, Sleep, Timeout, ExpectRequest,
              WaitForRequest, RequestWaitElapses
<1>8. QED
  BY <1>1, <1>2, <1>3, <1>4, <1>5, <1>6, <1>7 DEF Next, TestStep, ServerStep

\* The answer that a scan finds is in the list of the running test.
LEMMA AnswersStep ==
  ASSUME IInv, ConnsIsolated, ListsIsolated, OwnAnswersOnly, [Next]_vars
  PROVE  OwnAnswersOnly'
<1>1. CASE Scan
  <2>1. tpc # "reset" /\ UNCHANGED test
    BY <1>1 DEF Scan
  <2>2. requests[attr["requests"]] \in Seq(Conn) /\ attr["requests"] = test /\ test \in Gen
    BY <2>1, TestsAgree DEF IInv, TypeOK, HeapTypeOK
  <2>3. \A i \in 1 .. Len(requests[test]) : requests[test][i].test = test
    BY <2>2 DEF ListsIsolated, Elements
  <2>4. QED BY <1>1, <2>1, <2>2, <2>3 DEF Scan, OwnAnswersOnly
<1>2. CASE ResetStep
  <2>1. outcome'.kind = "none"
    BY <1>2 DEF ResetStep, ConnsIsolated, NoOutcome
  <2>2. QED BY <2>1 DEF OwnAnswersOnly
<1>3. CASE ~Scan /\ ~ResetStep
  <2>1. UNCHANGED test
    BY <1>3, OnlyResetAssigns
  <2>2. outcome' = outcome \/ outcome'.kind \in {"none", "timeout", "elapsed", "heard"}
    BY <1>3, OutcomeMoves DEF NoOutcome
  <2>3. QED BY <2>1, <2>2 DEF OwnAnswersOnly
<1>4. QED BY <1>1, <1>2, <1>3

\* A test is only woken when there is a post: by its own check, or by the
\* handler of a post that it has recorded.
LEMMA WokenStep ==
  ASSUME IInv, ConnsIsolated, RecordedFirst, NeverEmptyAnswer, [Next]_vars
  PROVE  NeverEmptyAnswer'
<1>1. ASSUME tpc' = "woken"
      PROVE  Posts(requests'[attr'["requests"]]) # {}
  <2>1. tpc # "reset" /\ ~BeginReset
    BY <1>1 DEF Next, TestStep, ServerStep, vars, testVars, Serve, BeginReset,
                ResetStep, CallWait, Sleep, Timeout, Scan, ExpectRequest,
                WaitForRequest, RequestWaitElapses, Open, Accept, Capture,
                PostAck, Record, Lookup, WriteBody, Listen, Notify
  <2>2. /\ attr' = attr /\ test' = test /\ attr["requests"] = test
        /\ requests[test] \in Seq(Conn) /\ requests'[test] \in Seq(Conn)
        /\ Elements(requests[test]) \subseteq Elements(requests'[test])
    BY <2>1, ListGrows
  <2>3. Posts(requests[test]) # {}
    <3>1. CASE tpc = "woken"
      BY <2>2, <3>1 DEF NeverEmptyAnswer, Current
    <3>2. ASSUME NEW c \in WaitCalls, CallWait(c) PROVE Posts(requests[test]) # {}
      BY <1>1, <2>2, <3>2 DEF CallWait
    <3>3. CASE Notify
      <4>1. hpc = "notify" /\ conn # NoConn
        BY <3>3 DEF Notify, IInv, TypeOK, HandlerTypeOK
      <4>2. cap["requests"] = test
        BY <4>1, TestsAgree
      <4>3. conn \in Elements(requests[test]) /\ conn.method = "post"
        BY <4>1, <4>2 DEF RecordedFirst
      <4>4. QED BY <2>2, <4>3, PostsAreElements
    <3>4. QED
      BY <1>1, <3>1, <3>2, <3>3
         DEF Next, TestStep, ServerStep, vars, testVars, Serve, BeginReset,
             ResetStep, Sleep, Timeout, Scan, ExpectRequest, WaitForRequest,
             RequestWaitElapses, Open, Accept, Capture, PostAck, Record,
             Lookup, WriteBody, Listen
  <2>4. QED BY <2>2, <2>3, PostsAreElements
<1>2. ASSUME outcome'.kind = "null"
      PROVE  outcome'.call.fn = "get_request"
  <2>1. CASE Scan
    <3>1. Posts(requests[attr["requests"]]) # {} /\ call \in WaitCalls
      BY <2>1 DEF Scan, NeverEmptyAnswer, Current, IInv, TypeOK, TestTypeOK
    <3>2. CASE Matches(requests[attr["requests"]], call) = {}
      <4>1. call.fn = "get_request"
        BY <3>1, <3>2 DEF Matches, WaitCalls
      <4>2. QED BY <1>2, <2>1, <4>1 DEF Scan
    <3>3. CASE Matches(requests[attr["requests"]], call) # {}
      BY <1>2, <2>1, <3>3 DEF Scan
    <3>4. QED BY <3>2, <3>3
  <2>2. CASE ~Scan
    <3>1. outcome' = outcome \/ outcome'.kind # "null"
      BY <2>2, OutcomeMoves DEF NoOutcome
    <3>2. QED BY <1>2, <3>1 DEF NeverEmptyAnswer
  <2>3. QED BY <2>1, <2>2
<1>3. QED BY <1>1, <1>2 DEF NeverEmptyAnswer, Current

\* The listener that wakes wait_for_request is called after the request was
\* recorded, and the list does not change hands before the next reset.
LEMMA HeardStep ==
  ASSUME IInv, ConnsIsolated, RecordedFirst, HeardIsRecorded, [Next]_vars
  PROVE  HeardIsRecorded'
<1> SUFFICES ASSUME outcome'.kind = "heard"
             PROVE  /\ outcome'.req \in Elements(requests'[attr'["requests"]])
                    /\ outcome'.req.test = test'
  BY DEF HeardIsRecorded, Current
<1>1. tpc # "reset" /\ ~BeginReset
  <2>1. tpc = "reset" => outcome' = NoOutcome
    BY DEF ConnsIsolated, Next, TestStep, ServerStep, vars, testVars, Serve,
           BeginReset, ResetStep, CallWait, Sleep, Timeout, Scan, ExpectRequest,
           WaitForRequest, RequestWaitElapses, Open, Accept, Capture, PostAck,
           Record, Lookup, WriteBody, Listen, Notify
  <2>2. BeginReset => outcome' = NoOutcome
    BY DEF BeginReset
  <2>3. QED BY <2>1, <2>2 DEF NoOutcome
<1>2. /\ attr' = attr /\ test' = test /\ attr["requests"] = test
      /\ requests[test] \in Seq(Conn) /\ requests'[test] \in Seq(Conn)
      /\ Elements(requests[test]) \subseteq Elements(requests'[test])
  BY <1>1, ListGrows
<1>3. outcome'.req \in Elements(requests[test]) /\ outcome'.req.test = test
  <2>1. CASE outcome' = outcome
    BY <1>2, <2>1 DEF HeardIsRecorded, Current
  <2>2. CASE Listen
    <3>1. hpc = "listen" /\ conn # NoConn
      BY <2>2 DEF Listen, IInv, TypeOK, HandlerTypeOK
    <3>2. conn \in Elements(requests[test])
      BY <3>1, TestsAgree DEF RecordedFirst
    <3>3. CASE outcome' = [kind |-> "heard", req |-> conn]
      BY <3>1, <3>2, <3>3 DEF ConnsIsolated
    <3>4. CASE outcome' = outcome
      BY <2>1, <3>4
    <3>5. QED BY <2>2, <3>3, <3>4 DEF Listen
  <2>3. ~Scan
    BY DEF Scan
  <2>4. QED BY <2>1, <2>2, <2>3, OutcomeMoves DEF NoOutcome
<1>4. QED BY <1>2, <1>3

-----------------------------------------------------------------------------
LEMMA IsolationInit == Init => Isolation
<1> SUFFICES ASSUME Init PROVE Isolation
  OBVIOUS
<1>1. \A s : s = << >> => Elements(s) = {}
  BY DEF Elements
<1>2. ConnsIsolated /\ RecordedFirst
  BY <1>1 DEF Init, ConnsIsolated, RecordedFirst
<1>3. ListsIsolated
  BY <1>1 DEF Init, ListsIsolated
<1>4. OwnAnswersOnly /\ NeverEmptyAnswer /\ HeardIsRecorded
  BY DEF Init, NoOutcome, OwnAnswersOnly, NeverEmptyAnswer, HeardIsRecorded
<1>5. QED BY <1>2, <1>3, <1>4, InvInit DEF Isolation

LEMMA IsolationStep ==
  ASSUME ~LateDelivery, Isolation, [Next]_vars PROVE Isolation'
BY InvStep, ConnsIsolatedStep, ListsIsolatedStep, RecordedFirstStep,
   AnswersStep, WokenStep, HeardStep DEF Isolation

\* While no connection outlives its test, connections, lists and answers stay
\* with the test that they belong to.
THEOREM IsolationInvariance ==
  ASSUME ~LateDelivery PROVE Spec => []Isolation
<1>1. Isolation /\ [Next]_vars => Isolation'
  BY IsolationStep
<1>2. QED BY <1>1, IsolationInit, PTL DEF Spec

\* The answer of a wait is a request of the running test.
THEOREM AnswersAreOwn ==
  ASSUME ~LateDelivery PROVE Spec => []OwnAnswersOnly
<1>1. Isolation => OwnAnswersOnly
  BY DEF Isolation
<1>2. QED BY <1>1, IsolationInvariance, PTL

\* get_most_recent_post never returns None.
THEOREM PostsAreFound ==
  ASSUME ~LateDelivery PROVE Spec => []NeverEmptyAnswer
<1>1. Isolation => NeverEmptyAnswer
  BY DEF Isolation
<1>2. QED BY <1>1, IsolationInvariance, PTL

\* wait_for_request that was woken finds the request that woke it in the list,
\* and the running test made it.
THEOREM HeardRequestsAreRecorded ==
  ASSUME ~LateDelivery PROVE Spec => []HeardIsRecorded
<1>1. Isolation => HeardIsRecorded
  BY DEF Isolation
<1>2. QED BY <1>1, IsolationInvariance, PTL

-----------------------------------------------------------------------------
(***************************************************************************)
(* The refinement: every step is a step of the mailbox or leaves it alone. *)
(***************************************************************************)
MailboxStep == [Mailbox!Next]_(Mailbox!mailboxVars)

\* What the mailbox is told of the outcome of the last call.
Told(o) == IF o.kind \in {"null", "request", "timeout"} THEN o ELSE NoOutcome

LEMMA NothingNew ==
  ASSUME UNCHANGED <<requests, attr, call>>,
         Told(outcome') = Told(outcome) \/ Told(outcome') = NoOutcome
  PROVE  MailboxStep
<1>1. CASE Told(outcome') = Told(outcome)
  BY <1>1 DEF MailboxStep, Mailbox!mailboxVars, Current, Told
<1>2. CASE Told(outcome') = NoOutcome
  <2>1. Mailbox!Forget
    BY <1>2 DEF Mailbox!Forget, Mailbox!Nothing, NoOutcome, Current, Told
  <2>2. QED BY <2>1 DEF MailboxStep, Mailbox!Next
<1>3. QED BY <1>1, <1>2

\* The second assignment of a reset empties the mailbox.
LEMMA ResetClears ==
  ASSUME Isolation, ResetStep PROVE MailboxStep
<1>1. /\ tpc = "reset" /\ call = NoCall /\ rstep \in 1 .. 4
      /\ UNCHANGED <<requests, call, outcome>>
      /\ attr' = [attr EXCEPT ![AttrOrder[rstep]] = test + 1]
  BY DEF ResetStep, Isolation, IInv, TypeOK, TestTypeOK
<1>2. CASE rstep = 2
  <2>1. attr'["requests"] = test + 1
    BY <1>1, <1>2 DEF AttrOrder, Isolation, IInv, TypeOK, HeapTypeOK, Attributes
  <2>2. test \in Nat /\ test + 1 \in Gen
    BY <1>1, ConstantsAssumption
       DEF Isolation, IInv, TypeOK, TestTypeOK, AttrsInStep, Gen
  <2>3. requests[test + 1] = << >>
    BY <2>2 DEF Isolation, ListsIsolated
  <2>4. Mailbox!Clear
    BY <1>1, <2>1, <2>3
       DEF Mailbox!Clear, Mailbox!NoQuestion, NoCall, Current
  <2>5. QED BY <2>4 DEF MailboxStep, Mailbox!Next
<1>3. CASE rstep # 2
  <2>1. attr'["requests"] = attr["requests"]
    BY <1>1, <1>3 DEF AttrOrder, Isolation, IInv, TypeOK, HeapTypeOK, Attributes
  <2>2. QED
    BY <1>1, <2>1 DEF MailboxStep, Mailbox!mailboxVars, Current
<1>4. QED BY <1>2, <1>3

LEMMA CallAsks ==
  ASSUME Isolation, NEW c \in WaitCalls, CallWait(c) PROVE MailboxStep
<1>1. call = NoCall
  BY DEF CallWait, Isolation, IInv, TypeOK, TestTypeOK
<1>2. Mailbox!Ask(c)
  BY <1>1 DEF CallWait, Mailbox!Ask, Mailbox!NoQuestion, Mailbox!Nothing,
              NoCall, NoOutcome, Current, heapVars
<1>3. QED BY <1>2 DEF MailboxStep, Mailbox!Next

LEMMA TimeoutGivesUp ==
  ASSUME Isolation, Timeout PROVE MailboxStep
<1>1. call # NoCall
  BY DEF Timeout, Isolation, IInv, TypeOK, TestTypeOK
<1>2. Mailbox!GiveUp
  BY <1>1 DEF Timeout, Mailbox!GiveUp, Mailbox!NoQuestion, NoCall, Current,
              heapVars
<1>3. QED BY <1>2 DEF MailboxStep, Mailbox!Next

LEMMA RecordDelivers ==
  ASSUME Isolation, Record PROVE MailboxStep
<1>1. CASE UNCHANGED requests
  BY <1>1, NothingNew DEF Record, testVars
<1>2. CASE /\ requests' = [requests EXCEPT ![test] = Append(@, conn)]
           /\ conn \in Conn /\ attr["requests"] = test
           /\ UNCHANGED <<attr, call, outcome>>
  <2>1. requests \in [Gen -> Seq(Conn)] /\ test \in Gen
    BY DEF Isolation, IInv, TypeOK, HeapTypeOK, TestTypeOK
  <2>2. requests'[attr'["requests"]] = Append(requests[attr["requests"]], conn)
    BY <1>2, <2>1
  <2>3. Mailbox!Deliver(conn)
    BY <1>2, <2>2 DEF Mailbox!Deliver, Current
  <2>4. QED BY <1>2, <2>3 DEF MailboxStep, Mailbox!Next
<1>3. QED BY <1>1, <1>2, RecordIsOwn DEF Isolation

\* The scan finds the latest post, or the first request on the path.
LEMMA ScanAnswers ==
  ASSUME Isolation, Scan PROVE MailboxStep
<1> DEFINE s == requests[attr["requests"]]
<1>1. /\ call \in WaitCalls /\ call' = NoCall
      /\ UNCHANGED <<requests, attr>>
      /\ \/ /\ Matches(s, call) = {}
            /\ outcome' = [kind |-> "null", call |-> call]
         \/ \E i \in 1 .. Len(s) :
              /\ Picked(s, call, i)
              /\ outcome' = [kind |-> "request", call |-> call, req |-> s[i]]
  BY DEF Scan, heapVars, Isolation, IInv, TypeOK, TestTypeOK
<1>2. s \in Seq(Conn)
  BY DEF Isolation, IInv, TypeOK, HeapTypeOK, Attributes
<1>3. Posts(s) # {}
  BY DEF Scan, Isolation, NeverEmptyAnswer, Current
<1>4. Mailbox!HasPost
  BY <1>2, <1>3 DEF Mailbox!HasPost, Posts, Current
<1>5. CASE Matches(s, call) = {} /\ outcome' = [kind |-> "null", call |-> call]
  <2>1. call.fn = "get_request"
    BY <1>1, <1>3, <1>5 DEF Matches, WaitCalls
  <2>2. \A i \in 1 .. Len(s) : s[i].path # call.path
    BY <1>5, <2>1 DEF Matches
  <2>3. Mailbox!Answer
    BY <1>1, <1>4, <1>5, <2>1, <2>2
       DEF Mailbox!Answer, Mailbox!NoQuestion, NoCall, Current
  <2>4. QED BY <2>3 DEF MailboxStep, Mailbox!Next
<1>6. ASSUME NEW i \in 1 .. Len(s), Picked(s, call, i),
             outcome' = [kind |-> "request", call |-> call, req |-> s[i]]
      PROVE  MailboxStep
  <2>1. CASE call.fn = "get_most_recent_post"
    <3>1. Mailbox!LatestPost(i)
      BY <1>2, <1>6, <2>1
         DEF Picked, Matches, Posts, Mailbox!LatestPost, Current
    <3>2. Mailbox!Answer
      BY <1>1, <1>4, <1>6, <2>1, <3>1
         DEF Mailbox!Answer, Mailbox!NoQuestion, NoCall, Current
    <3>3. QED BY <3>2 DEF MailboxStep, Mailbox!Next
  <2>2. CASE call.fn = "get_request"
    <3>1. Mailbox!FirstOn(call.path, i)
      BY <1>2, <1>6, <2>2 DEF Picked, Matches, Mailbox!FirstOn, Current
    <3>2. Mailbox!Answer
      BY <1>1, <1>4, <1>6, <2>2, <3>1
         DEF Mailbox!Answer, Mailbox!NoQuestion, NoCall, Current
    <3>3. QED BY <3>2 DEF MailboxStep, Mailbox!Next
  <2>3. QED BY <1>1, <2>1, <2>2 DEF WaitCalls
<1>7. QED BY <1>1, <1>5, <1>6

LEMMA StepOfMailbox ==
  ASSUME Isolation, [Next]_vars PROVE MailboxStep
<1>1. CASE UNCHANGED <<requests, attr, call, outcome>>
  BY <1>1, NothingNew
<1>2. CASE BeginReset \/ WaitForRequest \/ RequestWaitElapses
  BY <1>2, NothingNew DEF BeginReset, WaitForRequest, RequestWaitElapses,
                          heapVars, NoOutcome, Told
<1>3. CASE Listen
  <2>1. UNCHANGED <<requests, attr, call>>
    BY <1>3 DEF Listen, heapVars
  <2>2. outcome' = outcome \/ outcome' = [kind |-> "heard", req |-> conn]
    BY <1>3 DEF Listen
  <2>3. QED BY <2>1, <2>2, NothingNew DEF Told
<1>4. CASE UNCHANGED vars
  BY <1>1, <1>4 DEF vars
<1>5. CASE \/ \E u \in Urls, doc \in Docs : Serve(u, doc)
           \/ Sleep \/ ExpectRequest \/ Accept \/ Capture \/ PostAck
           \/ Lookup \/ WriteBody \/ Notify
           \/ \E r \in Sends : Open(r)
  BY <1>1, <1>5 DEF Serve, Sleep, ExpectRequest, Accept, Capture, PostAck,
                    Lookup, WriteBody, Notify, Open, testVars, heapVars
<1>6. QED
  BY <1>2, <1>3, <1>4, <1>5, ResetClears, CallAsks, TimeoutGivesUp,
     RecordDelivers, ScanAnswers DEF Next, TestStep, ServerStep

\* While no connection outlives its test, the reset that replaces the lists,
\* the capture by each handler and the condition variable implement the
\* mailbox that the tests are written against.
THEOREM ServerImplementsMailbox ==
  ASSUME ~LateDelivery PROVE Spec => ImplementsMailbox
<1>1. Init => Mailbox!Init
  BY ConstantsAssumption
     DEF Init, Mailbox!Init, Mailbox!NoQuestion, Mailbox!Nothing, NoCall,
         NoOutcome, Current, Attributes, Gen
<1>2. Isolation /\ [Next]_vars => [Mailbox!Next]_(Mailbox!mailboxVars)
  BY StepOfMailbox DEF MailboxStep
<1>3. QED
  BY <1>1, <1>2, IsolationInvariance, PTL DEF Spec, ImplementsMailbox, Mailbox!Spec
=============================================================================
