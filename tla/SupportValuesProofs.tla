------------------------- MODULE SupportValuesProofs -------------------------
(***************************************************************************)
(* Proofs about the helpers of SupportValues.  Signing: what an            *)
(* authenticated actor sends carries a signature over every header of its  *)
(* list, and a receiver that puts the signed text together again from the  *)
(* request gets the same text, for any requests and any lists of headers.  *)
(* Dates: the verdict on an entity does not depend on the order in which   *)
(* its properties are visited, for any entity.  Media types: what is taken *)
(* apart can be put together again, for any number of facets.              *)
(***************************************************************************)
EXTENDS SupportValues, SequenceTheorems, WellFoundedInduction, TLAPS

Names == HeaderNames \cup {Target}

\* The line that construct_signature_data makes of a name.
LineOf(name) ==
    [name |-> name,
     value |-> IF name = Target THEN SignedTarget(request) ELSE headers[name]]

Phases == {"idle", "synthesize", "construct", "sent", "raised"}

Shape ==
    /\ phase \in Phases
    /\ at \in Nat \ {0}
    /\ auth \in Seq(Names)
    /\ DOMAIN headers = HeaderNames
    /\ phase = "idle" => at = 1 /\ auth = << >> /\ lines = << >>
    /\ phase # "idle" => request \in Requests
    /\ phase \in {"synthesize", "construct", "raised"} => auth # << >>

\* What a header holds, once it holds anything.
HeadersHold ==
    phase # "idle" =>
        /\ headers["host"] = request.host
        /\ headers["date"] \in {Absent, Date}
        /\ headers["digest"] \in {Absent, request.body}
        /\ headers["content-type"] = IF request.method = "post" THEN "json" ELSE Absent

\* The names that synthesize_headers has been at are there, if they can be.
Filled(name) ==
    name = Target \/ headers[name] # Absent \/ Unsignable(request, name)

FilledSoFar ==
    /\ phase = "synthesize" =>
          \A i \in 1 .. Len(auth) : i < at => Filled(auth[i])
    /\ phase = "construct" => \A i \in 1 .. Len(auth) : Filled(auth[i])

\* The text so far has the lines of the names so far.
LinesSoFar ==
    /\ phase = "synthesize" => lines = << >>
    /\ phase = "construct" =>
          /\ at <= Len(auth) + 1
          /\ lines = [i \in 1 .. at - 1 |-> LineOf(auth[i])]
          /\ \A i \in 1 .. at - 1 : ~Unsignable(request, auth[i])

Finished ==
    /\ phase = "raised" => \E i \in 1 .. Len(auth) : Unsignable(request, auth[i])
    /\ phase = "sent" /\ auth # << >> =>
          /\ signed = [i \in 1 .. Len(auth) |-> LineOf(auth[i])]
          /\ \A i \in 1 .. Len(auth) : ~Unsignable(request, auth[i])

IInv == Shape /\ HeadersHold /\ FilledSoFar /\ LinesSoFar /\ Finished

----------------------------------------------------------------------------

\* Appending the next line to a text of the lines before it.
LEMMA AppendsLine ==
    ASSUME NEW n \in Nat, NEW F(_)
    PROVE  Append([i \in 1 .. n |-> F(i)], F(n + 1)) = [i \in 1 .. n + 1 |-> F(i)]
<1> DEFINE S == {F(i) : i \in 1 .. n + 1}
           s == [i \in 1 .. n |-> F(i)]
<1>1. s \in Seq(S) /\ Len(s) = n
  OBVIOUS
<1>2. F(n + 1) \in S
  OBVIOUS
<1>3. /\ Append(s, F(n + 1)) \in Seq(S)
      /\ Len(Append(s, F(n + 1))) = n + 1
      /\ \A i \in 1 .. n + 1 : Append(s, F(n + 1))[i] = F(i)
  BY <1>1, <1>2
<1> QED
  BY <1>3

\* Initially no request is under way.
LEMMA InitHolds == SigningInit => IInv
<1> SUFFICES ASSUME SigningInit PROVE IInv
  OBVIOUS
<1>1. Shape
  BY DEF SigningInit, Shape, Phases, NoHeaders
<1> QED
  BY <1>1 DEF SigningInit, IInv, HeadersHold, FilledSoFar, LinesSoFar, Finished

\* A call starts: nothing has been filled in and no line been made.
LEMMA StartKeeps ==
    ASSUME IInv, NEW r \in Requests,
           (\E list \in HeaderLists : SendSigned(r, list)) \/ SendUnsigned(r)
    PROVE  IInv'
<1>1. Shape'
  <2>1. CASE SendUnsigned(r)
    BY <2>1 DEF IInv, Shape, SendUnsigned, Phases, GivenHeaders
  <2>2. ASSUME NEW list \in HeaderLists, SendSigned(r, list) PROVE Shape'
    <3>1. list \in Seq(Names) /\ DefaultList \in Seq(Names) /\ DefaultList # << >>
      BY SigningAssumption DEF DefaultList, Names, HeaderNames
    <3>2. auth' \in Seq(Names) /\ auth' # << >>
      BY <2>2, <3>1 DEF SendSigned
    <3> QED
      BY <2>2, <3>2 DEF IInv, Shape, SendSigned, Phases, GivenHeaders
  <2> QED
    BY <2>1, <2>2
<1>2. phase = "idle" /\ request' = r /\ headers' = GivenHeaders(r)
      /\ lines' = lines /\ at' = at /\ phase' \in {"synthesize", "sent"}
  BY DEF SendSigned, SendUnsigned
<1>3. phase' = "sent" => auth' = << >>
  BY DEF SendSigned, SendUnsigned, IInv, Shape
<1>4. HeadersHold'
  BY <1>2 DEF HeadersHold, GivenHeaders, HeaderNames
<1>5. FilledSoFar' /\ LinesSoFar' /\ Finished'
  BY <1>1, <1>2, <1>3 DEF IInv, Shape, FilledSoFar, LinesSoFar, Finished
<1> QED
  BY <1>1, <1>4, <1>5 DEF IInv

\* Filling in one header.
LEMMA SynthesizeKeeps == IInv /\ SynthesizeHeader => IInv'
<1> SUFFICES ASSUME IInv, SynthesizeHeader PROVE IInv'
  OBVIOUS
<1>1. Shape'
  BY DEF IInv, Shape, SynthesizeHeader, Phases
<1> DEFINE n == auth[at]
<1>2. phase = "synthesize" /\ phase' = phase /\ request' = request /\ auth' = auth
      /\ at' = at + 1 /\ lines' = lines /\ at \in 1 .. Len(auth)
  BY DEF SynthesizeHeader, IInv, Shape
<1>3. n \in Names
  BY <1>2 DEF IInv, Shape
<1>4. \A h \in HeaderNames :
         headers'[h] = IF h = n /\ headers[h] = Absent THEN Synthesized(h) ELSE headers[h]
  <2>1. DOMAIN headers = HeaderNames
    BY DEF IInv, Shape
  <2> QED
    BY <2>1 DEF SynthesizeHeader
<1>5. request \in Requests /\ request.host # Absent /\ request.body # Absent
      /\ Date # Absent /\ "json" # Absent
  BY <1>2, SigningAssumption DEF IInv, Shape
<1>6. HeadersHold'
  BY <1>2, <1>4, <1>5 DEF IInv, HeadersHold, HeaderNames, Synthesized
<1>7. \A h \in Names : h = n => Filled(h)'
  BY <1>2, <1>3, <1>4, <1>5
  DEF Filled, Unsignable, Names, HeaderNames, Target, Synthesized, IInv, HeadersHold
<1>8. \A h \in Names : Filled(h) => Filled(h)'
  BY <1>2, <1>4, <1>5
  DEF Filled, Unsignable, Names, Synthesized, HeaderNames, Target
<1>9. FilledSoFar'
  <2> SUFFICES ASSUME NEW i \in 1 .. Len(auth), i < at + 1 PROVE Filled(auth[i])'
    BY <1>2 DEF FilledSoFar
  <2>1. CASE i = at
    BY <2>1, <1>7, <1>2, <1>3
  <2>2. CASE i < at
    BY <2>2, <1>2, <1>8 DEF IInv, Shape, FilledSoFar
  <2> QED
    BY <2>1, <2>2, <1>2
<1> QED
  BY <1>1, <1>2, <1>6, <1>9 DEF IInv, LinesSoFar, Finished

\* Going over from the headers to the text.
LEMMA SynthesizeEndKeeps == IInv /\ SynthesizeEnds => IInv'
<1> SUFFICES ASSUME IInv, SynthesizeEnds PROVE IInv'
  OBVIOUS
<1>1. Shape'
  BY DEF IInv, Shape, SynthesizeEnds, Phases
<1>2. HeadersHold'
  BY DEF IInv, HeadersHold, SynthesizeEnds
<1>3. FilledSoFar'
  BY DEF IInv, Shape, FilledSoFar, SynthesizeEnds, Filled
<1>4. LinesSoFar'
  <2>1. at' = 1 /\ lines' = << >> /\ auth' = auth /\ Len(auth) \in Nat
    BY DEF SynthesizeEnds, IInv, LinesSoFar, Shape
  <2>2. lines' = [i \in 1 .. at' - 1 |-> LineOf(auth[i])']
    BY <2>1
  <2> QED
    BY <2>1, <2>2 DEF LinesSoFar, SynthesizeEnds
<1> QED
  BY <1>1, <1>2, <1>3, <1>4 DEF IInv, Finished, SynthesizeEnds

\* One more line of the text, or the KeyError.
LEMMA ConstructKeeps == IInv /\ ConstructLine => IInv'
<1> SUFFICES ASSUME IInv, ConstructLine PROVE IInv'
  OBVIOUS
<1>1. Shape'
  BY DEF IInv, Shape, ConstructLine, Phases
<1>2. phase = "construct" /\ request' = request /\ auth' = auth /\ headers' = headers
      /\ at \in 1 .. Len(auth) /\ auth[at] \in Names /\ Len(auth) \in Nat
  BY DEF ConstructLine, IInv, Shape
<1>3. HeadersHold'
  BY <1>2 DEF IInv, HeadersHold
<1>4. FilledSoFar'
  BY <1>2 DEF IInv, FilledSoFar, Filled, ConstructLine
<1>5. Filled(auth[at])
  BY <1>2 DEF IInv, FilledSoFar
<1>6. LinesSoFar' /\ Finished'
  <2>1. CASE auth[at] # Target /\ headers[auth[at]] = Absent
    <3>1. phase' = "raised" /\ Unsignable(request, auth[at])
      BY <2>1, <1>5 DEF ConstructLine, Filled
    <3> QED
      BY <3>1, <1>2 DEF LinesSoFar, Finished
  <2>2. CASE ~(auth[at] # Target /\ headers[auth[at]] = Absent)
    <3>1. lines' = Append(lines, LineOf(auth[at])) /\ at' = at + 1 /\ phase' = phase
      BY <2>2 DEF ConstructLine, LineOf
    <3>2. lines = [i \in 1 .. at - 1 |-> LineOf(auth[i])]
      BY <1>2 DEF IInv, LinesSoFar
    <3> DEFINE F(i) == LineOf(auth[i])
    <3>3. Append([i \in 1 .. at - 1 |-> F(i)], F(at - 1 + 1))
             = [i \in 1 .. at - 1 + 1 |-> F(i)]
      <4> HIDE DEF F
      <4>1. at - 1 \in Nat
        BY <1>2
      <4> QED
        BY <4>1, AppendsLine
    <3>4. lines' = [i \in 1 .. at' - 1 |-> F(i)]
      BY <3>1, <3>2, <3>3, <1>2
    <3>5. \A i : F(i) = LineOf(auth[i])'
      BY <1>2 DEF LineOf
    <3>6. ~Unsignable(request, auth[at])
      <4>1. headers["content-type"] = IF request.method = "post" THEN "json" ELSE Absent
        BY <1>2 DEF IInv, HeadersHold
      <4> QED
        BY <4>1, <2>2 DEF Unsignable, Target
    <3>7. LinesSoFar'
      <4>1. lines' = [i \in 1 .. at' - 1 |-> LineOf(auth[i])']
        BY <3>4, <3>5
      <4>2. \A i \in 1 .. at' - 1 : ~Unsignable(request', auth'[i])
        BY <3>1, <3>6, <1>2 DEF IInv, LinesSoFar
      <4> QED
        BY <4>1, <4>2, <3>1, <1>2 DEF LinesSoFar
    <3> QED
      BY <3>7, <3>1, <1>2 DEF Finished
  <2> QED
    BY <2>1, <2>2
<1> QED
  BY <1>1, <1>3, <1>4, <1>6 DEF IInv

\* The finished text is signed and the request is sent.
LEMMA SignKeeps == IInv /\ Sign => IInv'
<1> SUFFICES ASSUME IInv, Sign PROVE IInv'
  OBVIOUS
<1>1. Shape' /\ HeadersHold'
  BY DEF IInv, Shape, Sign, Phases, HeadersHold
<1>2. at = Len(auth) + 1
  BY DEF IInv, Shape, LinesSoFar, Sign
<1>3. signed' = [i \in 1 .. Len(auth) |-> LineOf(auth[i])]
  BY <1>2 DEF IInv, LinesSoFar, Sign, Shape
<1>4. \A i \in 1 .. Len(auth) : ~Unsignable(request, auth[i])
  BY <1>2 DEF IInv, LinesSoFar, Sign, Shape
<1>5. Finished'
  BY <1>3, <1>4 DEF Finished, Sign, LineOf
<1> QED
  BY <1>1, <1>5 DEF IInv, FilledSoFar, LinesSoFar, Sign

\* A call is over.
LEMMA ReturnKeeps == IInv /\ SigningReturn => IInv'
  BY DEF IInv, Shape, HeadersHold, FilledSoFar, LinesSoFar, Finished,
         SigningReturn, NoHeaders, Phases

\* Every reachable state of HttpSignature satisfies the invariant from which
\* the two properties below follow.
THEOREM SigningInvariance == SigningSpec => []IInv
<1>1. IInv /\ [SigningNext]_signingVars => IInv'
  <2> SUFFICES ASSUME IInv, [SigningNext]_signingVars PROVE IInv'
    OBVIOUS
  <2>1. CASE UNCHANGED signingVars
    BY <2>1 DEF IInv, Shape, HeadersHold, FilledSoFar, LinesSoFar, Finished,
                signingVars, LineOf, Filled
  <2>2. CASE SigningNext
    BY <2>2, StartKeeps, SynthesizeKeeps, SynthesizeEndKeeps, ConstructKeeps,
       SignKeeps, ReturnKeeps DEF SigningNext
  <2> QED
    BY <2>1, <2>2
<1> QED
  BY InitHolds, <1>1, PTL DEF SigningSpec

\* An authenticated actor never sends with fewer headers signed than it was
\* made to sign, and raises only for a header that the request cannot have.
THEOREM AllOrNothingIsSigned == SigningSpec => []SignsAllOrNothing
<1>1. IInv => SignsAllOrNothing
  <2> SUFFICES ASSUME IInv, auth # << >>,
                      phase = "sent"
               PROVE  /\ \A i \in 1 .. Len(auth) : ~Unsignable(request, auth[i])
                      /\ signed # << >> /\ Len(signed) = Len(auth)
    BY DEF IInv, Finished, SignsAllOrNothing
  <2>1. Len(auth) \in Nat \ {0}
    BY DEF IInv, Shape
  <2>2. signed = [i \in 1 .. Len(auth) |-> LineOf(auth[i])]
    BY DEF IInv, Finished
  <2>3. Len(signed) = Len(auth)
    BY <2>1, <2>2
  <2> QED
    BY <2>1, <2>3 DEF IInv, Finished
<1> QED
  BY SigningInvariance, <1>1, PTL

\* The signature on what is sent holds for the request as it arrives, unless
\* it covers the target of a url with a query or with an escape in its path:
\* those never hold.
THEOREM SignaturesHold == SigningSpec => []SignatureHolds
<1>1. IInv => SignatureHolds
  <2> SUFFICES ASSUME IInv, auth # << >>, phase = "sent"
               PROVE  Verifies <=> TargetKept(request) \/ ~SignsTarget
    BY DEF SignatureHolds
  <2>1. Len(auth) \in Nat \ {0}
    BY DEF IInv, Shape
  <2>2. signed = [i \in 1 .. Len(auth) |-> LineOf(auth[i])]
    BY DEF IInv, Finished
  <2>3. signed # << >>
    BY <2>1, <2>2
  <2>4. headers["digest"] \in {Absent, request.body}
    BY DEF IInv, HeadersHold
  <2>5. ASSUME NEW name
        PROVE  LineOf(name) = ReceivedLine(name)
                 <=> name # Target \/ TargetKept(request)
    BY DEF LineOf, ReceivedLine, SignedTarget, TargetKept
  <2>6. signed = [i \in 1 .. Len(auth) |-> ReceivedLine(auth[i])]
          <=> \A i \in 1 .. Len(auth) : LineOf(auth[i]) = ReceivedLine(auth[i])
    BY <2>2
  <2> QED
    BY <2>3, <2>4, <2>5, <2>6 DEF Verifies, SignsTarget
<1> QED
  BY SigningInvariance, <1>1, PTL
-----------------------------------------------------------------------------
(* Dates *)

\* What the regular expression and the calendar accept is a date-time of
\* ActivityStreams, perhaps with a line end after it.
LEMMA ValidIsDateTime ==
  ASSUME NEW v \in DateValues, ValidateAs2Rfc3339(v)
  PROVE  IsDateTime(v) /\ v.tail \in {"none", "line end"}
<1>1. v.kind = "time" /\ v.month \in 1 .. 12 /\ v.day \in 1 .. MaxDay(v.year, v.month)
  BY DEF ValidateAs2Rfc3339, MatchesRegex
<1>2. v \in Timestamps
  BY <1>1, DateValuesAssumption
<1>3. MonthLengths(v.year)[v.month] = MaxDay(v.year, v.month)
  BY <1>1 DEF MonthLengths, MaxDay
<1>4. MaxDay(v.year, v.month) \in Nat
  BY <1>1 DEF MaxDay
<1>5. \A d \in Nat, m \in Nat : d \in 1 .. m => 1 <= d /\ d <= m
  OBVIOUS
<1>6. v.day \in Nat /\ v.tail \in {"none", "line end"}
  BY <1>2 DEF Timestamps
<1>7. 1 <= v.day /\ v.day <= MonthLengths(v.year)[v.month]
  BY <1>1, <1>3, <1>4, <1>5, <1>6
<1>8. QED
  BY <1>1, <1>6, <1>7 DEF ValidateAs2Rfc3339, MatchesRegex, IsDateTime

\* What is said of an accepted value: it is as documented, up to a line end.
Agreed(field, v) ==
  Documented(field, v) \/ (IsDateTime(v) /\ v.tail = "line end")

LEMMA FineIsAgreed ==
  ASSUME NEW field, NEW v \in DateValues
  PROVE  /\ FieldOutcome(field, v) = "fine" => Agreed(field, v)
         /\ FieldOutcome(field, v) \in {"fine", "invalid", "type error"}
BY ValidIsDateTime DEF FieldOutcome, Agreed, Documented, ConformsToAS2

DatesTyped ==
  \/ dates = NoCall
  \/ dates \in [entity : Entities, left : SUBSET Fields,
                outcome : {"running", "valid", "invalid", "type error"}]

\* While the loop runs, every property that it has visited was fine.
VisitedFine ==
  dates.outcome = "running" =>
    \A field \in DOMAIN dates.entity \ dates.left :
      FieldOutcome(field, dates.entity[field]) = "fine"

DatesInv == DatesTyped /\ VisitedFine /\ DatesVerdict

LEMMA EntityHolds ==
  ASSUME NEW e \in Entities
  PROVE  /\ DOMAIN e \subseteq Fields
         /\ \A field \in DOMAIN e : e[field] \in DateValues
BY DEF Entities

\* One turn of the loop, whichever field is taken.
LEMMA ValidateKeeps ==
  ASSUME DatesInv, NEW field \in Fields, ValidateField(field)
  PROVE  DatesInv'
<1>1. /\ dates \in [entity : Entities, left : SUBSET Fields,
                   outcome : {"running", "valid", "invalid", "type error"}]
      /\ dates.outcome = "running"
  <2>1. dates.outcome = "running"
    BY DEF ValidateField
  <2>2. dates # NoCall
    BY <2>1 DEF NoCall
  <2>3. QED BY <2>1, <2>2 DEF DatesInv, DatesTyped
<1> DEFINE e == dates.entity
           rest == dates.left \ {field}
           result == IF field \in DOMAIN e THEN FieldOutcome(field, e[field])
                                           ELSE "fine"
<1>2. /\ e \in Entities /\ DOMAIN e \subseteq Fields
      /\ \A f \in DOMAIN e : e[f] \in DateValues
  BY <1>1, EntityHolds
<1>3. /\ dates'.entity = e /\ dates'.left = rest
      /\ dates'.outcome = (IF result # "fine" THEN result
                           ELSE IF rest = {} THEN "valid" ELSE "running")
      /\ dates' = [dates EXCEPT !.left = rest, !.outcome = dates'.outcome]
  BY <1>1 DEF ValidateField
<1>4. result \in {"fine", "invalid", "type error"}
  BY <1>2, FineIsAgreed
<1>5. DatesTyped'
  BY <1>1, <1>3, <1>4 DEF DatesTyped
<1>6. CASE result # "fine"
  <2>1. field \in DOMAIN e /\ FieldOutcome(field, e[field]) # "fine"
    BY <1>6
  <2>2. QED
    BY <1>3, <1>4, <1>5, <1>6, <2>1 DEF DatesInv, VisitedFine, DatesVerdict, Ended
<1>7. CASE result = "fine"
  <2>1. field \in DOMAIN e => FieldOutcome(field, e[field]) = "fine"
    BY <1>7
  <2>2. \A f \in DOMAIN e \ rest : FieldOutcome(f, e[f]) = "fine"
    BY <1>1, <2>1 DEF DatesInv, VisitedFine
  <2>3. VisitedFine'
    BY <1>3, <2>2 DEF VisitedFine
  <2>4. CASE rest # {}
    BY <1>3, <1>5, <1>7, <2>3, <2>4 DEF DatesInv, DatesVerdict, Ended
  <2>5. CASE rest = {}
    <3>1. dates'.outcome = "valid" /\ \A f \in DOMAIN e : FieldOutcome(f, e[f]) = "fine"
      BY <1>3, <1>7, <2>2, <2>5
    <3>2. \A f \in DOMAIN e : Agreed(f, e[f])
      BY <1>2, <3>1, FineIsAgreed
    <3>3. DatesVerdict'
      BY <1>3, <3>1, <3>2 DEF DatesVerdict, Agreed
    <3>4. QED BY <1>5, <2>3, <3>3 DEF DatesInv
  <2>6. QED BY <2>4, <2>5
<1>8. QED BY <1>6, <1>7

LEMMA DatesKeep == DatesInv /\ [DatesNext]_dates => DatesInv'
<1> SUFFICES ASSUME DatesInv, [DatesNext]_dates PROVE DatesInv'
  OBVIOUS
<1>1. ASSUME NEW e \in Entities, ValidateDates(e) PROVE DatesInv'
  <2>1. dates' = [entity |-> e, left |-> Fields, outcome |-> "running"]
    BY <1>1 DEF ValidateDates
  <2>2. DOMAIN e \subseteq Fields
    BY EntityHolds
  <2>3. QED
    BY <2>1, <2>2 DEF DatesInv, DatesTyped, VisitedFine, DatesVerdict, Ended
<1>2. CASE DatesReturn
  BY <1>2 DEF DatesReturn, NoCall, DatesInv, DatesTyped, VisitedFine, DatesVerdict,
              Ended
<1>3. CASE UNCHANGED dates
  BY <1>3 DEF DatesInv, DatesTyped, VisitedFine, DatesVerdict, Ended
<1>4. QED BY <1>1, <1>2, <1>3, ValidateKeeps DEF DatesNext

\* A call that ends has accepted its entity exactly when every timed property
\* is accepted alone, in whatever order it has visited them, and has accepted
\* nothing that the documentation rules out, but for a line end after a
\* date-time.
THEOREM DatesAreJudged == ValuesSpec => []DatesVerdict
<1>1. ValuesInit => DatesInv
  BY DEF ValuesInit, DatesInit, NoCall, DatesInv, DatesTyped, VisitedFine,
         DatesVerdict, Ended
<1>2. DatesInv /\ [ValuesNext]_valuesVars => DatesInv'
  BY DatesKeep DEF ValuesNext, valuesVars
<1>3. DatesInv => DatesVerdict
  BY DEF DatesInv
<1>4. QED BY <1>1, <1>2, <1>3, PTL DEF ValuesSpec

\* Between the other helpers, the signing of requests goes on as alone, so the
\* three theorems above are about the composition as well.
THEOREM ValuesSign == ValuesSpec => SigningSpec
<1>1. ValuesInit => SigningInit
  BY DEF ValuesInit
<1>2. [ValuesNext]_valuesVars => [SigningNext]_signingVars
  BY DEF ValuesNext, valuesVars
<1>3. QED BY <1>1, <1>2, PTL DEF ValuesSpec, SigningSpec
-----------------------------------------------------------------------------
(* Media types *)

LEMMA HasLeast ==
  ASSUME NEW T, T \subseteq Nat, T # {}
  PROVE  \E x \in T : \A y \in T : x <= y
<1>1. PICK x \in T : \A y \in T : <<y, x>> \notin OpToRel(<, Nat)
  BY WFMin, NatLessThanWellFounded, Zenon
<1>2. \A y \in T : ~(y < x)
  BY <1>1, Zenon DEF OpToRel
<1>3. QED BY <1>2

LEMMA HasGreatest ==
  ASSUME NEW n \in Nat, NEW T, T \subseteq 1 .. n, T # {}
  PROVE  \E x \in T : \A y \in T : y <= x
<1> DEFINE U == {n - i : i \in T}
<1>1. U \subseteq Nat /\ U # {}
  <2>1. \A i \in 1 .. n : n - i \in Nat
    OBVIOUS
  <2>2. \A i \in T : n - i \in Nat
    BY <2>1
  <2>3. QED BY <2>2
<1>2. PICK u \in U : \A w \in U : u <= w
  BY <1>1, HasLeast
<1>3. PICK x \in T : u = n - x
  BY <1>2
<1>4. \A y \in T : n - x <= n - y
  BY <1>2, <1>3
<1>5. QED BY <1>4

LEMMA HasElements == \A s : Len(s) # 0 => s # << >>
BY EmptySeq

\* A sequence is what comes before a place, what is there, and what comes after.
LEMMA SplitAt ==
  ASSUME NEW S, NEW t \in Seq(S), NEW k \in 1 .. Len(t)
  PROVE  t = SubSeq(t, 1, k - 1) \o <<t[k]>> \o SubSeq(t, k + 1, Len(t))
<1>0. ASSUME NEW a \in Seq(S), Len(a) = k - 1, \A i \in 1 .. k - 1 : a[i] = t[i],
             NEW c \in Seq(S), Len(c) = Len(t) - k,
             \A i \in 1 .. Len(t) - k : c[i] = t[k + i]
      PROVE  t = a \o <<t[k]>> \o c
  <2>1. /\ a \o <<t[k]>> \in Seq(S) /\ Len(a \o <<t[k]>>) = k
        /\ \A i \in 1 .. k : (a \o <<t[k]>>)[i] = t[i]
    BY <1>0
  <2>2. PICK b \in Seq(S) : b = a \o <<t[k]>>
    BY <2>1
  <2>3. /\ b \o c \in Seq(S) /\ Len(b \o c) = Len(t)
        /\ \A i \in 1 .. Len(t) : (b \o c)[i] = t[i]
    <3>1. /\ b \o c \in Seq(S) /\ Len(b \o c) = Len(b) + Len(c)
          /\ \A i \in 1 .. Len(b) + Len(c) :
                (b \o c)[i] = IF i <= Len(b) THEN b[i] ELSE c[i - Len(b)]
      <4>1. b \in Seq(S) /\ c \in Seq(S)
        BY <1>0, <2>2
      <4>2. QED BY <4>1, ConcatProperties
    <3>2. Len(b) = k /\ Len(b) + Len(c) = Len(t)
      <4>1. Len(b) = k
        BY <2>1, <2>2
      <4>2. \A m \in Nat : \A j \in 1 .. m : j + (m - j) = m
        OBVIOUS
      <4>3. Len(t) \in Nat /\ k + (Len(t) - k) = Len(t)
        BY <4>2
      <4>4. QED BY <1>0, <4>1, <4>3
    <3>3. ASSUME NEW i \in 1 .. Len(t) PROVE (b \o c)[i] = t[i]
      <4>1. CASE i <= k
        BY <2>1, <2>2, <3>1, <3>2, <4>1
      <4>2. CASE ~(i <= k)
        <5>1. i - k \in 1 .. Len(t) - k /\ k + (i - k) = i
          BY <4>2
        <5>2. c[i - k] = t[i]
          BY <1>0, <5>1
        <5>3. QED BY <3>1, <3>2, <4>2, <5>2
      <4>3. QED BY <4>1, <4>2
    <3>4. QED BY <3>1, <3>2, <3>3
  <2>4. t = b \o c
    BY <2>3, SeqEqual
  <2>5. QED BY <2>2, <2>4
<1>1. /\ SubSeq(t, 1, k - 1) \in Seq(S) /\ Len(SubSeq(t, 1, k - 1)) = k - 1
      /\ \A i \in 1 .. k - 1 : SubSeq(t, 1, k - 1)[i] = t[i]
  BY SubSeqProperties
<1>2. /\ SubSeq(t, k + 1, Len(t)) \in Seq(S)
      /\ Len(SubSeq(t, k + 1, Len(t))) = Len(t) - k
      /\ \A i \in 1 .. Len(t) - k : SubSeq(t, k + 1, Len(t))[i] = t[k + i]
  BY SubSeqProperties
<1>3. QED BY <1>0, <1>1, <1>2

\* The tree ends at the last dot; the rest still alternates, without dots.
LEMMA TreeIsSplit ==
  ASSUME NEW tokens, Alternates(tokens)
  PROVE  LET tree == SplitTree(tokens) IN
         /\ Alternates(tree.rest) /\ Marks(tree.rest, ".") = {}
         /\ tokens = Joined(tree.tree, ".", tree.rest)
<1> DEFINE dots == Marks(tokens, ".")
           n == Len(tokens)
<1>0. tokens \in Seq(STRING) /\ n \in Nat \ {0}
  BY DEF Alternates
<1>1. CASE dots = {}
  BY <1>1 DEF SplitTree, Joined
<1>2. CASE dots # {}
  <2> DEFINE last == CHOOSE i \in dots : \A j \in dots : j <= i
             before == SubSeq(tokens, 1, last - 1)
             after == SubSeq(tokens, last + 1, n)
  <2>1. dots \subseteq 1 .. n
    BY DEF Marks
  <2>2. last \in dots /\ \A j \in dots : j <= last
    <3>1. \E i \in dots : \A j \in dots : j <= i
      BY <1>0, <1>2, <2>1, HasGreatest
    <3>2. QED BY <3>1
  <2>3. last \in 1 .. n /\ tokens[last] = "."
    BY <2>2 DEF Marks
  <2>4. last # 1 /\ last # n
    BY <2>3 DEF Alternates, IsMark
  <2> HIDE DEF last
  <2>5. SplitTree(tokens) = [tree |-> before, rest |-> after]
    BY <1>2 DEF SplitTree, last
  <2>6. /\ after \in Seq(STRING) /\ Len(after) = n - last
        /\ \A i \in 1 .. n - last : after[i] = tokens[last + i]
    BY <1>0, <2>3, SubSeqProperties
  <2>7. Len(before) = last - 1 /\ before # << >>
    <3>1. last - 1 \in Nat \ {0} /\ \A i \in 1 .. last - 1 : tokens[i] \in STRING
      BY <1>0, <2>3, <2>4
    <3>2. Len(before) = last - 1
      BY <3>1, SubSeqProperties
    <3>3. QED BY <3>1, <3>2, HasElements
  <2>8. Marks(after, ".") = {}
    <3>1. ASSUME NEW i \in 1 .. Len(after), after[i] = "." PROVE FALSE
      <4>1. last + i \in 1 .. n /\ tokens[last + i] = "."
        BY <1>0, <2>3, <2>6, <3>1
      <4>2. last + i \in dots
        BY <4>1 DEF Marks
      <4>3. QED BY <2>2, <2>3, <3>1, <4>2, <2>6, <1>0
    <3>2. QED BY <3>1 DEF Marks
  <2>9. Alternates(after)
    <3>1. after # << >> /\ 1 \in 1 .. n - last /\ n - last \in 1 .. n - last
      <4>1. n - last \in Nat \ {0}
        BY <1>0, <2>3, <2>4
      <4>2. Len(after) # 0
        BY <2>6, <4>1
      <4>3. after # << >>
        BY <4>2, HasElements
      <4>4. QED BY <4>1, <4>3
    <3>2. ~IsMark(after[1])
      <4>1. last \in 1 .. n - 1 /\ IsMark(tokens[last])
        BY <1>0, <2>3, <2>4 DEF IsMark
      <4>2. ~IsMark(tokens[last + 1])
        BY <4>1 DEF Alternates
      <4>3. QED BY <2>6, <3>1, <4>2
    <3>3. ~IsMark(after[Len(after)])
      <4>1. last + (n - last) = n
        BY <1>0, <2>3
      <4>2. QED BY <2>6, <3>1, <4>1 DEF Alternates
    <3>4. ASSUME NEW i \in 1 .. Len(after) - 1
          PROVE  IsMark(after[i]) <=> ~IsMark(after[i + 1])
      <4>1. /\ last + i \in 1 .. n - 1 /\ (last + i) + 1 = last + (i + 1)
            /\ i \in 1 .. n - last /\ i + 1 \in 1 .. n - last
        BY <1>0, <2>3, <2>6
      <4>2. IsMark(tokens[last + i]) <=> ~IsMark(tokens[last + (i + 1)])
        BY <4>1 DEF Alternates
      <4>3. QED BY <2>6, <4>1, <4>2
    <3>5. QED BY <2>6, <3>1, <3>2, <3>3, <3>4 DEF Alternates
  <2>10. tokens = before \o <<".">> \o after
    BY <1>0, <2>3, SplitAt
  <2>11. QED
    <3>1. tokens = Joined(before, ".", after)
      BY <2>7, <2>10 DEF Joined
    <3>2. SplitTree(tokens).tree = before /\ SplitTree(tokens).rest = after
      <4> HIDE DEF before, after
      <4>1. QED BY <2>5
    <3>3. QED BY <2>8, <2>9, <3>1, <3>2
<1>3. QED BY <1>1, <1>2

\* Without dots the first mark can only be the plus after the first name.
LEMMA SuffixIsSplit ==
  ASSUME NEW r, Alternates(r), Marks(r, ".") = {}
  PROVE  LET suffix == SplitSuffix(r) IN
         /\ Len(suffix.subtype) = 1
         /\ r = IF suffix.suffix = << >> THEN suffix.subtype
                ELSE suffix.subtype \o <<"+">> \o suffix.suffix
<1> DEFINE pluses == Marks(r, "+")
           n == Len(r)
<1>0. r \in Seq(STRING) /\ n \in Nat \ {0}
  BY DEF Alternates
<1>1. 1 \notin pluses /\ (n > 1 => 2 \in pluses /\ n # 2)
  <2>1. 1 \notin pluses
    BY DEF Marks, Alternates, IsMark
  <2>2. ASSUME n > 1 PROVE IsMark(r[2])
    <3>1. 1 \in 1 .. n - 1 /\ ~IsMark(r[1]) /\ 1 + 1 = 2
      BY <1>0, <2>2 DEF Alternates
    <3>2. QED BY <3>1 DEF Alternates
  <2>3. ASSUME n > 1 PROVE 2 \in pluses /\ n # 2
    <3>1. r[2] # "." /\ 2 \in 1 .. n
      BY <1>0, <2>3 DEF Marks
    <3>2. r[2] = "+"
      BY <2>2, <2>3, <3>1 DEF IsMark
    <3>3. QED BY <2>2, <2>3, <3>1, <3>2 DEF Marks, Alternates
  <2>4. QED BY <2>1, <2>3
<1>2. CASE pluses = {}
  <2>1. n = 1
    <3>1. ~(n > 1)
      BY <1>1, <1>2
    <3>2. \A m \in Nat \ {0} : ~(m > 1) => m = 1
      OBVIOUS
    <3>3. QED BY <1>0, <3>1, <3>2
  <2>2. QED BY <1>2, <2>1 DEF SplitSuffix
<1>3. CASE pluses # {}
  <2> DEFINE first == CHOOSE i \in pluses : \A j \in pluses : i <= j
  <2>1. pluses \subseteq 1 .. n
    BY DEF Marks
  <2>2. n > 1
    BY <1>0, <1>1, <1>3, <2>1
  <2>3. first = 2
    <3>1. 2 \in pluses /\ \A j \in pluses : 2 <= j
      BY <1>0, <1>1, <2>1, <2>2
    <3>2. first \in pluses /\ \A j \in pluses : first <= j
      BY <3>1
    <3>3. QED BY <3>1, <3>2, <1>0, <2>1
  <2> HIDE DEF first
  <2>4. SplitSuffix(r) = [subtype |-> SubSeq(r, 1, first - 1),
                          suffix |-> SubSeq(r, first + 1, n)]
    BY <1>3 DEF SplitSuffix, first
  <2>5. /\ SplitSuffix(r).subtype = SubSeq(r, 1, 2 - 1)
        /\ SplitSuffix(r).suffix = SubSeq(r, 2 + 1, n)
    BY <2>3, <2>4
  <2>6. Len(SubSeq(r, 1, 2 - 1)) = 1
    BY <1>0, SubSeqProperties
  <2>7. SubSeq(r, 2 + 1, n) # << >>
    <3>1. n - 2 \in Nat \ {0} /\ 2 + 1 <= n /\ n - (2 + 1) + 1 = n - 2
      <4>1. \A m \in Nat \ {0} : m > 1 /\ m # 2 =>
              m - 2 \in Nat \ {0} /\ 2 + 1 <= m /\ m - (2 + 1) + 1 = m - 2
        OBVIOUS
      <4>2. QED BY <1>0, <1>1, <2>2, <4>1
    <3>2. \A i \in 2 + 1 .. n : r[i] \in STRING
      BY <1>0
    <3>3. Len(SubSeq(r, 2 + 1, n)) = n - 2
      BY <1>0, <3>1, <3>2, SubSeqProperties
    <3>4. Len(SubSeq(r, 2 + 1, n)) # 0
      BY <3>1, <3>3
    <3>5. QED BY <3>4, HasElements
  <2>8. 2 \in 1 .. n /\ r[2] = "+"
    BY <1>0, <1>1, <2>2 DEF Marks
  <2>9. r = SubSeq(r, 1, 2 - 1) \o <<"+">> \o SubSeq(r, 2 + 1, n)
    BY <1>0, <2>8, SplitAt
  <2>10. QED BY <2>5, <2>6, <2>7, <2>9
<1>4. QED BY <1>2, <1>3

MediaInv == "outcome" \in DOMAIN media /\ ContentTypeRecovered

LEMMA MediaKeeps == MediaInv /\ [MediaNext]_media => MediaInv'
<1> SUFFICES ASSUME MediaInv, [MediaNext]_media PROVE MediaInv'
  OBVIOUS
<1>1. ASSUME NEW header, ParseAccept(header) PROVE MediaInv'
  BY <1>1 DEF ParseAccept, MediaInv, ContentTypeRecovered
<1>2. CASE ParseParam
  BY <1>2 DEF ParseParam, MediaInv, ContentTypeRecovered
<1>3. CASE EndEntry
  BY <1>3 DEF EndEntry, MediaInv, ContentTypeRecovered
<1>4. ASSUME NEW tokens \in Subtypes, ParseContentType(tokens) PROVE MediaInv'
  <2> DEFINE tree == SplitTree(tokens)
             suffix == SplitSuffix(tree.rest)
  <2>1. Alternates(tokens)
    BY SubtypesAssumption
  <2>2. /\ Alternates(tree.rest) /\ Marks(tree.rest, ".") = {}
        /\ tokens = Joined(tree.tree, ".", tree.rest)
    BY <2>1, TreeIsSplit
  <2>3. /\ Len(suffix.subtype) = 1
        /\ tree.rest = IF suffix.suffix = << >> THEN suffix.subtype
                       ELSE suffix.subtype \o <<"+">> \o suffix.suffix
    BY <2>2, SuffixIsSplit
  <2>4. media' = [call |-> "content type", tokens |-> tokens,
                  tree |-> tree.tree, subtype |-> suffix.subtype,
                  suffix |-> suffix.suffix, outcome |-> "parsed"]
    BY <1>4 DEF ParseContentType
  <2> HIDE DEF tree, suffix
  <2>5. QED
    BY <2>2, <2>3, <2>4 DEF MediaInv, ContentTypeRecovered
<1>5. CASE MediaReturn
  BY <1>5 DEF MediaReturn, NoParse, MediaInv, ContentTypeRecovered
<1>6. CASE UNCHANGED media
  BY <1>6 DEF MediaInv, ContentTypeRecovered
<1>7. QED BY <1>1, <1>2, <1>3, <1>4, <1>5, <1>6 DEF MediaNext

\* What parse_content_type takes apart can be put together again, and what it
\* takes for the subtype is a single name, however many facets there are.
THEOREM MediaTypesAreRecovered == ValuesSpec => []ContentTypeRecovered
<1>1. ValuesInit => MediaInv
  BY DEF ValuesInit, MediaInit, NoParse, MediaInv, ContentTypeRecovered
<1>2. MediaInv /\ [ValuesNext]_valuesVars => MediaInv'
  BY MediaKeeps DEF ValuesNext, valuesVars
<1>3. MediaInv => ContentTypeRecovered
  BY DEF MediaInv
<1>4. QED BY <1>1, <1>2, <1>3, PTL DEF ValuesSpec

=============================================================================
