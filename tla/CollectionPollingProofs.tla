----------------------- MODULE CollectionPollingProofs -----------------------
(***************************************************************************)
(* Theorems about CollectionPolling, for any items, page size, recursion   *)
(* limit and number of tries.                                              *)
(***************************************************************************)
EXTENDS CollectionPolling, SequenceTheorems, TLAPS

Frame == [doc : Nat, depth : Nat]

-----------------------------------------------------------------------------
(***************************************************************************)
(* The sets of the elements of sequences.                                  *)
(***************************************************************************)
LEMMA ElementsOfConcat ==
  ASSUME NEW S, NEW s \in Seq(S), NEW t \in Seq(S)
  PROVE  ToSet(s \o t) = ToSet(s) \cup ToSet(t)
<1>1. /\ s \o t \in Seq(S)
      /\ Len(s \o t) = Len(s) + Len(t)
      /\ \A i \in 1 .. Len(s) + Len(t) :
           (s \o t)[i] = IF i <= Len(s) THEN s[i] ELSE t[i - Len(s)]
  BY ConcatProperties
<1>2. /\ DOMAIN (s \o t) = 1 .. Len(s) + Len(t)
      /\ DOMAIN s = 1 .. Len(s) /\ DOMAIN t = 1 .. Len(t)
      /\ Len(s) \in Nat /\ Len(t) \in Nat
  BY <1>1
<1>3. ASSUME NEW x \in ToSet(s \o t)
      PROVE  x \in ToSet(s) \cup ToSet(t)
  <2>1. PICK i \in 1 .. Len(s) + Len(t) : x = (s \o t)[i]
    BY <1>2 DEF ToSet
  <2>2. CASE i <= Len(s)
    BY <1>1, <1>2, <2>1, <2>2 DEF ToSet
  <2>3. CASE i > Len(s)
    <3>1. i - Len(s) \in DOMAIN t /\ x = t[i - Len(s)]
      BY <1>1, <1>2, <2>1, <2>3
    <3>2. QED BY <3>1 DEF ToSet
  <2>4. QED BY <1>2, <2>1, <2>2, <2>3
<1>4. ASSUME NEW x \in ToSet(s)
      PROVE  x \in ToSet(s \o t)
  <2>1. PICK i \in 1 .. Len(s) : x = s[i]
    BY <1>2 DEF ToSet
  <2>2. i \in DOMAIN (s \o t) /\ x = (s \o t)[i]
    BY <1>1, <1>2, <2>1
  <2>3. QED BY <2>2 DEF ToSet
<1>5. ASSUME NEW x \in ToSet(t)
      PROVE  x \in ToSet(s \o t)
  <2>1. PICK i \in 1 .. Len(t) : x = t[i]
    BY <1>2 DEF ToSet
  <2>2. i + Len(s) \in DOMAIN (s \o t) /\ x = (s \o t)[i + Len(s)]
    BY <1>1, <1>2, <2>1
  <2>3. QED BY <2>2 DEF ToSet
<1>6. QED BY <1>3, <1>4, <1>5

LEMMA ElementsOfSubSeq ==
  ASSUME NEW S, NEW s \in Seq(S), NEW m \in 1 .. Len(s) + 1, NEW n \in m - 1 .. Len(s)
  PROVE  /\ SubSeq(s, m, n) \in Seq(S)
         /\ ToSet(SubSeq(s, m, n)) = {s[i] : i \in m .. n}
<1>1. /\ SubSeq(s, m, n) \in Seq(S)
      /\ Len(SubSeq(s, m, n)) = n - m + 1
      /\ \A i \in 1 .. n - m + 1 : SubSeq(s, m, n)[i] = s[m + i - 1]
      /\ Len(s) \in Nat /\ m \in Nat /\ n \in Nat
  BY SubSeqProperties
<1>2. DOMAIN SubSeq(s, m, n) = 1 .. n - m + 1
  BY <1>1
<1>3. ASSUME NEW x \in ToSet(SubSeq(s, m, n))
      PROVE  x \in {s[i] : i \in m .. n}
  <2>1. PICK i \in 1 .. n - m + 1 : x = SubSeq(s, m, n)[i]
    BY <1>2 DEF ToSet
  <2>2. m + i - 1 \in m .. n /\ x = s[m + i - 1]
    BY <1>1, <2>1
  <2>3. QED BY <2>2
<1>4. ASSUME NEW i \in m .. n
      PROVE  s[i] \in ToSet(SubSeq(s, m, n))
  <2>1. i - m + 1 \in 1 .. n - m + 1 /\ m + (i - m + 1) - 1 = i
    BY <1>1
  <2>2. SubSeq(s, m, n)[i - m + 1] = s[i]
    BY <1>1, <2>1
  <2>3. QED BY <1>2, <2>1, <2>2 DEF ToSet
<1>5. QED BY <1>1, <1>3, <1>4

\* What is left of a sequence when one place is taken out of it.
LEMMA ElementsOfRemoveAt ==
  ASSUME NEW S, NEW s \in Seq(S), NEW p \in DOMAIN s
  PROVE  /\ RemoveAt(s, p) \in Seq(S)
         /\ ToSet(RemoveAt(s, p)) \subseteq ToSet(s)
         /\ ToSet(s) \ {s[p]} \subseteq ToSet(RemoveAt(s, p))
<1>1. Len(s) \in Nat /\ DOMAIN s = 1 .. Len(s) /\ p \in 1 .. Len(s)
  OBVIOUS
<1> DEFINE l == SubSeq(s, 1, p - 1)
           r == SubSeq(s, p + 1, Len(s))
<1>2. l \in Seq(S) /\ ToSet(l) = {s[i] : i \in 1 .. p - 1}
  <2>1. 1 \in 1 .. Len(s) + 1 /\ p - 1 \in 1 - 1 .. Len(s)
    BY <1>1
  <2>2. QED BY <2>1, ElementsOfSubSeq
<1>3. r \in Seq(S) /\ ToSet(r) = {s[i] : i \in p + 1 .. Len(s)}
  <2>1. p + 1 \in 1 .. Len(s) + 1 /\ Len(s) \in (p + 1) - 1 .. Len(s)
    BY <1>1
  <2>2. QED BY <2>1, ElementsOfSubSeq
<1>4. RemoveAt(s, p) = l \o r
  BY DEF RemoveAt
<1> HIDE DEF l, r
<1>5. RemoveAt(s, p) \in Seq(S) /\ ToSet(RemoveAt(s, p)) = ToSet(l) \cup ToSet(r)
  BY <1>2, <1>3, <1>4, ElementsOfConcat, ConcatProperties
<1>6. \A i \in 1 .. Len(s) : i \in 1 .. p - 1 \/ i = p \/ i \in p + 1 .. Len(s)
  BY <1>1
<1>7. ToSet(RemoveAt(s, p)) \subseteq ToSet(s)
  <2>1. \A i \in (1 .. p - 1) \cup (p + 1 .. Len(s)) : i \in DOMAIN s
    BY <1>1
  <2>2. QED BY <1>2, <1>3, <1>5, <2>1 DEF ToSet
<1>8. ASSUME NEW x \in ToSet(s) \ {s[p]}
      PROVE  x \in ToSet(RemoveAt(s, p))
  <2>1. PICK i \in 1 .. Len(s) : x = s[i] /\ i # p
    BY <1>1 DEF ToSet
  <2>2. QED BY <1>2, <1>3, <1>5, <1>6, <2>1
<1>9. QED BY <1>5, <1>7, <1>8

LEMMA HeadAndRest ==
  ASSUME NEW S, NEW s \in Seq(S), s # << >>
  PROVE  /\ Head(s) \in S /\ Tail(s) \in Seq(S)
         /\ \A k \in DOMAIN s :
              k = 1 \/ (k - 1 \in DOMAIN Tail(s) /\ Tail(s)[k - 1] = s[k])
<1> DEFINE n == Len(s)
           t == Tail(s)
<1>1. /\ t \in Seq(S) /\ Head(s) \in S /\ Len(t) = n - 1
      /\ \A i \in 1 .. Len(t) : t[i] = s[i + 1]
  BY HeadTailProperties
<1>2. n \in Nat /\ DOMAIN s = 1 .. n /\ DOMAIN t = 1 .. n - 1
  BY <1>1
<1> HIDE DEF n, t
<1>3. ASSUME NEW k \in DOMAIN s
      PROVE  k = 1 \/ (k - 1 \in DOMAIN t /\ t[k - 1] = s[k])
  <2>1. CASE k # 1
    <3>1. k - 1 \in 1 .. n - 1 /\ (k - 1) + 1 = k
      BY <1>2, <2>1
    <3>2. QED BY <1>1, <1>2, <3>1
  <2>2. QED BY <2>1
<1>4. QED BY <1>1, <1>3 DEF t

\* The places of two sequences in their concatenation.
LEMMA ConcatPlaces ==
  ASSUME NEW S, NEW s \in Seq(S), NEW t \in Seq(S)
  PROVE  /\ \A k \in DOMAIN s : k \in DOMAIN (s \o t) /\ (s \o t)[k] = s[k]
         /\ \A k \in DOMAIN t : /\ k + Len(s) \in DOMAIN (s \o t)
                                 /\ (s \o t)[k + Len(s)] = t[k]
<1> DEFINE n == Len(s)
           m == Len(t)
           c == s \o t
<1>1. /\ c \in Seq(S) /\ Len(c) = n + m
      /\ \A k \in 1 .. n + m : c[k] = IF k <= n THEN s[k] ELSE t[k - n]
  BY ConcatProperties
<1>2. /\ n \in Nat /\ m \in Nat
      /\ DOMAIN s = 1 .. n /\ DOMAIN t = 1 .. m /\ DOMAIN c = 1 .. n + m
  BY <1>1
<1> HIDE DEF n, m, c
<1>3. ASSUME NEW k \in 1 .. n PROVE k \in DOMAIN c /\ c[k] = s[k]
  <2>1. k \in 1 .. n + m /\ k <= n
    BY <1>2
  <2>2. QED BY <1>1, <1>2, <2>1
<1>4. ASSUME NEW k \in 1 .. m PROVE k + n \in DOMAIN c /\ c[k + n] = t[k]
  <2>1. k + n \in 1 .. n + m /\ ~(k + n <= n) /\ (k + n) - n = k
    BY <1>2
  <2>2. QED BY <1>1, <1>2, <2>1
<1>5. QED BY <1>2, <1>3, <1>4 DEF c, n

-----------------------------------------------------------------------------
(***************************************************************************)
(* Documents and links.                                                    *)
(***************************************************************************)

\* The places of a page: those after a and up to b, cut off at the end.
LEMMA Places ==
  ASSUME NEW len \in Nat, NEW a \in Nat, NEW b \in Nat, a <= b, NEW last,
         last = IF b < len THEN b ELSE len
  PROVE  /\ last \in Nat /\ last <= len
         /\ a <= len => a + 1 \in 1 .. len + 1 /\ last \in (a + 1) - 1 .. len
         /\ a > len => last < a + 1
         /\ \A p \in a + 1 .. last : p \in 1 .. len
         /\ \A p \in 1 .. len : p > a /\ p <= b <=> p \in a + 1 .. last
OBVIOUS

\* The elements at those places.
LEMMA ElementsBetween ==
  ASSUME NEW S, NEW s \in Seq(S), NEW a \in Nat, NEW b \in Nat, a <= b, NEW last,
         last = IF b < Len(s) THEN b ELSE Len(s)
  PROVE  /\ SubSeq(s, a + 1, last) \in Seq(S)
         /\ ToSet(SubSeq(s, a + 1, last)) \subseteq ToSet(s)
         /\ \A p \in DOMAIN s : p > a /\ p <= b => s[p] \in ToSet(SubSeq(s, a + 1, last))
<1> DEFINE len == Len(s)
<1>1. len \in Nat /\ DOMAIN s = 1 .. len
  OBVIOUS
<1>2. last = IF b < len THEN b ELSE len
  OBVIOUS
<1>3. ASSUME a <= len
      PROVE  /\ SubSeq(s, a + 1, last) \in Seq(S)
             /\ ToSet(SubSeq(s, a + 1, last)) = {s[i] : i \in a + 1 .. last}
  <2>1. a + 1 \in 1 .. len + 1 /\ last \in (a + 1) - 1 .. len
    <3> HIDE DEF len
    <3>1. QED BY <1>1, <1>2, <1>3, Places
  <2>2. QED BY <2>1, ElementsOfSubSeq
<1>4. ASSUME a > len
      PROVE  SubSeq(s, a + 1, last) = << >>
  <2>1. last < a + 1 /\ last \in Int /\ a + 1 \in Int
    <3> HIDE DEF len
    <3>1. QED BY <1>1, <1>2, <1>4, Places
  <2>2. QED BY <2>1, SubSeqEmpty
<1> HIDE DEF len
<1>5. /\ \A p \in a + 1 .. last : p \in 1 .. len
      /\ \A p \in 1 .. len : p > a /\ p <= b <=> p \in a + 1 .. last
  BY <1>1, <1>2, Places
<1>6. CASE a <= len
  BY <1>1, <1>3, <1>5, <1>6 DEF ToSet
<1>7. CASE a > len
  <2>1. \A p \in 1 .. len : ~(p > a)
    BY <1>1, <1>7
  <2>2. QED BY <1>1, <1>4, <1>7, <2>1 DEF ToSet
<1>8. QED BY <1>1, <1>6, <1>7

\* The items of a page.
LEMMA PageItems ==
  ASSUME TypeOK, layout # "inline", NEW doc \in Nat \ {0}
  PROVE  /\ ItemsOf(doc) \in Seq(Items)
         /\ ToSet(ItemsOf(doc)) \subseteq ToSet(coll)
         /\ \A p \in DOMAIN coll :
              p > (doc - 1) * PageSize /\ p <= doc * PageSize
                => coll[p] \in ToSet(ItemsOf(doc))
<1> DEFINE last == IF doc * PageSize < Len(coll) THEN doc * PageSize ELSE Len(coll)
<1>1. /\ (doc - 1) * PageSize \in Nat /\ doc * PageSize \in Nat
      /\ (doc - 1) * PageSize <= doc * PageSize
  <2>1. PageSize \in Nat
    BY PollingAssumption DEF PollingAssumption
  <2>2. doc * PageSize = (doc - 1) * PageSize + PageSize
    BY <2>1
  <2>3. (doc - 1) * PageSize \in Nat
    BY <2>1
  <2>4. QED BY <2>1, <2>2, <2>3
<1>2. ItemsOf(doc) = SubSeq(coll, (doc - 1) * PageSize + 1, last)
  BY DEF ItemsOf
<1>3. coll \in Seq(Items)
  BY DEF TypeOK
<1>4. QED BY ONLY <1>1, <1>2, <1>3, ElementsBetween

LEMMA DocumentItems ==
  ASSUME TypeOK, NEW doc \in Nat
  PROVE  ItemsOf(doc) \in Seq(Items) /\ ToSet(ItemsOf(doc)) \subseteq ToSet(coll)
<1>1. CASE layout = "inline"
  BY <1>1 DEF ItemsOf, TypeOK
<1>2. CASE layout # "inline" /\ doc = 0
  BY <1>2 DEF ItemsOf, ToSet
<1>3. CASE layout # "inline" /\ doc # 0
  BY <1>3, PageItems
<1>4. QED BY <1>1, <1>2, <1>3

LEMMA LinksTyped ==
  ASSUME TypeOK, NEW doc \in Nat
  PROVE  /\ Links(doc) \in Seq(Nat)
         /\ layout # "inline" /\ doc = 0 => Links(doc) = << 1 >>
         /\ layout # "inline" /\ doc # 0 /\ doc * PageSize < Len(coll)
              => \E k \in DOMAIN Links(doc) : Links(doc)[k] = doc + 1
<1>1. CASE layout = "inline"
  BY <1>1 DEF Links
<1>2. CASE layout # "inline" /\ doc = 0
  BY <1>2 DEF Links
<1>3. CASE layout # "inline" /\ doc # 0
  <2> DEFINE s == IF layout = "looped" THEN << 1 >> ELSE << >>
             t == IF doc * PageSize < Len(coll) THEN << doc + 1 >> ELSE << >>
  <2>1. Links(doc) = s \o t
    BY <1>3 DEF Links
  <2>2. s \in Seq(Nat) /\ t \in Seq(Nat) /\ Len(s) \in Nat
    OBVIOUS
  <2>3. doc * PageSize < Len(coll) => Len(t) = 1 /\ t[1] = doc + 1
    OBVIOUS
  <2> HIDE DEF s, t
  <2>4. s \o t \in Seq(Nat)
    BY <2>2, ConcatProperties
  <2>5. ASSUME doc * PageSize < Len(coll)
        PROVE  \E k \in DOMAIN Links(doc) : Links(doc)[k] = doc + 1
    <3>1. Len(s \o t) = Len(s) + 1 /\ (s \o t)[Len(s) + 1] = t[1]
      <4>1. Len(t) = 1
        BY <2>3, <2>5
      <4>2. /\ Len(s \o t) = Len(s) + Len(t)
            /\ \A i \in 1 .. Len(s) + Len(t) :
                 (s \o t)[i] = IF i <= Len(s) THEN s[i] ELSE t[i - Len(s)]
        BY <2>2, ConcatProperties
      <4>3. Len(s) + 1 \in 1 .. Len(s) + Len(t) /\ (Len(s) + 1) - Len(s) = 1
            /\ ~(Len(s) + 1 <= Len(s))
        BY <2>2, <4>1
      <4>4. QED BY <4>1, <4>2, <4>3
    <3>2. Len(s) + 1 \in DOMAIN (s \o t)
      BY <2>2, <2>4, <3>1
    <3>3. QED BY <2>1, <2>3, <2>5, <3>1, <3>2
  <2>6. QED BY <1>3, <2>1, <2>4, <2>5
<1>4. QED BY <1>1, <1>2, <1>3

LEMMA CallsTyped ==
  ASSUME TypeOK, NEW frame \in Frame
  PROVE  /\ Calls(frame) \in Seq(Frame)
         /\ DOMAIN Calls(frame) = DOMAIN Links(frame.doc)
         /\ \A k \in DOMAIN Calls(frame) : Calls(frame)[k].doc = Links(frame.doc)[k]
<1> DEFINE s == Links(frame.doc)
<1>1. s \in Seq(Nat) /\ frame.depth \in Nat
  BY LinksTyped DEF Frame
<1>2. DOMAIN s = 1 .. Len(s) /\ Len(s) \in Nat /\ \A k \in DOMAIN s : s[k] \in Nat
  BY <1>1
<1>3. Calls(frame) = [k \in DOMAIN s |-> [doc |-> s[k], depth |-> frame.depth + 1]]
  BY DEF Calls
<1> HIDE DEF s
<1>4. Calls(frame) \in [1 .. Len(s) -> Frame]
  BY <1>1, <1>2, <1>3 DEF Frame
<1>5. QED BY <1>2, <1>3, <1>4 DEF s

-----------------------------------------------------------------------------
(***************************************************************************)
(* The invariant.                                                          *)
(***************************************************************************)
LEMMA InitInv == Init => IInv
<1> SUFFICES ASSUME Init PROVE IInv
  OBVIOUS
<1> USE DEF Init
<1>1. coll \in Seq(Items)
  <2>1. PICK m \in 0 .. Cardinality(Items) : coll \in [1 .. m -> Items]
    BY DEF SeqOf
  <2>2. QED BY <2>1
<1>2. TypeOK
  BY <1>1, PollingAssumption DEF TypeOK, TheCollection, ToSet, PollingAssumption
<1>3. SeenWasThere /\ StaysSeen
  BY DEF SeenWasThere, StaysSeen, ToSet
<1>4. HistoryInStep /\ OutcomeInStep
  BY DEF HistoryInStep, OutcomeInStep
<1>5. GatheredOrAhead
  <2>1. 1 \in DOMAIN todo /\ todo[1].doc = 0
    BY DEF TheCollection
  <2>2. QED BY <2>1 DEF GatheredOrAhead, Reaches
<1>6. QED BY <1>2, <1>3, <1>4, <1>5 DEF IInv

LEMMA AddItemStep ==
  ASSUME IInv, NEW i \in Items, AddItem(i)
  PROVE  IInv'
<1> USE DEF IInv, AddItem, testVars
<1>1. coll \in Seq(Items) /\ << i >> \in Seq(Items) /\ coll' = << i >> \o coll
  BY DEF TypeOK
<1>2. coll' \in Seq(Items) /\ ToSet(coll') = {i} \cup ToSet(coll)
  <2>1. ToSet(<< i >>) = {i}
    BY DEF ToSet
  <2>2. << i >> \o coll \in Seq(Items)
    BY ONLY <1>1, ConcatProperties
  <2>3. ToSet(<< i >> \o coll) = ToSet(<< i >>) \cup ToSet(coll)
    BY ONLY <1>1, ElementsOfConcat
  <2>4. QED BY <1>1, <2>1, <2>2, <2>3
<1>3. TypeOK'
  BY <1>2 DEF TypeOK
<1>4. (SeenWasThere /\ StaysSeen)'
  BY DEF SeenWasThere, StaysSeen
<1>5. HistoryInStep'
  BY <1>2 DEF HistoryInStep
<1>6. OutcomeInStep'
  BY DEF OutcomeInStep, Holds
<1>7. GatheredOrAhead'
  <2> SUFFICES ASSUME pc = "walk", removed = {}, NEW p \in DOMAIN coll', coll'[p] \in always
               PROVE  \/ coll'[p] \in ToSet(uris)
                      \/ \E k \in DOMAIN todo : Reaches(todo[k], p)'
    BY DEF GatheredOrAhead
  <2>1. /\ Len(coll) \in Nat /\ DOMAIN coll = 1 .. Len(coll)
        /\ p \in 1 .. Len(coll) + 1
        /\ coll'[p] = IF p <= 1 THEN i ELSE coll[p - 1]
    <3>1. /\ Len(coll') = 1 + Len(coll)
          /\ \A q \in 1 .. 1 + Len(coll) :
               coll'[q] = IF q <= 1 THEN << i >>[q] ELSE coll[q - 1]
      BY <1>1, ConcatProperties, Len(<< i >>) = 1
    <3>2. DOMAIN coll' = 1 .. Len(coll')
      BY <1>2
    <3>3. QED BY <1>1, <3>1, <3>2
  <2>2. p > 1
    BY <2>1 DEF HistoryInStep
  <2>3. p - 1 \in DOMAIN coll /\ coll'[p] = coll[p - 1]
    BY <2>1, <2>2
  <2>4. CASE coll[p - 1] \in ToSet(uris)
    BY <2>3, <2>4
  <2>5. ASSUME NEW k \in DOMAIN todo, Reaches(todo[k], p - 1)
        PROVE  Reaches(todo[k], p)'
    <3>1. CASE layout = "inline" \/ todo[k].doc = 0
      BY <3>1 DEF Reaches
    <3>2. CASE p - 1 > (todo[k].doc - 1) * PageSize
      <4>1. (todo[k].doc - 1) * PageSize \in Int
        <5>1. todo \in Seq(Frame)
          BY DEF TypeOK, Frame
        <5>2. todo[k].doc \in Nat
          <6>1. todo[k] \in Frame
            BY ONLY <5>1, k \in DOMAIN todo
          <6>2. QED BY ONLY <6>1 DEF Frame
        <5>3. QED BY <5>2, PollingAssumption DEF PollingAssumption
      <4>2. p > (todo[k].doc - 1) * PageSize
        BY <2>1, <3>2, <4>1
      <4>3. QED BY <4>2 DEF Reaches
    <3>3. QED BY <2>5, <3>1, <3>2 DEF Reaches
  <2>6. QED BY <2>3, <2>4, <2>5 DEF GatheredOrAhead
<1>8. QED BY <1>3, <1>4, <1>5, <1>6, <1>7

LEMMA RemoveItemStep ==
  ASSUME IInv, NEW p \in DOMAIN coll, RemoveItem(p)
  PROVE  IInv'
<1> USE DEF IInv, RemoveItem, testVars
<1>1. coll \in Seq(Items)
  BY DEF TypeOK
<1>2. /\ coll' \in Seq(Items)
      /\ ToSet(coll') \subseteq ToSet(coll)
      /\ ToSet(coll) \ {coll[p]} \subseteq ToSet(coll')
  BY <1>1, ElementsOfRemoveAt
<1>3. coll[p] \in Items
  BY <1>1
<1>4. TypeOK'
  BY <1>2, <1>3 DEF TypeOK
<1>5. (SeenWasThere /\ StaysSeen)'
  BY DEF SeenWasThere, StaysSeen
<1>6. HistoryInStep'
  BY <1>2 DEF HistoryInStep
<1>7. OutcomeInStep'
  BY DEF OutcomeInStep, Holds
<1>8. GatheredOrAhead'
  BY DEF GatheredOrAhead
<1>9. QED BY <1>4, <1>5, <1>6, <1>7, <1>8

\* What a call leaves for the calls after it.
LEMMA VisitReaches ==
  ASSUME TypeOK, NEW frame \in Frame, NEW p \in DOMAIN coll, Reaches(frame, p)
  PROVE  \/ coll[p] \in ToSet(ItemsOf(frame.doc))
         \/ \E k \in DOMAIN Calls(frame) : Reaches(Calls(frame)[k], p)
<1> DEFINE doc == frame.doc
<1>1. doc \in Nat /\ coll \in Seq(Items)
  BY DEF Frame, TypeOK
<1>2. CASE layout = "inline"
  BY <1>2 DEF ItemsOf, ToSet
<1>3. CASE layout # "inline" /\ doc = 0
  <2>1. Links(doc) = << 1 >>
    BY <1>1, <1>3, LinksTyped
  <2>2. 1 \in DOMAIN Calls(frame) /\ Calls(frame)[1].doc = 1
    BY <2>1, CallsTyped
  <2>3. PageSize \in Nat /\ p > 0
    BY <1>1, PollingAssumption DEF PollingAssumption
  <2>4. (1 - 1) * PageSize = 0
    BY <2>3
  <2>5. QED BY <2>2, <2>3, <2>4 DEF Reaches
<1>4. CASE layout # "inline" /\ doc # 0
  <2>1. p > (doc - 1) * PageSize
    BY <1>4 DEF Reaches
  <2>2. CASE p <= doc * PageSize
    BY <1>1, <1>4, <2>1, <2>2, PageItems
  <2>3. CASE p > doc * PageSize
    <3>1. doc * PageSize < Len(coll)
      <4>1. doc * PageSize \in Nat
        BY <1>1, PollingAssumption DEF PollingAssumption
      <4>2. p \in 1 .. Len(coll) /\ Len(coll) \in Nat
        BY <1>1
      <4> HIDE DEF doc
      <4>3. QED BY <2>3, <4>1, <4>2
    <3>2. PICK k \in DOMAIN Links(doc) : Links(doc)[k] = doc + 1
      BY <1>1, <1>4, <3>1, LinksTyped
    <3>3. k \in DOMAIN Calls(frame) /\ Calls(frame)[k].doc = doc + 1
      BY <3>2, CallsTyped
    <3>4. (doc + 1) - 1 = doc
      BY <1>1
    <3>5. p > (Calls(frame)[k].doc - 1) * PageSize
      BY <2>3, <3>3, <3>4
    <3>6. QED BY <3>3, <3>5 DEF Reaches
  <2>4. p \in Nat /\ doc * PageSize \in Nat
    BY <1>1, PollingAssumption DEF PollingAssumption
  <2> HIDE DEF doc
  <2>5. QED BY <2>2, <2>3, <2>4
<1>5. QED BY <1>2, <1>3, <1>4

LEMMA VisitStep ==
  ASSUME IInv, Visit
  PROVE  IInv'
<1> USE DEF IInv, Visit, sutVars, ghosts
<1> DEFINE frame == Head(todo)
           rest == Tail(todo)
<1>1. todo \in Seq(Frame) /\ todo # << >>
  BY DEF TypeOK, Frame
<1>2. /\ frame \in Frame /\ rest \in Seq(Frame)
      /\ \A k \in DOMAIN todo : k = 1 \/ (k - 1 \in DOMAIN rest /\ rest[k - 1] = todo[k])
  BY ONLY <1>1, HeadAndRest
<1>3. todo[1] = frame
  BY <1>1
<1>4. Calls(frame) \in Seq(Frame) /\ todo' = Calls(frame) \o rest
  BY <1>2, CallsTyped
<1>5. /\ ItemsOf(frame.doc) \in Seq(Items)
      /\ ToSet(ItemsOf(frame.doc)) \subseteq ToSet(coll)
      /\ uris \in Seq(Items) /\ uris' = uris \o ItemsOf(frame.doc)
  <2>1. frame.doc \in Nat
    BY <1>2 DEF Frame
  <2>2. QED BY <2>1, DocumentItems DEF TypeOK
<1> HIDE DEF frame, rest
<1>6. /\ uris' \in Seq(Items)
      /\ ToSet(uris') = ToSet(uris) \cup ToSet(ItemsOf(frame.doc))
  <2>1. uris \o ItemsOf(frame.doc) \in Seq(Items)
    BY ONLY <1>5, ConcatProperties
  <2>2. ToSet(uris \o ItemsOf(frame.doc)) = ToSet(uris) \cup ToSet(ItemsOf(frame.doc))
    BY ONLY <1>5, ElementsOfConcat
  <2>3. QED BY <1>5, <2>1, <2>2
<1>7. TypeOK'
  <2>1. todo' \in Seq(Frame)
    BY <1>2, <1>4, ConcatProperties
  <2>2. QED BY <1>6, <2>1 DEF TypeOK, Frame
<1>8. (SeenWasThere /\ StaysSeen)'
  BY <1>5, <1>6 DEF SeenWasThere, StaysSeen, HistoryInStep
<1>9. (HistoryInStep /\ OutcomeInStep)'
  BY DEF HistoryInStep, OutcomeInStep
<1>10. GatheredOrAhead'
  <2> SUFFICES ASSUME removed = {}, NEW p \in DOMAIN coll, coll[p] \in always
               PROVE  \/ coll[p] \in ToSet(uris')
                      \/ \E k \in DOMAIN todo' : Reaches(todo'[k], p)
    BY DEF GatheredOrAhead, Reaches
  <2>1. CASE coll[p] \in ToSet(uris)
    BY <1>6, <2>1
  <2>2. /\ \A k \in DOMAIN Calls(frame) :
             k \in DOMAIN todo' /\ todo'[k] = Calls(frame)[k]
        /\ \A k \in DOMAIN rest : /\ k + Len(Calls(frame)) \in DOMAIN todo'
                                   /\ todo'[k + Len(Calls(frame))] = rest[k]
    BY ONLY <1>2, <1>4, ConcatPlaces
  <2>3. ASSUME Reaches(frame, p)
        PROVE  \/ coll[p] \in ToSet(uris')
               \/ \E k \in DOMAIN todo' : Reaches(todo'[k], p)
    <3>1. CASE coll[p] \in ToSet(ItemsOf(frame.doc))
      BY <1>6, <3>1
    <3>2. ASSUME NEW k \in DOMAIN Calls(frame), Reaches(Calls(frame)[k], p)
          PROVE  \E j \in DOMAIN todo' : Reaches(todo'[j], p)
      BY <2>2, <3>2
    <3>3. QED BY <1>2, <2>3, <3>1, <3>2, VisitReaches
  <2>4. ASSUME NEW k \in DOMAIN rest, Reaches(rest[k], p)
        PROVE  \E j \in DOMAIN todo' : Reaches(todo'[j], p)
    BY <2>2, <2>4
  <2>5. CASE coll[p] \notin ToSet(uris)
    <3>1. PICK k \in DOMAIN todo : Reaches(todo[k], p)
      BY <2>5 DEF GatheredOrAhead
    <3>2. CASE k = 1
      BY <1>3, <2>3, <3>1, <3>2
    <3>3. CASE k # 1
      BY <1>2, <2>4, <3>1, <3>3
    <3>4. QED BY <3>2, <3>3
  <2>6. QED BY <2>1, <2>5
<1>11. QED BY <1>7, <1>8, <1>9, <1>10

LEMMA TestStep ==
  ASSUME IInv, Test
  PROVE  IInv'
<1> USE DEF IInv, sutVars, ghosts
<1>1. CASE Visit
  BY <1>1, VisitStep
<1>2. CASE Abort
  <2> USE <1>2 DEF Abort
  <2>1. TypeOK'
    BY DEF TypeOK
  <2>2. QED
    BY <2>1 DEF SeenWasThere, StaysSeen, HistoryInStep, GatheredOrAhead, OutcomeInStep
<1>3. CASE Evaluate
  <2> USE <1>3 DEF Evaluate
  <2>1. TypeOK'
    BY DEF TypeOK
  \* Nothing is ahead of the walk any more.
  <2>2. removed = {} => always \subseteq ToSet(uris)
    <3> SUFFICES ASSUME removed = {}, NEW x \in always PROVE x \in ToSet(uris)
      OBVIOUS
    <3>1. PICK p \in DOMAIN coll : coll[p] = x
      BY DEF HistoryInStep, ToSet
    <3>2. QED BY <3>1 DEF GatheredOrAhead
  <2>3. QED
    BY <2>1, <2>2 DEF SeenWasThere, StaysSeen, HistoryInStep, GatheredOrAhead,
                      OutcomeInStep, Holds
<1>4. CASE Wake
  <2> USE <1>4 DEF Wake
  <2>1. coll \in Seq(Items) /\ ToSet(coll) \subseteq Items
    BY DEF TypeOK, ToSet
  <2>2. TypeOK'
    <3>1. tries - 1 \in 1 .. Tries
      BY PollingAssumption DEF TypeOK, PollingAssumption
    <3>2. QED BY <2>1, <3>1 DEF TypeOK, TheCollection
  <2>3. (SeenWasThere /\ StaysSeen)'
    BY DEF SeenWasThere, StaysSeen, ToSet
  <2>4. (HistoryInStep /\ OutcomeInStep)'
    BY DEF HistoryInStep, OutcomeInStep
  <2>5. GatheredOrAhead'
    <3>1. 1 \in DOMAIN todo' /\ todo'[1].doc = 0
      BY DEF TheCollection
    <3>2. QED BY <3>1 DEF GatheredOrAhead, Reaches
  <2>6. QED BY <2>2, <2>3, <2>4, <2>5
<1>5. CASE GiveUp
  <2> USE <1>5 DEF GiveUp
  <2>1. TypeOK'
    BY DEF TypeOK
  <2>2. QED
    BY <2>1 DEF SeenWasThere, StaysSeen, HistoryInStep, GatheredOrAhead,
                OutcomeInStep, Holds
<1>6. CASE Judge
  <2> USE <1>6 DEF Judge
  <2>1. TypeOK'
    BY DEF TypeOK
  <2>2. QED
    BY <2>1 DEF SeenWasThere, StaysSeen, HistoryInStep, GatheredOrAhead, OutcomeInStep
<1>7. QED
  BY <1>1, <1>2, <1>3, <1>4, <1>5, <1>6 DEF Test, TooDeep, RequestFails

LEMMA StutterStep ==
  ASSUME IInv, UNCHANGED vars
  PROVE  IInv'
BY DEF vars, IInv, TypeOK, SeenWasThere, StaysSeen, HistoryInStep, GatheredOrAhead,
       Reaches, OutcomeInStep, Holds

\* The inductive invariant of the polling.
THEOREM Invariance == Spec => []IInv
<1>1. Init => IInv
  BY InitInv
<1>2. IInv /\ [Next]_vars => IInv'
  BY AddItemStep, RemoveItemStep, TestStep, StutterStep DEF Next
<1>3. QED BY <1>1, <1>2, PTL DEF Spec

-----------------------------------------------------------------------------
(***************************************************************************)
(* What a poll concludes.                                                  *)
(***************************************************************************)

\* Nothing is gathered that was not in the collection at some time of the
\* walk, whatever the layout and the size of the pages (support.py:155-158).
THEOREM GatheredWasThere == Spec => []SeenWasThere
<1>1. IInv => SeenWasThere
  BY DEF IInv
<1>2. QED BY <1>1, Invariance, PTL

\* No number of additions between two requests makes a walk miss an item that
\* was there all the time (support.py:160-187).
THEOREM WalksAreComplete == Spec => []StaysSeen
<1>1. IInv => StaysSeen
  BY DEF IInv
<1>2. QED BY <1>1, Invariance, PTL

\* A poll for the target's presence is right about its last walk
\* (support.py:146-153).
THEOREM PresencesAreRight == Spec => []PresenceIsRight
<1>1. IInv => PresenceIsRight
  BY DEF IInv, OutcomeInStep, Holds, SeenWasThere, PresenceIsRight
<1>2. QED BY <1>1, Invariance, PTL

\* A poll for the target's absence is right about its last walk, as long as
\* no other item was removed (support.py:130-144).
THEOREM AbsencesAreRight == Spec => []AbsenceIsRight
<1>1. ASSUME IInv PROVE AbsenceIsRight
  <2> SUFFICES ASSUME pc = "judge", kind = "out", outcome = "held",
                      removed \subseteq {Target}
               PROVE  Target \notin always
    BY DEF AbsenceIsRight
  <2>1. Target \notin ToSet(uris)
    BY <1>1 DEF IInv, OutcomeInStep, Holds
  <2>2. CASE removed = {}
    BY <1>1, <2>1, <2>2 DEF IInv, OutcomeInStep
  <2>3. CASE removed = {Target}
    BY <1>1, <2>3 DEF IInv, HistoryInStep
  <2>4. QED BY <2>2, <2>3
<1>2. QED BY <1>1, Invariance, PTL
=============================================================================
