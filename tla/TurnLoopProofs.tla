--------------------------- MODULE TurnLoopProofs ---------------------------
(***************************************************************************)
(* What core/loop writes to the log and what it lets run, for every number *)
(* of hooks, steps, tool calls and turns.                                  *)
(***************************************************************************)
EXTENDS TurnLoop, TLAPS, FiniteSetTheorems

----------------------------------------------------------------------------
\* Maxima.

\* A non-empty set of naturals has a least element.
LEMMA LeastElement ==
    ASSUME NEW T \in SUBSET Nat, T # {} PROVE \E x \in T : \A y \in T : x <= y
  <1>1. PICK x \in T : \A y \in T : ~(<<y, x>> \in OpToRel(<, Nat))
    BY NatLessThanWellFounded, WFMin, Zenon
  <1>2. \A y \in T : ~(y < x)
    BY <1>1, Zenon DEF OpToRel
  <1>3. \A y \in T : y \in Nat /\ x \in Nat
    BY Zenon
  <1>4. \A y \in T : x <= y
    BY <1>2, <1>3
  <1> QED BY <1>4, Zenon

\* An upper bound that belongs to the set is its maximum.
LEMMA MaxIs ==
    ASSUME NEW S \in SUBSET Int, NEW m \in S, \A y \in S : y <= m PROVE Max(S) = m
  <1>1. \A y \in S : m >= y
    BY Zenon
  <1>2. \A x \in S : (\A y \in S : x >= y) => x = m
    <2> TAKE x \in S
    <2> HAVE \A y \in S : x >= y
    <2>1. x >= m /\ m >= x /\ x \in Int /\ m \in Int
      BY <1>1, Zenon
    <2> QED BY <2>1
  <1> QED BY <1>1, <1>2, Zenon DEF Max

\* A non-empty set between 0 and b has a maximum.
LEMMA MaxOf ==
    ASSUME NEW b \in Nat, NEW S \in SUBSET (0 .. b), S # {}
    PROVE  Max(S) \in S /\ \A y \in S : y <= Max(S)
  <1> DEFINE T == {b - y : y \in S}
  <1>1. T \in SUBSET Nat /\ T # {}
    <2>1. \A y \in S : y \in 0 .. b
      BY Zenon
    <2>2. \A y \in S : b - y \in Nat
      BY <2>1
    <2> QED BY <2>2, Zenon
  <1>2. PICK x \in T : \A y \in T : x <= y
    BY <1>1, LeastElement, Zenon
  <1>3. PICK m \in S : x = b - m
    BY <1>2, Zenon
  <1>5. S \in SUBSET Int
    OBVIOUS
  <1> HIDE DEF T
  <1>4. ASSUME NEW y \in S PROVE y <= m
    <2>1. b - y \in T
      BY Zenon DEF T
    <2>2. b - m <= b - y
      BY <1>2, <1>3, <2>1, Zenon
    <2>3. y \in Int /\ m \in Int
      BY <1>5, Zenon
    <2> QED BY <2>2, <2>3
  <1> QED BY <1>4, <1>5, MaxIs, Zenon

----------------------------------------------------------------------------
\* Appending to a log.

IsLog(l) == l \in Seq({l[i] : i \in DOMAIN l})

LEMMA IsLogSeq ==
    ASSUME NEW S, NEW l \in Seq(S) PROVE IsLog(l)
  <1>1. Len(l) \in Nat /\ l \in [1 .. Len(l) -> S]
    OBVIOUS
  <1>2. l \in [1 .. Len(l) -> {l[i] : i \in DOMAIN l}]
    BY <1>1, Zenon
  <1> QED BY <1>1, <1>2 DEF IsLog

\* What Append keeps and adds.
LEMMA AppendIs ==
    ASSUME NEW l, IsLog(l), NEW e
    PROVE  /\ IsLog(Append(l, e))
           /\ Len(l) \in Nat /\ DOMAIN l = 1 .. Len(l)
           /\ Len(Append(l, e)) = Len(l) + 1
           /\ DOMAIN Append(l, e) = 1 .. Len(l) + 1
           /\ \A i \in 1 .. Len(l) : Append(l, e)[i] = l[i]
           /\ Append(l, e)[Len(l) + 1] = e
  <1> DEFINE S == {l[i] : i \in DOMAIN l}
  <1>1. l \in Seq(S)
    BY Zenon DEF IsLog
  <1> HIDE DEF S
  <1>2. l \in Seq(S \cup {e})
    <2>1. Len(l) \in Nat /\ l \in [1 .. Len(l) -> S]
      BY <1>1
    <2>2. l \in [1 .. Len(l) -> S \cup {e}]
      BY <2>1, Zenon
    <2> QED BY <2>1, <2>2
  <1>3. Len(l) \in Nat /\ DOMAIN l = 1 .. Len(l)
    BY <1>2
  <1>4. Append(l, e) \in Seq(S \cup {e})
    BY <1>2
  <1>5. Len(Append(l, e)) = Len(l) + 1 /\ DOMAIN Append(l, e) = 1 .. Len(Append(l, e))
    BY <1>2, <1>4
  <1>6. /\ \A i \in 1 .. Len(l) : Append(l, e)[i] = l[i]
        /\ Append(l, e)[Len(l) + 1] = e
    BY <1>2
  <1> QED BY <1>3, <1>4, <1>5, <1>6, IsLogSeq, Zenon

\* What a prefix is.
LEMMA PrefixIs ==
    ASSUME NEW l, IsLog(l), NEW k \in 0 .. Len(l)
    PROVE  /\ IsLog(SubSeq(l, 1, k)) /\ Len(SubSeq(l, 1, k)) = k
           /\ SubSeq(l, 1, k) = [i \in 1 .. k |-> l[i]]
  <1> DEFINE S == {l[i] : i \in DOMAIN l}
  <1>1. l \in Seq(S)
    BY Zenon DEF IsLog
  <1> HIDE DEF S
  <1>2. Len(l) \in Nat /\ l \in [1 .. Len(l) -> S]
    BY <1>1
  <1>3. k \in Nat /\ k <= Len(l) /\ 1 .. k \subseteq 1 .. Len(l)
    BY <1>2
  <1>4. \A i \in 1 .. k : l[i] \in S
    BY <1>2, <1>3, Zenon
  <1> DEFINE x == SubSeq(l, 1, k)
  <1>5. /\ x \in Seq(S)
        /\ Len(x) = IF 1 <= k THEN k - 1 + 1 ELSE 0
        /\ \A i \in 1 .. k - 1 + 1 : x[i] = l[1 + i - 1]
    BY <1>3, <1>4
  <1> HIDE DEF x
  <1>6. Len(x) = k /\ \A i \in 1 .. k : x[i] = l[i]
    BY <1>3, <1>5
  <1>7. x \in [1 .. k -> S]
    BY <1>5, <1>6
  <1>8. x = [i \in 1 .. k |-> l[i]]
    BY <1>6, <1>7, Zenon
  <1>9. IsLog(x)
    BY <1>5, IsLogSeq, Zenon
  <1> QED BY <1>6, <1>8, <1>9, Zenon DEF x

\* Appending changes no prefix.
LEMMA PrefixOfAppend ==
    ASSUME NEW l, IsLog(l), NEW e, NEW k \in 0 .. Len(l)
    PROVE  SubSeq(Append(l, e), 1, k) = SubSeq(l, 1, k)
  <1> DEFINE a == Append(l, e)
  <1>1. IsLog(a) /\ Len(a) = Len(l) + 1 /\ Len(l) \in Nat /\ \A i \in 1 .. Len(l) : a[i] = l[i]
    BY AppendIs
  <1> HIDE DEF a
  <1>2. k \in 0 .. Len(a) /\ 1 .. k \subseteq 1 .. Len(l)
    BY <1>1
  <1>3. SubSeq(a, 1, k) = [i \in 1 .. k |-> a[i]]
    BY <1>1, <1>2, PrefixIs, Zenon
  <1>4. SubSeq(l, 1, k) = [i \in 1 .. k |-> l[i]]
    BY PrefixIs, Zenon
  <1>5. SubSeq(a, 1, k) = SubSeq(l, 1, k)
    BY <1>1, <1>2, <1>3, <1>4, Zenon
  <1> QED BY <1>5, Zenon DEF a

\* The whole log is the prefix before an appended event.
LEMMA PrefixBefore ==
    ASSUME NEW l, IsLog(l) PROVE SubSeq(l, 1, Len(l)) = l
  <1>1. Len(l) \in Nat /\ l \in [1 .. Len(l) -> {l[i] : i \in DOMAIN l}]
    BY DEF IsLog
  <1>2. SubSeq(l, 1, Len(l)) = [i \in 1 .. Len(l) |-> l[i]]
    BY <1>1, PrefixIs
  <1> QED BY <1>1, <1>2, Zenon

----------------------------------------------------------------------------
\* How many boundaries are open.

Opens == {"turn/start", "step/start"}
Closes == {"turn/end", "step/end"}

LEMMA OpenAppend ==
    ASSUME NEW l, IsLog(l), NEW e
    PROVE  /\ Open(l) \in Int
           /\ Open(Append(l, e)) = IF e.kind \in Opens THEN Open(l) + 1
                                  ELSE IF e.kind \in Closes THEN Open(l) - 1 ELSE Open(l)
  <1> DEFINE a == Append(l, e)
             A(x, K) == {i \in DOMAIN x : x[i].kind \in K}
  <1>1. /\ Len(l) \in Nat /\ DOMAIN l = 1 .. Len(l) /\ DOMAIN a = 1 .. Len(l) + 1
        /\ \A i \in 1 .. Len(l) : a[i] = l[i]
        /\ a[Len(l) + 1] = e
    BY AppendIs
  <1> HIDE DEF a
  <1>2. DOMAIN a = DOMAIN l \cup {Len(l) + 1} /\ Len(l) + 1 \notin DOMAIN l
    BY <1>1
  <1>3. ASSUME NEW K
        PROVE  /\ IsFiniteSet(A(l, K)) /\ Cardinality(A(l, K)) \in Nat
               /\ Cardinality(A(a, K)) = IF e.kind \in K THEN Cardinality(A(l, K)) + 1
                                         ELSE Cardinality(A(l, K))
    <2>1. IsFiniteSet(DOMAIN l)
      BY <1>1, FS_Interval
    <2>2. A(l, K) \subseteq DOMAIN l
      BY Zenon
    <2>3. IsFiniteSet(A(l, K)) /\ Cardinality(A(l, K)) \in Nat
      BY <2>1, <2>2, FS_Subset, FS_CardinalityType, Zenon
    <2>4. A(a, K) = IF e.kind \in K THEN A(l, K) \cup {Len(l) + 1} ELSE A(l, K)
      BY <1>1, <1>2
    <2>5. Len(l) + 1 \notin A(l, K)
      BY <1>2, Zenon
    <2> HIDE DEF A
    <2>6. Cardinality(A(l, K) \cup {Len(l) + 1}) = Cardinality(A(l, K)) + 1
      BY <2>3, <2>5, FS_AddElement, Zenon
    <2> QED BY <2>3, <2>4, <2>6, Zenon
  <1>4. /\ Open(l) = Cardinality(A(l, Opens)) - Cardinality(A(l, Closes))
        /\ Open(a) = Cardinality(A(a, Opens)) - Cardinality(A(a, Closes))
    BY Zenon DEF Open, Opens, Closes
  <1>5. e.kind \in Opens => e.kind \notin Closes
    BY Zenon DEF Opens, Closes
  <1> HIDE DEF A
  <1>6. /\ Open(l) \in Int
        /\ Open(a) = IF e.kind \in Opens THEN Open(l) + 1
                     ELSE IF e.kind \in Closes THEN Open(l) - 1 ELSE Open(l)
    <2>1. /\ Cardinality(A(l, Opens)) \in Nat
          /\ Cardinality(A(a, Opens)) = IF e.kind \in Opens THEN Cardinality(A(l, Opens)) + 1
                                        ELSE Cardinality(A(l, Opens))
      BY <1>3, Zenon
    <2>2. /\ Cardinality(A(l, Closes)) \in Nat
          /\ Cardinality(A(a, Closes)) = IF e.kind \in Closes THEN Cardinality(A(l, Closes)) + 1
                                         ELSE Cardinality(A(l, Closes))
      BY <1>3
    <2> QED BY <1>4, <1>5, <2>1, <2>2
  <1> QED BY <1>6, Zenon DEF a

----------------------------------------------------------------------------
\* The run of verdicts that ends at a position.

LEMMA GroupStartIs ==
    ASSUME NEW l, NEW k \in Nat
    PROVE  /\ GroupStart(l, k) \in 0 .. k
           /\ GroupStart(l, k) > 0 => l[GroupStart(l, k)].kind # "verdict"
           /\ \A i \in GroupStart(l, k) + 1 .. k : l[i].kind = "verdict"
  <1> DEFINE S == {0} \cup {i \in 1 .. k : l[i].kind # "verdict"}
             g == Max(S)
  <1>1. S \in SUBSET (0 .. k) /\ S # {}
    OBVIOUS
  <1>3. \A i \in S : i = 0 \/ l[i].kind # "verdict"
    BY Zenon
  <1>4. \A i \in 1 .. k : i \in S \/ l[i].kind = "verdict"
    BY Zenon
  <1>5. GroupStart(l, k) = g
    BY Zenon DEF GroupStart
  <1> HIDE DEF S
  <1>2. g \in S /\ \A y \in S : y <= g
    BY <1>1, MaxOf, Zenon
  <1> HIDE DEF g
  <1>6. g \in 0 .. k
    BY <1>1, <1>2, Zenon
  <1>7. \A i \in g + 1 .. k : i \in 1 .. k /\ ~(i <= g)
    BY <1>6
  <1> QED BY <1>2, <1>3, <1>4, <1>5, <1>6, <1>7

\* An event that is no verdict starts a new run.
LEMMA OtherAppended ==
    ASSUME NEW l, IsLog(l), NEW e, e.kind # "verdict"
    PROVE  /\ GroupStart(Append(l, e), Len(l) + 1) = Len(l) + 1
           /\ \A p : Group(Append(l, e), Len(l) + 1, p) = {}
  <1> DEFINE a == Append(l, e)
             S == {0} \cup {i \in 1 .. Len(l) + 1 : a[i].kind # "verdict"}
  <1>1. Len(l) \in Nat /\ a[Len(l) + 1] = e
    BY AppendIs, Zenon
  <1> HIDE DEF a
  <1>2. S \in SUBSET Int /\ Len(l) + 1 \in S /\ \A y \in S : y <= Len(l) + 1
    BY <1>1
  <1>3. GroupStart(a, Len(l) + 1) = Max(S)
    BY Zenon DEF GroupStart
  <1> HIDE DEF S
  <1>4. GroupStart(a, Len(l) + 1) = Len(l) + 1
    BY <1>2, <1>3, MaxIs, Zenon
  <1>5. \A p : Group(a, Len(l) + 1, p) = {}
    BY <1>1, <1>4 DEF Group
  <1> QED BY <1>4, <1>5, Zenon DEF a

\* The log only grows: what was read back at a position stays so.
LEMMA ReadBackIsStable ==
    ASSUME NEW l, IsLog(l), NEW e, NEW k \in 0 .. Len(l)
    PROVE  /\ GroupStart(Append(l, e), k) = GroupStart(l, k)
           /\ \A p : /\ Group(Append(l, e), k, p) = Group(l, k, p)
                     /\ LoggedReject(Append(l, e), k, p) <=> LoggedReject(l, k, p)
                     /\ \A o : Outcome(Append(l, e), k, p, o) = Outcome(l, k, p, o)
           /\ LoggedRequest(Append(l, e), k) = LoggedRequest(l, k)
  <1> DEFINE a == Append(l, e)
  <1>1. Len(l) \in Nat /\ \A i \in 1 .. Len(l) : a[i] = l[i]
    BY AppendIs
  <1>0. \A j \in 0 .. Len(l) : SubSeq(a, 1, j) = SubSeq(l, 1, j)
    BY PrefixOfAppend, Zenon
  <1> HIDE DEF a
  <1>2. k \in Nat /\ 1 .. k \subseteq 1 .. Len(l)
    BY <1>1
  <1>3. {i \in 1 .. k : a[i].kind # "verdict"} = {i \in 1 .. k : l[i].kind # "verdict"}
    BY <1>1, <1>2, Zenon
  <1>4. GroupStart(a, k) = GroupStart(l, k)
    BY <1>3, Zenon DEF GroupStart
  <1> DEFINE g == GroupStart(l, k)
  <1>5. g \in 0 .. k
    BY <1>2, GroupStartIs, Zenon
  <1> HIDE DEF g
  <1>6. g + 1 .. k \subseteq 1 .. Len(l) /\ g \in 0 .. Len(l)
    BY <1>1, <1>2, <1>5
  <1>7. ASSUME NEW p PROVE Group(a, k, p) = Group(l, k, p) /\ Group(l, k, p) \subseteq g + 1 .. k
    BY <1>1, <1>4, <1>6, Zenon DEF Group, g
  <1>8. ASSUME NEW p PROVE LoggedReject(a, k, p) <=> LoggedReject(l, k, p)
    BY <1>1, <1>6, <1>7, Zenon DEF LoggedReject
  <1>9. ASSUME NEW p, NEW o PROVE Outcome(a, k, p, o) = Outcome(l, k, p, o)
    <2> DEFINE ra == {i \in Group(a, k, p) : a[i].verdict = "rewrite"}
               rl == {i \in Group(l, k, p) : l[i].verdict = "rewrite"}
    <2>1. ra = rl /\ rl \subseteq g + 1 .. k
      BY <1>1, <1>6, <1>7, Zenon
    <2>2. /\ Outcome(a, k, p, o) = IF ra = {} THEN o ELSE a[Max(ra)].val
          /\ Outcome(l, k, p, o) = IF rl = {} THEN o ELSE l[Max(rl)].val
      BY Zenon DEF Outcome
    <2> HIDE DEF ra, rl
    <2>3. rl # {} => Max(rl) \in rl
      <3>1. rl \in SUBSET (0 .. k)
        BY <1>5, <2>1
      <3> QED BY <3>1, <1>2, MaxOf, Zenon
    <2>4. rl # {} => a[Max(rl)] = l[Max(rl)]
      BY <1>1, <1>6, <2>1, <2>3, Zenon
    <2> QED BY <2>1, <2>2, <2>4
  <1>10. LoggedRequest(a, k) = LoggedRequest(l, k)
    BY <1>0, <1>4, <1>6, Zenon DEF LoggedRequest, g
  <1> QED BY <1>4, <1>7, <1>8, <1>9, <1>10, Zenon DEF a

\* A verdict continues the run.
LEMMA VerdictAppended ==
    ASSUME NEW l, IsLog(l), NEW e, e.kind = "verdict"
    PROVE  /\ GroupStart(Append(l, e), Len(l) + 1) = GroupStart(l, Len(l))
           /\ \A p : Group(Append(l, e), Len(l) + 1, p)
                     = Group(l, Len(l), p) \cup {i \in {Len(l) + 1} : e.point = p}
           /\ LoggedRequest(Append(l, e), Len(l) + 1) = LoggedRequest(l, Len(l))
  <1> DEFINE a == Append(l, e)
             g == GroupStart(l, Len(l))
  <1>1. Len(l) \in Nat /\ a[Len(l) + 1] = e /\ \A i \in 1 .. Len(l) : a[i] = l[i]
    BY AppendIs
  <1>0. \A j \in 0 .. Len(l) : SubSeq(a, 1, j) = SubSeq(l, 1, j)
    BY PrefixOfAppend, Zenon
  <1> HIDE DEF a
  <1>2. 1 .. Len(l) + 1 = (1 .. Len(l)) \cup {Len(l) + 1}
    BY <1>1
  <1>3. {i \in 1 .. Len(l) + 1 : a[i].kind # "verdict"} = {i \in 1 .. Len(l) : l[i].kind # "verdict"}
    BY <1>1, <1>2, Zenon
  <1>4. GroupStart(a, Len(l) + 1) = g
    BY <1>3, Zenon DEF GroupStart
  <1>5. g \in 0 .. Len(l)
    BY <1>1, GroupStartIs, Zenon
  <1> HIDE DEF g
  <1>6. g + 1 .. Len(l) + 1 = (g + 1 .. Len(l)) \cup {Len(l) + 1} /\ g + 1 .. Len(l) \subseteq 1 .. Len(l)
    BY <1>1, <1>5
  <1>7. ASSUME NEW p PROVE Group(a, Len(l) + 1, p) = Group(l, Len(l), p) \cup {i \in {Len(l) + 1} : e.point = p}
    <2>1. Group(a, Len(l) + 1, p) = {i \in g + 1 .. Len(l) + 1 : a[i].point = p}
      BY <1>4, Zenon DEF Group
    <2>2. Group(l, Len(l), p) = {i \in g + 1 .. Len(l) : l[i].point = p}
      BY Zenon DEF Group, g
    <2> QED BY <1>1, <1>6, <2>1, <2>2, Zenon
  <1>8. LoggedRequest(a, Len(l) + 1) = LoggedRequest(l, Len(l))
    BY <1>0, <1>4, <1>5, Zenon DEF LoggedRequest, g
  <1> QED BY <1>4, <1>7, <1>8, Zenon DEF a, g

\* Verdicts are not visible to the model, so the request of a log is the one
\* it gave before its last run of verdicts.
LEMMA RequestIsLogged ==
    ASSUME NEW l, IsLog(l) PROVE Request(Messages(l)) = LoggedRequest(l, Len(l))
  <1> DEFINE g == GroupStart(l, Len(l))
             b == SubSeq(l, 1, g)
  <1>1. Len(l) \in Nat /\ DOMAIN l = 1 .. Len(l)
    BY AppendIs, Zenon
  <1>2. g \in 0 .. Len(l) /\ \A i \in g + 1 .. Len(l) : l[i].kind = "verdict"
    BY <1>1, GroupStartIs, Zenon
  <1> HIDE DEF g
  <1>3. b = [i \in 1 .. g |-> l[i]]
    BY <1>2, PrefixIs, Zenon
  <1> HIDE DEF b
  <1>4. 1 .. Len(l) = (1 .. g) \cup (g + 1 .. Len(l))
    BY <1>1, <1>2
  <1>5. {j \in DOMAIN l : l[j].kind \in Visible} = {j \in DOMAIN b : b[j].kind \in Visible}
    BY <1>1, <1>2, <1>3, <1>4, Zenon DEF Visible
  <1>6. Messages(l) = Messages(b)
    BY <1>3, <1>5, Zenon DEF Messages
  <1> QED BY <1>6, Zenon DEF LoggedRequest, g, b

----------------------------------------------------------------------------
\* Types.

At(p) == pc \in {"judge", "record"} /\ point = p

TypeOK ==
    /\ IsLog(log) /\ IsLog(saw) /\ IsLog(ran)
    /\ Len(log) > 0 /\ log[1].kind = "session/start" /\ logUp \in BOOLEAN
    /\ point \in Points /\ loop \in Loops
    /\ decs \in Seq(Decisions) /\ n \in 0 .. Len(decs)

LEMMA InitType == Init => TypeOK
  <1> SUFFICES ASSUME Init PROVE TypeOK
    BY Zenon
  <1>1. IsLog(log)
    <2>1. log \in Seq({[kind |-> "session/start"]})
      BY DEF Init
    <2> QED BY <2>1, IsLogSeq, Zenon
  <1>2. IsLog(saw) /\ IsLog(ran)
    <2>1. saw \in Seq({}) /\ ran \in Seq({})
      BY DEF Init
    <2> QED BY <2>1, IsLogSeq, Zenon
  <1>3. decs \in Seq(Decisions) /\ n \in 0 .. Len(decs)
    BY DEF Init
  <1>4. Len(log) > 0 /\ log[1].kind = "session/start"
    BY DEF Init
  <1> QED BY <1>1, <1>2, <1>3, <1>4, Zenon DEF Init, TypeOK, Points

\* The log is only ever appended to, by one event at a time, while it is up.
LEMMA LogGrows ==
    ASSUME Next PROVE UNCHANGED log \/ (logUp /\ \E e : log' = Append(log, e))
  <1>1. CASE RunTurn \/ buildRequest \/ judge \/ preStep \/ preTool \/ postTool \/ turnStopping
             \/ complete \/ invoke \/ Cancel \/ LogFails
    BY <1>1, Zenon DEF RunTurn, buildRequest, judge, preStep, preTool, postTool, turnStopping,
                complete, invoke, Cancel, LogFails
  <1>2. CASE turnStart \/ record \/ stepEnd \/ turnEnd
    BY <1>2, Zenon DEF turnStart, record, stepEnd, turnEnd, Recorded, Lost
  <1>3. CASE userMessage \/ inject \/ stepStart \/ assistantMessage \/ toolCall \/ toolResult
    BY <1>3, Zenon DEF userMessage, inject, stepStart, assistantMessage, toolCall, toolResult, emit, Recorded, Lost
  <1> QED BY <1>1, <1>2, <1>3, Zenon DEF Next, Step

LEMMA TypeStep == TypeOK /\ [Next]_vars => TypeOK'
  <1> SUFFICES ASSUME TypeOK, [Next]_vars PROVE TypeOK'
    BY Zenon
  <1>0. CASE UNCHANGED vars
    BY <1>0, Zenon DEF TypeOK, vars, ctlVars, IsLog
  <1> SUFFICES ASSUME Next PROVE TypeOK'
    BY <1>0, Zenon
  <1>1. IsLog(log') /\ Len(log') > 0 /\ log'[1].kind = "session/start"
    <2>1. CASE UNCHANGED log
      BY <2>1, Zenon DEF TypeOK
    <2>2. ASSUME NEW e, log' = Append(log, e)
          PROVE  IsLog(log') /\ Len(log') > 0 /\ log'[1].kind = "session/start"
      <3>1. /\ IsLog(log') /\ Len(log) \in Nat /\ Len(log') = Len(log) + 1
            /\ \A i \in 1 .. Len(log) : log'[i] = log[i]
        BY <2>2, AppendIs DEF TypeOK
      <3>2. 1 \in 1 .. Len(log) /\ Len(log') > 0
        BY <3>1 DEF TypeOK
      <3> QED BY <3>1, <3>2, Zenon DEF TypeOK
    <2> QED BY <2>1, <2>2, LogGrows, Zenon
  <1>2. IsLog(saw') /\ IsLog(ran')
    <2>1. UNCHANGED saw \/ \E e : saw' = Append(saw, e)
      BY Zenon DEF Next, Step, RunTurn, turnStart, userMessage, buildRequest, judge, record, preStep, preTool,
             postTool, turnStopping, inject, stepStart, complete, assistantMessage, toolCall, invoke,
             toolResult, stepEnd, turnEnd, Cancel, LogFails
    <2>2. UNCHANGED ran \/ \E e : ran' = Append(ran, e)
      BY Zenon DEF Next, Step, RunTurn, turnStart, userMessage, buildRequest, judge, record, preStep, preTool,
             postTool, turnStopping, inject, stepStart, complete, assistantMessage, toolCall, invoke,
             toolResult, stepEnd, turnEnd, Cancel, LogFails
    <2>3. IsLog(saw) /\ IsLog(ran)
      BY Zenon DEF TypeOK
    <2>4. ASSUME NEW l, IsLog(l) PROVE \A e : IsLog(Append(l, e))
      BY <2>4, AppendIs, Zenon
    <2> QED BY <2>1, <2>2, <2>3, <2>4, Zenon
  <1>3. logUp' \in BOOLEAN /\ point' \in Points /\ loop' \in Loops
    BY Zenon DEF TypeOK, Points, ctlVars, Next, Step, RunTurn, turnStart, userMessage, buildRequest, judge, record,
           preStep, preTool, postTool, turnStopping, inject, stepStart, complete, assistantMessage, toolCall,
           invoke, toolResult, stepEnd, turnEnd, Cancel, LogFails
  <1>4. decs' \in Seq(Decisions) /\ n' \in 0 .. Len(decs')
    <2>1. CASE judge
      <3>1. PICK ds \in [1 .. loop.hooks[point] -> Decisions] : (decs' = ds /\ n' = 0) \/ UNCHANGED <<decs, n>>
        BY <2>1, Zenon DEF judge
      <3>2. loop.hooks[point] \in Nat
        BY LoopsAssumption, Zenon DEF TypeOK
      <3>3. ds \in Seq(Decisions)
        BY <3>2
      <3>4. Len(ds) \in Nat
        BY <3>3
      <3> QED BY <3>1, <3>3, <3>4 DEF TypeOK
    <2>2. CASE record
      <3>1. decs' = decs /\ (n' = n \/ n' = n + 1) /\ n < Len(decs)
        BY <2>2, Zenon DEF record
      <3>2. Len(decs) \in Nat
        BY DEF TypeOK
      <3> QED BY <3>1, <3>2 DEF TypeOK
    <2>3. CASE UNCHANGED <<decs, n>>
      BY <2>3, Zenon DEF TypeOK
    <2>4. judge \/ record \/ UNCHANGED <<decs, n>>
      BY Zenon DEF ctlVars, Next, Step, RunTurn, turnStart, userMessage, buildRequest,
             preStep, preTool, postTool, turnStopping, inject, stepStart, complete, assistantMessage,
             toolCall, invoke, toolResult, stepEnd, turnEnd, Cancel, LogFails
    <2> QED BY <2>1, <2>2, <2>3, <2>4, Zenon
  <1> QED BY <1>1, <1>2, <1>3, <1>4, Zenon DEF TypeOK

----------------------------------------------------------------------------
\* Boundaries.

Nested(l) == \A k \in DOMAIN l : FitsIn(l[k].kind, Open(SubSeq(l, 1, k - 1)))

\* How many boundaries RunTurn has open where it is.
Depth == IF pc \in {"idle", "turnStart"} THEN 0 ELSE IF InStep \/ pc = "stepEnd" THEN 2 ELSE 1

NestInv == Nested(log) /\ (logUp => Open(log) = Depth)

LEMMA NestAppend ==
    ASSUME NEW l, IsLog(l), NEW e, Nested(l), FitsIn(e.kind, Open(l)) PROVE Nested(Append(l, e))
  <1> DEFINE a == Append(l, e)
  <1>1. /\ Len(l) \in Nat /\ DOMAIN l = 1 .. Len(l) /\ DOMAIN a = 1 .. Len(l) + 1
        /\ \A i \in 1 .. Len(l) : a[i] = l[i]
        /\ a[Len(l) + 1] = e
    BY AppendIs
  <1>2. \A j \in 0 .. Len(l) : SubSeq(a, 1, j) = SubSeq(l, 1, j)
    BY PrefixOfAppend, Zenon
  <1> HIDE DEF a
  <1>3. ASSUME NEW k \in 1 .. Len(l) PROVE FitsIn(a[k].kind, Open(SubSeq(a, 1, k - 1)))
    <2>1. k - 1 \in 0 .. Len(l)
      BY <1>1
    <2>2. SubSeq(a, 1, k - 1) = SubSeq(l, 1, k - 1)
      BY <1>2, <2>1, Zenon
    <2>3. a[k] = l[k]
      BY <1>1, Zenon
    <2> QED BY <1>1, <2>2, <2>3, Zenon DEF Nested
  <1>4. FitsIn(a[Len(l) + 1].kind, Open(SubSeq(a, 1, Len(l) + 1 - 1)))
    <2>1. Len(l) + 1 - 1 = Len(l) /\ Len(l) \in 0 .. Len(l)
      BY <1>1
    <2>2. SubSeq(a, 1, Len(l) + 1 - 1) = l
      BY <1>2, <2>1, PrefixBefore, Zenon
    <2> QED BY <1>1, <2>2, Zenon
  <1>5. DOMAIN a = DOMAIN l \cup {Len(l) + 1}
    BY <1>1
  <1>6. Nested(a)
    BY <1>1, <1>3, <1>4, <1>5 DEF Nested
  <1> QED BY <1>6, Zenon DEF a

LEMMA NestInit == Init => NestInv
  <1> SUFFICES ASSUME Init PROVE NestInv
    OBVIOUS
  <1>1. log = <<[kind |-> "session/start"]>> /\ DOMAIN log = {1} /\ log[1].kind = "session/start"
    BY DEF Init
  <1>2. Nested(log)
    BY <1>1, Zenon DEF Nested, FitsIn
  <1>3. {i \in DOMAIN log : log[i].kind \in {"turn/start", "step/start"}} = {}
    BY <1>1, Zenon
  <1>4. {i \in DOMAIN log : log[i].kind \in {"turn/end", "step/end"}} = {}
    BY <1>1, Zenon
  <1>5. Open(log) = 0
    BY <1>3, <1>4, FS_EmptySet DEF Open
  <1> QED BY <1>2, <1>5, Zenon DEF NestInv, Depth, Init

\* A step that leaves the log alone, and one that records an event that fits.
LEMMA NestSame ==
    ASSUME NestInv, UNCHANGED log, logUp' => logUp, logUp' => Depth' = Depth PROVE NestInv'
  BY Zenon DEF NestInv

LEMMA NestRecord ==
    ASSUME TypeOK, NestInv, NEW e, Recorded(e), logUp' = logUp,
           FitsIn(e.kind, Depth),
           Depth' = IF e.kind \in Opens THEN Depth + 1 ELSE IF e.kind \in Closes THEN Depth - 1 ELSE Depth
    PROVE  NestInv'
  <1>1. IsLog(log) /\ logUp /\ log' = Append(log, e) /\ Open(log) = Depth
    BY Zenon DEF TypeOK, NestInv, Recorded
  <1>2. Nested(log')
    BY <1>1, NestAppend, Zenon DEF NestInv
  <1>3. Open(log') = Depth'
    BY <1>1, OpenAppend, Zenon
  <1> QED BY <1>2, <1>3, Zenon DEF NestInv

LEMMA NestStep == TypeOK /\ NestInv /\ [Next]_vars => NestInv'
  <1> SUFFICES ASSUME TypeOK, NestInv, [Next]_vars PROVE NestInv'
    BY Zenon
  <1> USE DEF Depth, InStep
  <1>0. CASE UNCHANGED vars
    BY <1>0, NestSame, Zenon DEF vars, ctlVars
  <1>1. CASE RunTurn \/ Cancel \/ LogFails
    BY <1>1, NestSame DEF RunTurn, Cancel, LogFails, ctlVars
  <1>2. CASE turnStart
    <2>1. CASE UNCHANGED log /\ pc' = "idle"
      BY <1>2, <2>1, NestSame, Zenon DEF turnStart
    <2>2. CASE Recorded([kind |-> "turn/start"]) /\ pc' = "user"
      BY <1>2, <2>2, NestRecord DEF turnStart, FitsIn, Opens, Closes
    <2> QED BY <1>2, <2>1, <2>2, Zenon DEF turnStart, Lost
  <1>3. CASE userMessage
    <2> DEFINE e == [kind |-> "user", val |-> Token(<<"input", turns>>)]
    <2>1. CASE UNCHANGED log /\ Fail
      BY <1>3, <2>1, NestSame, Zenon DEF userMessage, Fail
    <2>2. CASE Recorded(e) /\ pc' = "preStep"
      <3>1. e.kind = "user"
        BY Zenon
      <3> HIDE DEF e
      <3> QED BY <1>3, <2>2, <3>1, NestRecord, Zenon DEF userMessage, FitsIn, Opens, Closes
    <2> QED BY <1>3, <2>1, <2>2, Zenon DEF userMessage, emit, Lost
  <1>4. CASE buildRequest
    BY <1>4, NestSame, Zenon DEF buildRequest, Fail
  <1>5. CASE judge
    <2>1. UNCHANGED <<log, logUp, point>> /\ (pc' = "record" \/ Fail)
      BY <1>5, Zenon DEF judge
    <2> QED BY <1>5, <2>1, NestSame DEF judge, Fail
  <1>6. CASE record
    <2> DEFINE e == Verdict(n + 1)
    <2>0. e.kind = "verdict"
      BY Zenon DEF Verdict
    <2>1. CASE Lost(e, TRUE) /\ Fail
      <3>1. ~logUp /\ UNCHANGED log
        BY <2>0, <2>1, Zenon DEF Lost, MayLose, Refusable
      <3> QED BY <1>6, <3>1, NestSame, Zenon DEF record
    <2>2. CASE Recorded(e) /\ UNCHANGED pc
      <3> HIDE DEF e
      <3> QED BY <1>6, <2>2, <2>0, NestRecord, Zenon DEF record, FitsIn, Opens, Closes
    <2> QED BY <1>6, <2>1, <2>2, Zenon DEF record
  <1>7. CASE preStep \/ preTool \/ postTool \/ turnStopping
    BY <1>7, NestSame DEF preStep, preTool, postTool, turnStopping, Judged
  <1>8. CASE inject
    <2> DEFINE e == [kind |-> "user", val |-> subject]
    <2>1. CASE UNCHANGED log /\ Fail
      BY <1>8, <2>1, NestSame, Zenon DEF inject, Fail
    <2>2. CASE Recorded(e) /\ pc' = "preStep"
      <3>1. e.kind = "user"
        BY Zenon
      <3> HIDE DEF e
      <3> QED BY <1>8, <2>2, <3>1, NestRecord, Zenon DEF inject, FitsIn, Opens, Closes
    <2> QED BY <1>8, <2>1, <2>2, Zenon DEF inject, emit, Lost
  <1>9. CASE stepStart
    <2>1. CASE UNCHANGED log /\ Fail
      BY <1>9, <2>1, NestSame, Zenon DEF stepStart, Fail
    <2>2. CASE Recorded([kind |-> "step/start"]) /\ pc' = "model"
      BY <1>9, <2>2, NestRecord DEF stepStart, FitsIn, Opens, Closes
    <2> QED BY <1>9, <2>1, <2>2, Zenon DEF stepStart, emit, Lost
  <1>10. CASE complete \/ invoke
    BY <1>10, NestSame DEF complete, invoke, Fail
  <1>11. CASE assistantMessage
    <2> DEFINE e == [kind |-> "assistant", val |-> Token(<<"answer">>)]
    <2>1. CASE UNCHANGED log /\ Fail
      BY <1>11, <2>1, NestSame, Zenon DEF assistantMessage, Fail
    <2>2. CASE Recorded(e) /\ pc' = NextCall(calls)
      <3>1. e.kind = "assistant"
        BY Zenon
      <3> HIDE DEF e
      <3> QED BY <1>11, <2>2, <3>1, NestRecord, Zenon DEF assistantMessage, NextCall, FitsIn, Opens, Closes
    <2> QED BY <1>11, <2>1, <2>2, Zenon DEF assistantMessage, emit, Lost
  <1>12. CASE toolCall
    <2> DEFINE e == [kind |-> "tool/call", val |-> Token(<<"call", calls>>)]
    <2>1. CASE UNCHANGED log /\ Fail
      BY <1>12, <2>1, NestSame, Zenon DEF toolCall, Fail
    <2>2. CASE Recorded(e) /\ pc' = "judge"
      <3>1. e.kind = "tool/call"
        BY Zenon
      <3> HIDE DEF e
      <3> QED BY <1>12, <2>2, <3>1, NestRecord, Zenon DEF toolCall, FitsIn, Opens, Closes
    <2> QED BY <1>12, <2>1, <2>2, Zenon DEF toolCall, emit, Lost
  <1>13. CASE toolResult
    <2> DEFINE e == [kind |-> "tool/result", status |-> status, val |-> subject]
    <2>1. CASE UNCHANGED log /\ Fail
      BY <1>13, <2>1, NestSame, Zenon DEF toolResult, Fail
    <2>2. CASE Recorded(e) /\ pc' = NextCall(calls - 1)
      <3>1. e.kind = "tool/result"
        BY Zenon
      <3> HIDE DEF e
      <3> QED BY <1>13, <2>2, <3>1, NestRecord, Zenon DEF toolResult, NextCall, FitsIn, Opens, Closes
    <2> QED BY <1>13, <2>1, <2>2, Zenon DEF toolResult, emit, Lost
  <1>14. CASE stepEnd
    <2> DEFINE e == [kind |-> "step/end"]
    <2>1. CASE Lost(e, TRUE)
      <3>1. ~logUp /\ UNCHANGED log
        BY <2>1, Zenon DEF Lost, MayLose, Refusable
      <3> QED BY <1>14, <3>1, NestSame, Zenon DEF stepEnd
    <2>2. CASE Recorded(e) /\ (pc' \in {"turnEnd", "preStep"} \/ (pc' = "judge" /\ point' = "turn_stopping"))
      BY <1>14, <2>2, NestRecord DEF stepEnd, FitsIn, Opens, Closes
    <2> QED BY <1>14, <2>1, <2>2, Zenon DEF stepEnd
  <1>15. CASE turnEnd
    <2> DEFINE e == [kind |-> "turn/end"]
    <2>1. CASE Lost(e, TRUE)
      <3>1. ~logUp /\ UNCHANGED log
        BY <2>1, Zenon DEF Lost, MayLose, Refusable
      <3> QED BY <1>15, <3>1, NestSame, Zenon DEF turnEnd
    <2>2. CASE Recorded(e)
      BY <1>15, <2>2, NestRecord DEF turnEnd, FitsIn, Opens, Closes
    <2> QED BY <1>15, <2>1, <2>2, Zenon DEF turnEnd
  <1> QED BY <1>0, <1>1, <1>2, <1>3, <1>4, <1>5, <1>6, <1>7, <1>8, <1>9, <1>10, <1>11, <1>12, <1>13,
             <1>14, <1>15, Zenon DEF Next, Step

\* core/loop closes every boundary it opened, innermost first, however the
\* turn leaves: the deferred step/end and turn/end of loop.go.
THEOREM BoundariesAlwaysNest == Spec => []BoundariesNest
  <1>1. TypeOK /\ NestInv => BoundariesNest
    BY Zenon DEF NestInv, Nested, Depth, BoundariesNest
  <1> QED BY <1>1, InitType, TypeStep, NestInit, NestStep, PTL DEF Spec

----------------------------------------------------------------------------
\* Verdicts.

\* The verdicts of the point RunTurn is at are the last ones of the log, and
\* the points that follow it have none yet.
HookInv ==
    /\ pc = "judge" => Group(log, Len(log), point) = {}
    /\ pc = "record" =>
         /\ n <= Len(log)
         /\ Group(log, Len(log), point) = Len(log) - n + 1 .. Len(log)
         /\ \A i \in 1 .. n : log[Len(log) - n + i] = Verdict(i)
    /\ pc = "preStep" \/ At("turn_stopping") => Group(log, Len(log), "pre_step") = {}
    /\ pc = "invoke" \/ At("pre_tool") => Group(log, Len(log), "post_tool") = {}

\* A verdict of another point rejects nothing here.
LEMMA OtherPoint ==
    ASSUME NEW l, IsLog(l), NEW e, e.kind = "verdict", NEW p, p # e.point
    PROVE  LoggedReject(Append(l, e), Len(l) + 1, p) <=> LoggedReject(l, Len(l), p)
  <1> DEFINE a == Append(l, e)
  <1>1. Len(l) \in Nat /\ \A i \in 1 .. Len(l) : a[i] = l[i]
    BY AppendIs
  <1>2. Group(a, Len(l) + 1, p) = Group(l, Len(l), p)
    <2>1. Group(a, Len(l) + 1, p) = Group(l, Len(l), p) \cup {i \in {Len(l) + 1} : e.point = p}
      BY VerdictAppended
    <2> HIDE DEF a
    <2> QED BY <2>1, Zenon
  <1> HIDE DEF a
  <1>3. Group(l, Len(l), p) \subseteq 1 .. Len(l)
    <2>1. GroupStart(l, Len(l)) \in 0 .. Len(l)
      BY <1>1, GroupStartIs, Zenon
    <2> QED BY <1>1, <2>1 DEF Group
  <1>4. LoggedReject(a, Len(l) + 1, p) <=> LoggedReject(l, Len(l), p)
    BY <1>1, <1>2, <1>3, Zenon DEF LoggedReject
  <1> QED BY <1>4, Zenon DEF a

\* resolveDecisions decides what a reader of the log would decide.
LEMMA Resolved ==
    ASSUME TypeOK, HookInv, pc = "record", n = Len(decs)
    PROVE  /\ Rejected <=> LoggedReject(log, Len(log), point)
           /\ ~Rejected => Final = Outcome(log, Len(log), point, subject)
  <1> DEFINE b == Len(log) - n
             G == Group(log, Len(log), point)
  <1>1. Len(log) \in Nat /\ n \in Nat /\ DOMAIN decs = 1 .. n /\ b \in Nat
    BY AppendIs DEF TypeOK, HookInv
  <1>2. G = b + 1 .. b + n
    BY <1>1 DEF HookInv
  <1>3. \A i \in 1 .. n : log[b + i] = Verdict(i)
    BY Zenon DEF HookInv
  <1>4. \A i \in 1 .. n : log[b + i].verdict = decs[i] /\ (decs[i] = "rewrite" => log[b + i].val = Rewrite(i))
    <2>1. \A i : Verdict(i).verdict = decs[i] /\ (decs[i] = "rewrite" => Verdict(i).val = Rewrite(i))
      BY Zenon DEF Verdict
    <2> QED BY <1>3, <2>1, Zenon
  <1> HIDE DEF b, G
  <1>5. \A j \in G : j - b \in 1 .. n /\ b + (j - b) = j
    BY <1>1, <1>2
  <1>6. \A i \in 1 .. n : b + i \in G
    BY <1>1, <1>2
  <1>7. Rejected <=> LoggedReject(log, Len(log), point)
    <2>1. ASSUME Rejected PROVE LoggedReject(log, Len(log), point)
      BY <2>1, <1>1, <1>4, <1>6, Zenon DEF Rejected, LoggedReject, G
    <2>2. ASSUME LoggedReject(log, Len(log), point) PROVE Rejected
      <3>1. PICK j \in G : log[j].verdict = "reject"
        BY <2>2, Zenon DEF LoggedReject, G
      <3>2. decs[j - b] = "reject" /\ j - b \in DOMAIN decs
        BY <3>1, <1>1, <1>4, <1>5, Zenon
      <3> QED BY <3>2, Zenon DEF Rejected
    <2> QED BY <2>1, <2>2, Zenon
  <1>8. ASSUME ~Rejected PROVE Final = Outcome(log, Len(log), point, subject)
    <2> DEFINE rw == {j \in G : log[j].verdict = "rewrite"}
               rd == {i \in DOMAIN decs : decs[i] = "rewrite"}
    <2>1. Outcome(log, Len(log), point, subject) = IF rw = {} THEN subject ELSE log[Max(rw)].val
      BY Zenon DEF Outcome, G
    <2>2. Final = IF rd = {} THEN subject ELSE Rewrite(Max(rd))
      BY <1>8, Zenon DEF Final, Rewrote
    <2>3. \A i \in rd : b + i \in rw /\ i \in 1 .. n
      BY <1>1, <1>4, <1>6, Zenon
    <2>4. \A j \in rw : j - b \in rd /\ b + (j - b) = j
      BY <1>1, <1>4, <1>5, Zenon
    <2>5. rd \in SUBSET (0 .. n) /\ rw \in SUBSET Int
      BY <1>1, <1>2
    <2>6. \A i \in rd : log[b + i].val = Rewrite(i)
      BY <1>1, <1>4, Zenon
    <2> HIDE DEF rw, rd
    <2>7. CASE rd = {}
      BY <2>1, <2>2, <2>4, <2>7, Zenon
    <2>8. CASE rd # {}
      <3> DEFINE m == Max(rd)
      <3>1. m \in rd /\ \A i \in rd : i <= m
        BY <2>5, <2>8, <1>1, MaxOf, Zenon
      <3> HIDE DEF m
      <3>2. b + m \in rw
        BY <3>1, <2>3, Zenon
      <3>3. ASSUME NEW j \in rw PROVE j <= b + m
        <4>1. j - b <= m
          BY <2>4, <3>1, Zenon
        <4>2. j \in Int /\ m \in Int
          BY <2>5, <3>1
        <4> QED BY <4>1, <4>2, <1>1
      <3>4. Max(rw) = b + m
        BY <2>5, <3>2, <3>3, MaxIs, Zenon
      <3> QED BY <2>1, <2>2, <2>6, <3>1, <3>2, <3>4, Zenon DEF m
    <2> QED BY <2>7, <2>8, Zenon
  <1> QED BY <1>7, <1>8, Zenon

\* What the payload in flight is, read off the log.
StepInv ==
    /\ At("pre_step") => subject = LoggedRequest(log, Len(log))
    /\ pc = "stepStart" =>
         /\ ~LoggedReject(log, Len(log), "pre_step")
         /\ subject = Outcome(log, Len(log), "pre_step", LoggedRequest(log, Len(log)))
    /\ pc = "model" =>
         /\ log[Len(log)].kind = "step/start"
         /\ ~LoggedReject(log, Len(log) - 1, "pre_step")
         /\ subject = Outcome(log, Len(log) - 1, "pre_step", LoggedRequest(log, Len(log) - 1))

Start == GroupStart(log, Len(log))

CallInv ==
    /\ At("pre_tool") \/ At("post_tool") \/ pc \in {"invoke", "result"} => log[Start].kind = "tool/call"
    /\ At("pre_tool") \/ pc = "invoke" => \A j \in DOMAIN ran : ran[j].at < Start
    /\ At("pre_tool") => subject = log[Start].val
    /\ pc = "invoke" =>
         /\ ~LoggedReject(log, Len(log), "pre_tool")
         /\ subject = Outcome(log, Len(log), "pre_tool", log[Start].val)
    /\ At("post_tool") => ~LoggedReject(log, Len(log), "pre_tool") /\ subject = Token(<<"output">>)
    /\ pc = "result" =>
         LET pre  == LoggedReject(log, Len(log), "pre_tool")
             post == LoggedReject(log, Len(log), "post_tool")
         IN  /\ status = "rejected" <=> (pre \/ post)
             /\ status = "ok" => subject = Outcome(log, Len(log), "post_tool", Token(<<"output">>))

\* The histories are about positions of the log.
HistoryInv ==
    /\ \A i \in DOMAIN saw : saw[i].at \in 1 .. Len(log)
    /\ \A i \in DOMAIN ran : ran[i].at \in 1 .. Len(log)

\* Every run of verdicts has an event before it: the session's start is none.
LEMMA StartIsLogged ==
    ASSUME NEW l, IsLog(l), l[1].kind = "session/start", NEW k \in 1 .. Len(l)
    PROVE  GroupStart(l, k) \in 1 .. k
  <1>1. Len(l) \in Nat
    BY AppendIs, Zenon
  <1>2. k \in Nat /\ k >= 1
    BY <1>1
  <1> DEFINE g == GroupStart(l, k)
  <1>3. g \in 0 .. k /\ \A i \in g + 1 .. k : l[i].kind = "verdict"
    BY <1>2, GroupStartIs, Zenon
  <1> HIDE DEF g
  <1>4. g # 0
    <2> SUFFICES ASSUME g = 0 PROVE FALSE
      BY Zenon
    <2>1. 1 \in g + 1 .. k
      BY <1>2
    <2>2. l[1].kind = "verdict"
      BY <1>3, <2>1, Zenon
    <2> QED BY <2>2, Zenon
  <1>5. g \in 1 .. k
    BY <1>2, <1>3, <1>4
  <1> QED BY <1>5, Zenon DEF g

\* Recording an event that is no verdict, seen from the state.
LEMMA Started ==
    ASSUME TypeOK, NEW e, Recorded(e), e.kind # "verdict"
    PROVE  /\ Len(log) \in Nat /\ Len(log') = Len(log) + 1 /\ log'[Len(log')] = e
           /\ Start' = Len(log')
           /\ \A p : Group(log', Len(log'), p) = {}
  <1>1. IsLog(log) /\ log' = Append(log, e)
    BY Zenon DEF TypeOK, Recorded
  <1>2. Len(log) \in Nat /\ Len(log') = Len(log) + 1 /\ log'[Len(log) + 1] = e
    BY <1>1, AppendIs, Zenon
  <1>3. GroupStart(log', Len(log) + 1) = Len(log) + 1 /\ \A p : Group(log', Len(log) + 1, p) = {}
    BY <1>1, OtherAppended, Zenon
  <1> QED BY <1>2, <1>3, Zenon DEF Start

\* Where RunTurn is not at a hook, before one or after it, there is nothing to show.
LEMMA HookQuiet ==
    ASSUME pc' \notin {"judge", "record", "preStep", "invoke"} PROVE HookInv'
  BY Zenon DEF HookInv, At

LEMMA HookFresh ==
    ASSUME TypeOK, NEW e, Recorded(e), e.kind # "verdict", pc' # "record" PROVE HookInv'
  <1>1. \A p : Group(log', Len(log'), p) = {}
    BY Started, Zenon
  <1> QED BY <1>1, Zenon DEF HookInv, At

LEMMA HookSame ==
    ASSUME HookInv, UNCHANGED <<log, pc, point, decs, n>> PROVE HookInv'
  BY Zenon DEF HookInv, At, Verdict

LEMMA HookRecord == ASSUME TypeOK, HookInv, record PROVE HookInv'
  <1> DEFINE e == Verdict(n + 1)
  <1>0. e.kind = "verdict" /\ e.point = point
    BY Zenon DEF Verdict
  <1>1. CASE Fail
    BY <1>1, HookQuiet, Zenon DEF Fail
  <1>2. CASE Recorded(e) /\ n' = n + 1 /\ UNCHANGED pc
    <2>1. pc = "record" /\ pc' = pc /\ point' = point /\ decs' = decs /\ n' = n + 1 /\ log' = Append(log, e)
      BY <1>2, Zenon DEF record, Recorded
    <2> HIDE DEF e
    <2>2. IsLog(log) /\ n \in Nat
      BY DEF TypeOK
    <2>3. /\ Len(log) \in Nat /\ Len(log') = Len(log) + 1 /\ log'[Len(log) + 1] = e
          /\ \A i \in 1 .. Len(log) : log'[i] = log[i]
      BY <2>1, <2>2, AppendIs
    <2>4. \A p : Group(log', Len(log'), p) = Group(log, Len(log), p) \cup {i \in {Len(log) + 1} : point = p}
      BY <1>0, <2>1, <2>2, <2>3, VerdictAppended
    <2>5. n' <= Len(log')
      BY <2>1, <2>2, <2>3 DEF HookInv
    <2>6. Group(log', Len(log'), point) = Len(log') - n' + 1 .. Len(log')
      <3>1. Group(log, Len(log), point) = Len(log) - n + 1 .. Len(log) /\ n <= Len(log)
        BY <2>1, Zenon DEF HookInv
      <3>2. Len(log') - n' + 1 = Len(log) - n + 1
        BY <2>1, <2>2, <2>3
      <3>3. Len(log) - n + 1 .. Len(log) + 1 = (Len(log) - n + 1 .. Len(log)) \cup {Len(log) + 1}
        BY <2>2, <2>3, <3>1
      <3> QED BY <2>3, <2>4, <3>1, <3>2, <3>3, Zenon
    <2>7. ASSUME NEW i \in 1 .. n' PROVE log'[Len(log') - n' + i] = Verdict(i)'
      <3>0. Verdict(i)' = Verdict(i)
        BY <2>1, Zenon DEF Verdict
      <3>1. Len(log') - n' + i = Len(log) - n + i
        BY <2>1, <2>2, <2>3
      <3>2. CASE i = n + 1
        <4>1. Len(log) - n + i = Len(log) + 1
          BY <2>2, <2>3, <3>2
        <4> QED BY <2>3, <3>0, <3>1, <3>2, <4>1, Zenon DEF e
      <3>3. CASE i # n + 1
        <4>1. i \in 1 .. n
          BY <2>1, <2>2, <3>3
        <4>2. Len(log) - n + i \in 1 .. Len(log)
          BY <2>1, <2>2, <2>3, <4>1 DEF HookInv
        <4>3. log[Len(log) - n + i] = Verdict(i)
          BY <2>1, <4>1, Zenon DEF HookInv
        <4> QED BY <2>3, <3>0, <3>1, <4>2, <4>3, Zenon
      <3> QED BY <3>2, <3>3, Zenon
    <2>8. At("turn_stopping")' => Group(log', Len(log'), "pre_step") = {}
      <3>1. At("turn_stopping")' => At("turn_stopping") /\ point # "pre_step"
        BY <2>1, Zenon DEF At
      <3>2. At("turn_stopping") => Group(log, Len(log), "pre_step") = {}
        BY Zenon DEF HookInv
      <3> QED BY <2>4, <3>1, <3>2, Zenon
    <2>9. At("pre_tool")' => Group(log', Len(log'), "post_tool") = {}
      <3>1. At("pre_tool")' => At("pre_tool") /\ point # "post_tool"
        BY <2>1, Zenon DEF At
      <3>2. At("pre_tool") => Group(log, Len(log), "post_tool") = {}
        BY Zenon DEF HookInv
      <3> QED BY <2>4, <3>1, <3>2, Zenon
    <2> QED BY <2>1, <2>5, <2>6, <2>7, <2>8, <2>9, Zenon DEF HookInv
  <1> QED BY <1>1, <1>2, Zenon DEF record

LEMMA HookStep == TypeOK /\ HookInv /\ [Next]_vars => HookInv'
  <1> SUFFICES ASSUME TypeOK, HookInv, [Next]_vars PROVE HookInv'
    OBVIOUS
  <1>0. CASE UNCHANGED vars \/ Cancel \/ LogFails
    BY <1>0, HookSame, Zenon DEF vars, ctlVars, Cancel, LogFails
  <1>1. CASE RunTurn \/ preStep \/ postTool \/ complete \/ turnEnd
    BY <1>1, HookQuiet, Zenon DEF RunTurn, preStep, postTool, complete, turnEnd, Fail
  <1>2. CASE turnStart
    BY <1>2, HookQuiet, Zenon DEF turnStart
  <1>3. CASE userMessage \/ inject
    <2>1. CASE Fail
      BY <2>1, HookQuiet, Zenon DEF Fail
    <2>2. ASSUME NEW v, Recorded([kind |-> "user", val |-> v]), pc' = "preStep" PROVE HookInv'
      BY <2>2, HookFresh, Zenon
    <2> QED BY <1>3, <2>1, <2>2, Zenon DEF userMessage, inject, emit
  <1>4. CASE buildRequest
    <2>1. CASE Fail
      BY <2>1, HookQuiet DEF Fail
    <2>2. CASE ~Fail
      <3>1. pc = "preStep" /\ pc' = "judge" /\ point' = "pre_step" /\ log' = log
        BY <1>4, <2>2, Zenon DEF buildRequest
      <3> QED BY <3>1, Zenon DEF HookInv, At
    <2> QED BY <2>1, <2>2, Zenon
  <1>5. CASE judge
    <2>1. CASE Fail
      BY <2>1, HookQuiet DEF Fail
    <2>2. CASE ~Fail
      <3>1. pc = "judge" /\ pc' = "record" /\ point' = point /\ log' = log /\ n' = 0
        BY <1>5, <2>2, Zenon DEF judge
      <3>2. Len(log) \in Nat
        BY AppendIs, Zenon DEF TypeOK
      <3>3. Len(log) - 0 + 1 .. Len(log) = {} /\ 1 .. 0 = {}
        BY <3>2
      <3>4. At("turn_stopping")' => At("turn_stopping")
        BY <3>1, Zenon DEF At
      <3>5. At("pre_tool")' => At("pre_tool")
        BY <3>1, Zenon DEF At
      <3> QED BY <3>1, <3>2, <3>3, <3>4, <3>5 DEF HookInv
    <2> QED BY <2>1, <2>2
  <1>6. CASE record
    BY <1>6, HookRecord, Zenon
  <1>7. CASE preTool
    <2>1. At("pre_tool") /\ log' = log /\ pc' \in {"result", "invoke"}
      BY <1>7, Zenon DEF preTool, Judged, At
    <2> QED BY <2>1, Zenon DEF HookInv, At
  <1>8. CASE turnStopping
    <2>1. At("turn_stopping") /\ log' = log /\ pc' \in {"turnEnd", "preStep", "inject"}
      BY <1>8, Zenon DEF turnStopping, Judged, At
    <2> QED BY <2>1, Zenon DEF HookInv, At
  <1>9. CASE stepStart \/ assistantMessage \/ toolResult
    BY <1>9, HookQuiet, Zenon DEF stepStart, assistantMessage, toolResult, emit, Fail, NextCall
  <1>10. CASE toolCall
    <2>1. CASE Fail
      BY <2>1, HookQuiet DEF Fail
    <2>2. ASSUME NEW v, Recorded([kind |-> "tool/call", val |-> v]), pc' = "judge" PROVE HookInv'
      BY <2>2, HookFresh, Zenon
    <2> QED BY <1>10, <2>1, <2>2, Zenon DEF toolCall, emit
  <1>11. CASE invoke
    <2>1. pc = "invoke" /\ log' = log /\ (pc' = "result" \/ (pc' = "judge" /\ point' = "post_tool"))
      BY <1>11, Zenon DEF invoke
    <2> QED BY <2>1, Zenon DEF HookInv, At
  <1>12. CASE stepEnd
    <2>1. CASE Recorded([kind |-> "step/end"]) /\ pc' \in {"turnEnd", "preStep", "judge"}
      BY <2>1, HookFresh, Zenon
    <2>2. CASE pc' = "turnEnd"
      BY <2>2, HookQuiet, Zenon
    <2> QED BY <1>12, <2>1, <2>2, Zenon DEF stepEnd
  <1> QED BY <1>0, <1>1, <1>2, <1>3, <1>4, <1>5, <1>6, <1>7, <1>8, <1>9, <1>10, <1>11, <1>12, Zenon DEF Next, Step

----------------------------------------------------------------------------
\* Requests.

LEMMA StepQuiet ==
    ASSUME ~At("pre_step")', pc' \notin {"stepStart", "model"} PROVE StepInv'
  BY Zenon DEF StepInv

LEMMA StepStep == TypeOK /\ HookInv /\ StepInv /\ [Next]_vars => StepInv'
  <1> SUFFICES ASSUME TypeOK, HookInv, StepInv, [Next]_vars PROVE StepInv'
    BY Zenon
  <1> DEFINE other == ~At("pre_step")' /\ pc' \notin {"stepStart", "model"}
  <1>0. CASE UNCHANGED vars \/ Cancel \/ LogFails
    <2>1. UNCHANGED <<log, pc, point, subject>>
      BY <1>0, Zenon DEF vars, Cancel, LogFails
    <2> QED BY <2>1, Zenon DEF StepInv, At
  <1>1. CASE RunTurn \/ turnStart \/ preTool \/ postTool \/ turnStopping \/ complete \/ invoke \/ turnEnd
    <2>1. other
      BY <1>1, Zenon DEF At, RunTurn, turnStart, preTool, postTool, turnStopping, complete, invoke, turnEnd, Fail
    <2> QED BY <2>1, StepQuiet, Zenon
  <1>2. CASE userMessage \/ inject \/ assistantMessage \/ toolCall \/ toolResult \/ stepEnd
    <2>1. other
      BY <1>2, Zenon DEF At, userMessage, inject, assistantMessage, toolCall, toolResult, stepEnd, emit, Fail, NextCall
    <2> QED BY <2>1, StepQuiet
  <1>3. CASE buildRequest
    <2>1. CASE Fail
      BY <2>1, StepQuiet, Zenon DEF Fail, At
    <2>2. CASE ~Fail
      <3>1. pc' = "judge" /\ log' = log /\ subject' = Request(Messages(log))
        BY <1>3, <2>2, Zenon DEF buildRequest
      <3>2. subject' = LoggedRequest(log, Len(log))
        BY <3>1, RequestIsLogged, Zenon DEF TypeOK
      <3> QED BY <3>1, <3>2, Zenon DEF StepInv, At
    <2> QED BY <2>1, <2>2, Zenon
  <1>4. CASE judge
    <2>1. CASE Fail
      BY <2>1, StepQuiet DEF Fail, At
    <2>2. CASE ~Fail
      <3>1. pc = "judge" /\ pc' = "record" /\ point' = point /\ log' = log /\ subject' = subject
        BY <1>4, <2>2, Zenon DEF judge
      <3> QED BY <3>1, Zenon DEF StepInv, At
    <2> QED BY <2>1, <2>2
  <1>5. CASE record
    <2> DEFINE e == Verdict(n + 1)
    <2>1. CASE Fail
      BY <2>1, StepQuiet DEF Fail, At
    <2>2. CASE Recorded(e) /\ pc' = pc
      <3>1. pc = "record" /\ pc' = pc /\ point' = point /\ log' = Append(log, e) /\ subject' = subject
        BY <1>5, <2>2, Zenon DEF record, Recorded
      <3>2. IsLog(log) /\ e.kind = "verdict"
        BY Zenon DEF TypeOK, Verdict
      <3> HIDE DEF e
      <3>3. Len(log') = Len(log) + 1
        BY <3>1, <3>2, AppendIs, Zenon
      <3>4. LoggedRequest(log', Len(log')) = LoggedRequest(log, Len(log))
        BY <3>1, <3>2, <3>3, VerdictAppended, Zenon
      <3> QED BY <3>1, <3>4, Zenon DEF StepInv, At
    <2> QED BY <1>5, <2>1, <2>2, Zenon DEF record
  <1>6. CASE preStep
    <2>1. /\ At("pre_step") /\ pc = "record" /\ point = "pre_step" /\ n = Len(decs) /\ log' = log
          /\ pc' = (IF Rejected THEN "turnEnd" ELSE "stepStart") /\ subject' = Final
      BY <1>6, Zenon DEF preStep, Judged, At
    <2>2. CASE Rejected
      BY <2>1, <2>2, StepQuiet, Zenon DEF At
    <2>3. CASE ~Rejected
      <3>1. /\ ~LoggedReject(log, Len(log), "pre_step")
            /\ Final = Outcome(log, Len(log), "pre_step", subject)
        BY <2>1, <2>3, Resolved, Zenon
      <3>2. subject = LoggedRequest(log, Len(log))
        BY <2>1, Zenon DEF StepInv
      <3> QED BY <2>1, <2>3, <3>1, <3>2, Zenon DEF StepInv, At
    <2> QED BY <2>2, <2>3
  <1>7. CASE stepStart
    <2> DEFINE e == [kind |-> "step/start"]
    <2>1. CASE Fail
      BY <2>1, StepQuiet DEF Fail, At
    <2>2. CASE Recorded(e) /\ pc' = "model"
      <3>1. pc = "stepStart" /\ log' = Append(log, e) /\ subject' = subject /\ IsLog(log)
        BY <1>7, <2>2, Zenon DEF stepStart, Recorded, TypeOK
      <3>2. Len(log') = Len(log) + 1 /\ Len(log) \in Nat /\ log'[Len(log')] = e
        BY <3>1, AppendIs
      <3>3. Len(log') - 1 = Len(log) /\ Len(log) \in 0 .. Len(log)
        BY <3>2
      <3>4. /\ LoggedReject(log', Len(log), "pre_step") <=> LoggedReject(log, Len(log), "pre_step")
            /\ \A o : Outcome(log', Len(log), "pre_step", o) = Outcome(log, Len(log), "pre_step", o)
            /\ LoggedRequest(log', Len(log)) = LoggedRequest(log, Len(log))
        BY <3>1, <3>3, ReadBackIsStable
      <3> QED BY <2>2, <3>1, <3>2, <3>3, <3>4, SMTT(20) DEF StepInv, At
    <2> QED BY <1>7, <2>1, <2>2, Zenon DEF stepStart, emit
  <1> QED BY <1>0, <1>1, <1>2, <1>3, <1>4, <1>5, <1>6, <1>7, Zenon DEF Next, Step

----------------------------------------------------------------------------
\* Histories.

LEMMA HistoryStep == TypeOK /\ HistoryInv /\ [Next]_vars => HistoryInv'
  <1> SUFFICES ASSUME TypeOK, HistoryInv, [Next]_vars PROVE HistoryInv'
    OBVIOUS
  <1>1. Len(log) \in Nat /\ Len(log) \in 1 .. Len(log)
    <2>1. Len(log) \in Nat /\ Len(log) > 0
      BY AppendIs, Zenon DEF TypeOK
    <2> QED BY <2>1
  <1>2. 1 .. Len(log) \subseteq 1 .. Len(log')
    <2>1. CASE UNCHANGED log
      BY <2>1, Zenon
    <2>2. ASSUME NEW e, log' = Append(log, e) PROVE 1 .. Len(log) \subseteq 1 .. Len(log')
      <3>1. Len(log') = Len(log) + 1
        BY <2>2, AppendIs, Zenon DEF TypeOK
      <3> QED BY <1>1, <3>1
    <2>3. UNCHANGED log \/ \E e : log' = Append(log, e)
      BY LogGrows, Zenon DEF vars
    <2> QED BY <2>1, <2>2, <2>3, Zenon
  <1>3. ASSUME NEW i \in DOMAIN saw' PROVE saw'[i].at \in 1 .. Len(log')
    <2>1. CASE UNCHANGED saw
      BY <1>2, <2>1, Zenon DEF HistoryInv
    <2>2. CASE complete
      <3> DEFINE x == [req |-> subject, at |-> Len(log)]
      <3>1. saw' = Append(saw, x) /\ x.at = Len(log)
        BY <2>2, Zenon DEF complete
      <3> HIDE DEF x
      <3>2. /\ Len(saw) \in Nat /\ DOMAIN saw = 1 .. Len(saw) /\ DOMAIN saw' = 1 .. Len(saw) + 1
            /\ \A j \in 1 .. Len(saw) : saw'[j] = saw[j]
            /\ saw'[Len(saw) + 1] = x
        BY <3>1, AppendIs, SMTT(20) DEF TypeOK
      <3>3. i \in DOMAIN saw \/ i = Len(saw) + 1
        BY <3>2
      <3> QED BY <1>1, <1>2, <3>1, <3>2, <3>3, Zenon DEF HistoryInv
    <2>3. complete \/ UNCHANGED saw
      BY Zenon DEF Next, Step, vars, RunTurn, turnStart, userMessage, buildRequest, judge, record, preStep, preTool,
             postTool, turnStopping, inject, stepStart, assistantMessage, toolCall, invoke,
             toolResult, stepEnd, turnEnd, Cancel, LogFails
    <2> QED BY <2>1, <2>2, <2>3, Zenon
  <1>4. ASSUME NEW i \in DOMAIN ran' PROVE ran'[i].at \in 1 .. Len(log')
    <2>1. CASE UNCHANGED ran
      BY <1>2, <2>1, Zenon DEF HistoryInv
    <2>2. CASE invoke
      <3> DEFINE x == [call |-> subject, at |-> Len(log)]
      <3>1. ran' = Append(ran, x) /\ x.at = Len(log)
        BY <2>2, Zenon DEF invoke
      <3> HIDE DEF x
      <3>2. /\ Len(ran) \in Nat /\ DOMAIN ran = 1 .. Len(ran) /\ DOMAIN ran' = 1 .. Len(ran) + 1
            /\ \A j \in 1 .. Len(ran) : ran'[j] = ran[j]
            /\ ran'[Len(ran) + 1] = x
        BY <3>1, AppendIs DEF TypeOK
      <3>3. i \in DOMAIN ran \/ i = Len(ran) + 1
        BY <3>2
      <3> QED BY <1>1, <1>2, <3>1, <3>2, <3>3, Zenon DEF HistoryInv
    <2>3. invoke \/ UNCHANGED ran
      BY Zenon DEF Next, Step, vars, RunTurn, turnStart, userMessage, buildRequest, judge, record, preStep, preTool,
             postTool, turnStopping, inject, stepStart, assistantMessage, toolCall, complete,
             toolResult, stepEnd, turnEnd, Cancel, LogFails
    <2> QED BY <2>1, <2>2, <2>3
  <1> QED BY <1>3, <1>4, Zenon DEF HistoryInv

----------------------------------------------------------------------------
\* Tool calls.

\* Where RunTurn has a tool call in hand.
InCall == At("pre_tool") \/ At("post_tool") \/ pc \in {"invoke", "result"}

LEMMA CallQuiet == ASSUME ~InCall' PROVE CallInv'
  BY Zenon DEF CallInv, InCall

LEMMA CallStep == TypeOK /\ HistoryInv /\ HookInv /\ CallInv /\ [Next]_vars => CallInv'
  <1> SUFFICES ASSUME TypeOK, HistoryInv, HookInv, CallInv, [Next]_vars PROVE CallInv'
    BY Zenon
  <1>0. CASE UNCHANGED vars \/ Cancel \/ LogFails
    <2>1. UNCHANGED <<log, pc, point, subject, status, ran>>
      BY <1>0, Zenon DEF vars, Cancel, LogFails
    <2> QED BY <2>1, Zenon DEF CallInv, At, Start
  <1>1. CASE RunTurn \/ turnStart \/ preStep \/ turnStopping \/ complete \/ turnEnd \/ buildRequest
    <2>1. ~InCall'
      BY <1>1, Zenon DEF At, InCall, RunTurn, turnStart, preStep, turnStopping, complete, turnEnd, buildRequest, Fail
    <2> QED BY <2>1, CallQuiet, Zenon
  <1>2. CASE userMessage \/ inject \/ stepStart \/ assistantMessage \/ toolResult \/ stepEnd
    <2>1. ~InCall'
      BY <1>2, Zenon DEF At, InCall, userMessage, inject, stepStart, assistantMessage, toolResult, stepEnd, emit, Fail, NextCall
    <2> QED BY <2>1, CallQuiet
  <1>3. CASE toolCall
    <2> DEFINE v == Token(<<"call", calls>>)
               e == [kind |-> "tool/call", val |-> v]
    <2>1. CASE Fail
      BY <2>1, CallQuiet, Zenon DEF Fail, At, InCall
    <2>2. CASE Recorded(e) /\ pc' = "judge"
      <3>1. point' = "pre_tool" /\ subject' = v /\ ran' = ran
        BY <1>3, Zenon DEF toolCall
      <3>2. e.kind = "tool/call" /\ e.val = v
        BY Zenon
      <3> HIDE DEF v, e
      <3>3. Len(log) \in Nat /\ Len(log') = Len(log) + 1 /\ log'[Start'] = e /\ Start' = Len(log')
        BY <2>2, <3>2, Started, Zenon
      <3>4. \A j \in DOMAIN ran' : ran'[j].at < Start'
        BY <3>1, <3>3, SMTT(20) DEF HistoryInv
      <3> QED BY <2>2, <3>1, <3>2, <3>3, <3>4, Zenon DEF CallInv, At
    <2> QED BY <1>3, <2>1, <2>2, Zenon DEF toolCall, emit
  <1>4. CASE judge
    <2>1. CASE Fail
      BY <2>1, CallQuiet DEF Fail, At, InCall
    <2>2. CASE ~Fail
      <3>1. pc = "judge" /\ pc' = "record" /\ UNCHANGED <<point, log, subject, status, ran>>
        BY <1>4, <2>2, Zenon DEF judge
      <3> QED BY <3>1, Zenon DEF CallInv, At, Start
    <2> QED BY <2>1, <2>2, Zenon
  <1>5. CASE record
    <2> DEFINE e == Verdict(n + 1)
    <2>1. CASE Fail
      BY <2>1, CallQuiet DEF Fail, At, InCall
    <2>2. CASE Recorded(e) /\ pc' = pc
      <3>1. pc = "record" /\ log' = Append(log, e) /\ UNCHANGED <<pc, point, subject, status, ran>>
        BY <1>5, <2>2, Zenon DEF record, Recorded
      <3>2. IsLog(log) /\ e.kind = "verdict" /\ e.point = point
        BY Zenon DEF TypeOK, Verdict
      <3> HIDE DEF e
      <3>3. Len(log') = Len(log) + 1 /\ Len(log) \in Nat /\ \A i \in 1 .. Len(log) : log'[i] = log[i]
        BY <3>1, <3>2, AppendIs
      <3>4. Start' = Start
        BY <3>1, <3>2, <3>3, VerdictAppended, Zenon DEF Start
      <3>5. log'[Start] = log[Start]
        <4>1. Len(log) \in 1 .. Len(log) /\ log[1].kind = "session/start"
          BY <3>3 DEF TypeOK
        <4>2. Start \in 1 .. Len(log)
          BY <3>2, <4>1, StartIsLogged, Zenon DEF Start
        <4> QED BY <3>3, <4>2, Zenon
      <3>6. point = "post_tool" => (LoggedReject(log', Len(log'), "pre_tool") <=> LoggedReject(log, Len(log), "pre_tool"))
        BY <3>1, <3>2, <3>3, OtherPoint, Zenon
      <3> QED BY <3>1, <3>4, <3>5, <3>6, Zenon DEF CallInv, At
    <2> QED BY <1>5, <2>1, <2>2, Zenon DEF record
  <1>6. CASE preTool
    <2>1. /\ At("pre_tool") /\ pc = "record" /\ point = "pre_tool" /\ n = Len(decs)
          /\ UNCHANGED <<log, ran, point>> /\ Start' = Start
      BY <1>6, Zenon DEF preTool, Judged, At, Start
    <2>2. /\ Rejected <=> LoggedReject(log, Len(log), "pre_tool")
          /\ ~Rejected => Final = Outcome(log, Len(log), "pre_tool", subject)
      BY <2>1, Resolved, Zenon
    <2>3. CASE Rejected
      <3>1. pc' = "result" /\ status' = "rejected"
        BY <1>6, <2>3, Zenon DEF preTool
      <3> QED BY <2>1, <2>2, <2>3, <3>1, Zenon DEF CallInv, At
    <2>4. CASE ~Rejected
      <3>1. pc' = "invoke" /\ subject' = Final
        BY <1>6, <2>4, Zenon DEF preTool
      <3> QED BY <2>1, <2>2, <2>4, <3>1, Zenon DEF CallInv, At
    <2> QED BY <2>3, <2>4
  <1>7. CASE invoke
    <2>1. pc = "invoke" /\ log' = log /\ Start' = Start
      BY <1>7, Zenon DEF invoke, Start
    <2>2. ~LoggedReject(log, Len(log), "post_tool")
      BY <2>1, Zenon DEF HookInv, LoggedReject
    <2>3. CASE pc' = "result" /\ status' = "error"
      BY <2>1, <2>2, <2>3, Zenon DEF CallInv, At
    <2>4. CASE pc' = "judge" /\ subject' = Token(<<"output">>) /\ point' = "post_tool"
      BY <2>1, <2>4, Zenon DEF CallInv, At
    <2> QED BY <1>7, <2>3, <2>4, Zenon DEF invoke
  <1>8. CASE postTool
    <2>1. /\ At("post_tool") /\ pc = "record" /\ point = "post_tool" /\ n = Len(decs)
          /\ log' = log /\ Start' = Start /\ pc' = "result"
          /\ status' = (IF Rejected THEN "rejected" ELSE "ok")
          /\ subject' = (IF Rejected THEN Empty ELSE Final)
      BY <1>8, Zenon DEF postTool, Judged, At, Start
    <2>2. /\ Rejected <=> LoggedReject(log, Len(log), "post_tool")
          /\ ~Rejected => Final = Outcome(log, Len(log), "post_tool", subject)
      BY <2>1, Resolved, Zenon
    <2>3. ~LoggedReject(log, Len(log), "pre_tool") /\ subject = Token(<<"output">>)
      BY <2>1, Zenon DEF CallInv
    <2> QED BY <2>1, <2>2, <2>3, Zenon DEF CallInv, At
  <1> QED BY <1>0, <1>1, <1>2, <1>3, <1>4, <1>5, <1>6, <1>7, <1>8, Zenon DEF Next, Step

----------------------------------------------------------------------------
\* Theorems.

LEMMA ReadInit == Init => HistoryInv /\ HookInv /\ StepInv /\ CallInv /\ ModelVisibleIsLogged /\ ToolsObeyVerdicts
  <1> SUFFICES ASSUME Init
               PROVE  HistoryInv /\ HookInv /\ StepInv /\ CallInv /\ ModelVisibleIsLogged /\ ToolsObeyVerdicts
    BY Zenon
  <1>1. pc = "idle" /\ DOMAIN saw = {} /\ DOMAIN ran = {}
    BY DEF Init
  <1>2. \A k \in DOMAIN log : log[k].kind # "tool/result"
    BY DEF Init
  <1>3. HistoryInv /\ ModelVisibleIsLogged /\ ToolRunIsLogged
    BY <1>1, Zenon DEF HistoryInv, ModelVisibleIsLogged, ToolRunIsLogged
  <1>4. HookInv /\ StepInv /\ CallInv
    BY <1>1, Zenon DEF HookInv, StepInv, CallInv, At
  <1>5. ResultObeysVerdicts
    BY <1>2, Zenon DEF ResultObeysVerdicts
  <1> QED BY <1>3, <1>4, <1>5, Zenon DEF ToolsObeyVerdicts

LEMMA VisibleStep ==
    TypeOK /\ HistoryInv /\ StepInv /\ ModelVisibleIsLogged /\ [Next]_vars => ModelVisibleIsLogged'
  <1> SUFFICES ASSUME TypeOK, HistoryInv, StepInv, ModelVisibleIsLogged, [Next]_vars,
                      NEW i \in DOMAIN saw'
               PROVE  /\ log'[saw'[i].at].kind = "step/start"
                      /\ ~LoggedReject(log', saw'[i].at - 1, "pre_step")
                      /\ saw'[i].req = Outcome(log', saw'[i].at - 1, "pre_step", LoggedRequest(log', saw'[i].at - 1))
    BY Zenon DEF ModelVisibleIsLogged
  <1>1. IsLog(log) /\ Len(log) \in Nat
    BY AppendIs, Zenon DEF TypeOK
  <1>2. CASE UNCHANGED saw
    <2> DEFINE k == saw[i].at
    <2>0. k \in 1 .. Len(log) /\ k - 1 \in 0 .. Len(log)
      <3>1. k \in 1 .. Len(log)
        BY <1>2, Zenon DEF HistoryInv
      <3> QED BY <1>1, <3>1
    <2>1. /\ log[k].kind = "step/start"
          /\ ~LoggedReject(log, k - 1, "pre_step")
          /\ saw[i].req = Outcome(log, k - 1, "pre_step", LoggedRequest(log, k - 1))
      BY <1>2, Zenon DEF ModelVisibleIsLogged
    <2>2. CASE UNCHANGED log
      BY <1>2, <2>1, <2>2, Zenon
    <2>3. ASSUME NEW e, log' = Append(log, e)
          PROVE  /\ log'[k].kind = "step/start"
                 /\ ~LoggedReject(log', k - 1, "pre_step")
                 /\ saw[i].req = Outcome(log', k - 1, "pre_step", LoggedRequest(log', k - 1))
      <3> HIDE DEF k
      <3>1. log'[k] = log[k]
        BY <1>1, <2>0, <2>3, AppendIs
      <3>2. /\ LoggedReject(log', k - 1, "pre_step") <=> LoggedReject(log, k - 1, "pre_step")
            /\ \A o : Outcome(log', k - 1, "pre_step", o) = Outcome(log, k - 1, "pre_step", o)
            /\ LoggedRequest(log', k - 1) = LoggedRequest(log, k - 1)
        BY <1>1, <2>0, <2>3, ReadBackIsStable
      <3> QED BY <2>1, <3>1, <3>2, Zenon
    <2>4. UNCHANGED log \/ \E e : log' = Append(log, e)
      BY LogGrows, Zenon DEF vars
    <2> QED BY <1>2, <2>2, <2>3, <2>4, Zenon
  <1>3. CASE complete
    <2> DEFINE x == [req |-> subject, at |-> Len(log)]
    <2>1. saw' = Append(saw, x) /\ x.at = Len(log) /\ x.req = subject /\ log' = log /\ pc = "model"
      BY <1>3, Zenon DEF complete
    <2> HIDE DEF x
    <2>2. /\ Len(saw) \in Nat /\ DOMAIN saw = 1 .. Len(saw) /\ DOMAIN saw' = 1 .. Len(saw) + 1
          /\ \A j \in 1 .. Len(saw) : saw'[j] = saw[j]
          /\ saw'[Len(saw) + 1] = x
      <3>1. IsLog(saw)
        BY Zenon DEF TypeOK
      <3> QED BY <2>1, <3>1, AppendIs
    <2>3. CASE i \in DOMAIN saw
      <3>1. saw'[i] = saw[i]
        BY <2>2, <2>3, Zenon
      <3> QED BY <2>1, <2>3, <3>1, Zenon DEF ModelVisibleIsLogged
    <2>4. CASE i = Len(saw) + 1
      BY <2>1, <2>2, <2>4, Zenon DEF StepInv
    <2>5. i \in 1 .. Len(saw) \/ i = Len(saw) + 1
      BY <2>2
    <2> QED BY <2>2, <2>3, <2>4, <2>5, Zenon
  <1>4. complete \/ UNCHANGED saw
    BY Zenon DEF Next, Step, vars, RunTurn, turnStart, userMessage, buildRequest, judge, record, preStep, preTool,
           postTool, turnStopping, inject, stepStart, assistantMessage, toolCall, invoke,
           toolResult, stepEnd, turnEnd, Cancel, LogFails
  <1> QED BY <1>2, <1>3, <1>4, Zenon

\* Whatever reaches the model can be recomputed from the durable log: the
\* request buildRequest projected, with the pre_step verdicts applied.
THEOREM ModelVisibleAlwaysLogged == Spec => []ModelVisibleIsLogged
  BY InitType, TypeStep, ReadInit, HistoryStep, HookStep, StepStep, VisibleStep, PTL DEF Spec

LEMMA ToolRunStep ==
    TypeOK /\ HistoryInv /\ CallInv /\ ToolRunIsLogged /\ [Next]_vars => ToolRunIsLogged'
  <1> SUFFICES ASSUME TypeOK, HistoryInv, CallInv, ToolRunIsLogged, [Next]_vars,
                      NEW i \in DOMAIN ran'
               PROVE  /\ log'[GroupStart(log', ran'[i].at)].kind = "tool/call"
                      /\ ~LoggedReject(log', ran'[i].at, "pre_tool")
                      /\ ran'[i].call = Outcome(log', ran'[i].at, "pre_tool", log'[GroupStart(log', ran'[i].at)].val)
                      /\ \A j \in DOMAIN ran' : j # i => ran'[j].at # ran'[i].at
    BY Zenon DEF ToolRunIsLogged
  <1>1. IsLog(log) /\ Len(log) \in Nat
    BY AppendIs, Zenon DEF TypeOK
  <1>2. CASE UNCHANGED ran
    <2> DEFINE k == ran[i].at
               g == GroupStart(log, k)
    <2>0. k \in 1 .. Len(log) /\ k \in 0 .. Len(log)
      <3>1. k \in 1 .. Len(log)
        BY <1>2, Zenon DEF HistoryInv
      <3> QED BY <1>1, <3>1, SMTT(20)
    <2>1. /\ log[g].kind = "tool/call"
          /\ ~LoggedReject(log, k, "pre_tool")
          /\ ran[i].call = Outcome(log, k, "pre_tool", log[g].val)
          /\ \A j \in DOMAIN ran' : j # i => ran[j].at # k
      BY <1>2, Zenon DEF ToolRunIsLogged
    <2>2. CASE UNCHANGED log
      BY <1>2, <2>1, <2>2, Zenon
    <2>3. ASSUME NEW e, log' = Append(log, e)
          PROVE  /\ log'[GroupStart(log', k)].kind = "tool/call"
                 /\ ~LoggedReject(log', k, "pre_tool")
                 /\ ran[i].call = Outcome(log', k, "pre_tool", log'[GroupStart(log', k)].val)
      <3> HIDE DEF k
      <3>1. /\ GroupStart(log', k) = g
            /\ LoggedReject(log', k, "pre_tool") <=> LoggedReject(log, k, "pre_tool")
            /\ \A o : Outcome(log', k, "pre_tool", o) = Outcome(log, k, "pre_tool", o)
        BY <1>1, <2>0, <2>3, ReadBackIsStable
      <3>2. g \in 1 .. k
        BY <1>1, <2>0, StartIsLogged, Zenon DEF TypeOK
      <3> HIDE DEF g
      <3>3. g \in 1 .. Len(log)
        BY <1>1, <2>0, <3>2
      <3>4. log'[g] = log[g]
        BY <1>1, <2>3, <3>3, AppendIs
      <3> QED BY <2>1, <3>1, <3>4, Zenon
    <2>4. UNCHANGED log \/ \E e : log' = Append(log, e)
      BY LogGrows, Zenon DEF vars
    <2> QED BY <1>2, <2>1, <2>2, <2>3, <2>4, Zenon
  <1>3. CASE invoke
    <2> DEFINE x == [call |-> subject, at |-> Len(log)]
    <2>1. ran' = Append(ran, x) /\ x.at = Len(log) /\ x.call = subject /\ log' = log /\ pc = "invoke"
      BY <1>3, Zenon DEF invoke
    <2> HIDE DEF x
    <2>2. /\ Len(ran) \in Nat /\ DOMAIN ran = 1 .. Len(ran) /\ DOMAIN ran' = 1 .. Len(ran) + 1
          /\ \A j \in 1 .. Len(ran) : ran'[j] = ran[j]
          /\ ran'[Len(ran) + 1] = x
      BY <2>1, AppendIs DEF TypeOK
    <2>3. \A j \in DOMAIN ran : ran'[j] = ran[j] /\ ran[j].at < Len(log) /\ ran[j].at # Len(log)
      <3>1. Start \in 0 .. Len(log)
        BY <1>1, GroupStartIs, Zenon DEF Start
      <3>2. \A j \in DOMAIN ran : ran[j].at < Start /\ ran[j].at \in 1 .. Len(log)
        BY <2>1, Zenon DEF CallInv, HistoryInv
      <3>3. \A j \in DOMAIN ran : ran[j].at < Len(log) /\ ran[j].at # Len(log)
        BY <1>1, <3>1, <3>2
      <3> QED BY <2>2, <3>3, Zenon
    <2>4. DOMAIN ran' = DOMAIN ran \cup {Len(ran) + 1} /\ Len(ran) + 1 \notin DOMAIN ran
      BY <2>2
    <2>5. CASE i \in DOMAIN ran
      <3>1. ran'[i] = ran[i]
        BY <2>3, <2>5, Zenon
      <3>2. \A j \in DOMAIN ran' : j # i => ran'[j].at # ran'[i].at
        BY <2>1, <2>2, <2>3, <2>4, <2>5, <3>1, SMTT(20) DEF ToolRunIsLogged
      <3> QED BY <2>1, <2>5, <3>1, <3>2, Zenon DEF ToolRunIsLogged
    <2>6. CASE i = Len(ran) + 1
      <3>1. ran'[i] = x
        BY <2>2, <2>6, Zenon
      <3>2. \A j \in DOMAIN ran' : j # i => ran'[j].at # ran'[i].at
        BY <2>1, <2>3, <2>4, <2>6, <3>1, Zenon
      <3> QED BY <2>1, <3>1, <3>2, Zenon DEF CallInv, Start
    <2> QED BY <2>4, <2>5, <2>6, Zenon
  <1>4. invoke \/ UNCHANGED ran
    BY Zenon DEF Next, Step, vars, RunTurn, turnStart, userMessage, buildRequest, judge, record, preStep, preTool,
           postTool, turnStopping, inject, stepStart, assistantMessage, toolCall, complete,
           toolResult, stepEnd, turnEnd, Cancel, LogFails
  <1> QED BY <1>2, <1>3, <1>4, Zenon

\* What a tool/result says of the verdicts before it, at one position.
ResultAt(l, k) ==
    l[k].kind = "tool/result" =>
        /\ l[k].status = "rejected" <=> (LoggedReject(l, k - 1, "pre_tool") \/ LoggedReject(l, k - 1, "post_tool"))
        /\ l[k].status = "ok" => l[k].val = Outcome(l, k - 1, "post_tool", Token(<<"output">>))
        /\ l[GroupStart(l, k - 1)].kind = "tool/call"

\* Only runTool records a tool/result.
LEMMA OnlyToolResult ==
    ASSUME TypeOK, [Next]_vars, NEW e, log' = Append(log, e), e.kind = "tool/result"
    PROVE  pc = "result" /\ e = [kind |-> "tool/result", status |-> status, val |-> subject]
  <1>1. log' # log /\ log'[Len(log) + 1] = e
    <2>1. Len(log) \in Nat /\ Len(log') = Len(log) + 1 /\ log'[Len(log) + 1] = e
      BY AppendIs, Zenon DEF TypeOK
    <2> QED BY <2>1
  <1>2. ASSUME NEW f, Recorded(f) PROVE f = e
    <2>1. log'[Len(log) + 1] = f
      BY <1>2, AppendIs DEF TypeOK, Recorded
    <2> QED BY <1>1, <2>1, Zenon
  <1>3. ASSUME NEW f, f.kind # "tool/result", Recorded(f) PROVE FALSE
    BY <1>2, <1>3, Zenon
  <1>4. ASSUME NEW f, NEW next, f.kind # "tool/result", emit(f, next) PROVE FALSE
    BY <1>1, <1>3, <1>4, Zenon DEF emit, Lost
  <1>5. CASE UNCHANGED log
    BY <1>1, <1>5, Zenon
  <1>6. CASE turnStart \/ stepEnd \/ turnEnd
    <2>1. Recorded([kind |-> "turn/start"]) \/ Recorded([kind |-> "step/end"]) \/ Recorded([kind |-> "turn/end"])
      BY <1>1, <1>6, Zenon DEF turnStart, stepEnd, turnEnd, Lost
    <2> QED BY <2>1, <1>3, Zenon
  <1>7. CASE record
    <2>1. Verdict(n + 1).kind = "verdict"
      BY Zenon DEF Verdict
    <2> QED BY <1>1, <1>3, <1>7, <2>1, Zenon DEF record, Lost
  <1>8. CASE userMessage
    <2>1. emit([kind |-> "user", val |-> Token(<<"input", turns>>)], "preStep")
      BY <1>8, Zenon DEF userMessage
    <2> QED BY <2>1, <1>4, Zenon
  <1>9. CASE inject
    <2>1. emit([kind |-> "user", val |-> subject], "preStep")
      BY <1>9, Zenon DEF inject
    <2> QED BY <2>1, <1>4, Zenon
  <1>10. CASE stepStart
    <2>1. emit([kind |-> "step/start"], "model")
      BY <1>10, Zenon DEF stepStart
    <2> QED BY <2>1, <1>4, Zenon
  <1>11. CASE assistantMessage
    <2>1. emit([kind |-> "assistant", val |-> Token(<<"answer">>)], NextCall(calls))
      BY <1>11, Zenon DEF assistantMessage
    <2> QED BY <2>1, <1>4, Zenon
  <1>12. CASE toolCall
    <2>1. emit([kind |-> "tool/call", val |-> Token(<<"call", calls>>)], "judge")
      BY <1>12, Zenon DEF toolCall
    <2> QED BY <2>1, <1>4, Zenon
  <1>13. CASE toolResult
    BY <1>1, <1>2, <1>13, Zenon DEF toolResult, emit, Lost
  <1>14. \/ UNCHANGED log
         \/ turnStart \/ stepEnd \/ turnEnd \/ record \/ userMessage \/ inject \/ stepStart
         \/ assistantMessage \/ toolCall \/ toolResult
    BY Zenon DEF Next, Step, vars, RunTurn, buildRequest, judge, preStep, preTool, postTool, turnStopping,
           complete, invoke, Cancel, LogFails
  <1> QED BY <1>5, <1>6, <1>7, <1>8, <1>9, <1>10, <1>11, <1>12, <1>13, <1>14, Zenon

LEMMA ResultStep ==
    TypeOK /\ CallInv /\ ResultObeysVerdicts /\ [Next]_vars => ResultObeysVerdicts'
  <1> SUFFICES ASSUME TypeOK, CallInv, ResultObeysVerdicts, [Next]_vars, NEW k \in DOMAIN log'
               PROVE  ResultAt(log', k)
    BY Zenon DEF ResultObeysVerdicts, ResultAt
  <1>1. IsLog(log) /\ Len(log) \in Nat /\ DOMAIN log = 1 .. Len(log)
    BY AppendIs, Zenon DEF TypeOK
  <1>2. CASE UNCHANGED log
    BY <1>2, Zenon DEF ResultObeysVerdicts, ResultAt
  <1>3. ASSUME NEW e, log' = Append(log, e), k \in DOMAIN log PROVE ResultAt(log', k)
    <2>1. ResultAt(log, k)
      BY <1>3, Zenon DEF ResultObeysVerdicts, ResultAt
    <2>2. k \in 1 .. Len(log) /\ log'[k] = log[k]
      BY <1>1, <1>3, AppendIs
    <2>3. CASE k = 1
      BY <2>2, <2>3, Zenon DEF ResultAt, TypeOK
    <2>4. CASE k # 1
      <3>1. k - 1 \in 1 .. Len(log) /\ k - 1 \in 0 .. Len(log)
        BY <1>1, <2>2, <2>4
      <3> DEFINE g == GroupStart(log, k - 1)
      <3>2. /\ GroupStart(log', k - 1) = g
            /\ LoggedReject(log', k - 1, "pre_tool") <=> LoggedReject(log, k - 1, "pre_tool")
            /\ LoggedReject(log', k - 1, "post_tool") <=> LoggedReject(log, k - 1, "post_tool")
            /\ \A o : Outcome(log', k - 1, "post_tool", o) = Outcome(log, k - 1, "post_tool", o)
        BY <1>1, <1>3, <3>1, ReadBackIsStable
      <3>3. g \in 1 .. k - 1
        BY <1>1, <3>1, StartIsLogged, Zenon DEF TypeOK
      <3> HIDE DEF g
      <3>4. g \in 1 .. Len(log)
        BY <1>1, <3>1, <3>3
      <3>5. log'[g] = log[g]
        BY <1>1, <1>3, <3>4, AppendIs
      <3> QED BY <2>1, <2>2, <3>2, <3>5, Zenon DEF ResultAt, g
    <2> QED BY <2>3, <2>4, Zenon
  <1>4. ASSUME NEW e, log' = Append(log, e), k \notin DOMAIN log PROVE ResultAt(log', k)
    <2>1. k = Len(log) + 1 /\ log'[k] = e /\ k - 1 = Len(log)
      <3>1. DOMAIN log' = 1 .. Len(log) + 1 /\ log'[Len(log) + 1] = e
        BY <1>1, <1>4, AppendIs, Zenon
      <3>2. \A m \in Nat : \A j \in 1 .. m + 1 : j \notin 1 .. m => j = m + 1 /\ j - 1 = m
        OBVIOUS
      <3> QED BY <1>1, <1>4, <3>1, <3>2, Zenon
    <2>2. CASE e.kind = "tool/result"
      <3> DEFINE r == [kind |-> "tool/result", status |-> status, val |-> subject]
      <3>0. r.status = status /\ r.val = subject
        BY Zenon
      <3>1. pc = "result" /\ e = r
        BY <1>1, <1>4, <2>2, OnlyToolResult, Zenon DEF vars
      <3> HIDE DEF r
      <3>2. Len(log) \in 0 .. Len(log) /\ Len(log) \in 1 .. Len(log)
        BY <1>1 DEF TypeOK
      <3>3. /\ GroupStart(log', Len(log)) = Start
            /\ LoggedReject(log', Len(log), "pre_tool") <=> LoggedReject(log, Len(log), "pre_tool")
            /\ LoggedReject(log', Len(log), "post_tool") <=> LoggedReject(log, Len(log), "post_tool")
            /\ \A o : Outcome(log', Len(log), "post_tool", o) = Outcome(log, Len(log), "post_tool", o)
        BY <1>1, <1>4, <3>2, ReadBackIsStable DEF Start
      <3>4. Start \in 1 .. Len(log)
        BY <1>1, <3>2, StartIsLogged, Zenon DEF TypeOK, Start
      <3>5. log'[Start] = log[Start]
        BY <1>1, <1>4, <3>4, AppendIs, SMTT(20)
      <3> QED BY <2>1, <3>0, <3>1, <3>3, <3>5, Zenon DEF ResultAt, CallInv
    <2>3. CASE e.kind # "tool/result"
      BY <2>1, <2>3, Zenon DEF ResultAt
    <2> QED BY <2>2, <2>3, Zenon
  <1>5. UNCHANGED log \/ \E e : log' = Append(log, e)
    BY LogGrows, Zenon DEF vars
  <1> QED BY <1>2, <1>3, <1>4, <1>5, Zenon
\* A tool runs only as the log allows, once per logged call, and its result
\* in the log says what the verdicts before it decided: runTool.
THEOREM ToolsAlwaysObeyVerdicts == Spec => []ToolsObeyVerdicts
  <1> DEFINE Inv == TypeOK /\ HistoryInv /\ HookInv /\ CallInv /\ ToolRunIsLogged /\ ResultObeysVerdicts
  <1>1. Init => Inv
    BY InitType, ReadInit, Zenon DEF ToolsObeyVerdicts
  <1>2. Inv /\ [Next]_vars => Inv'
    BY TypeStep, HistoryStep, HookStep, CallStep, ToolRunStep, ResultStep, Zenon
  <1>3. Inv => ToolsObeyVerdicts
    BY Zenon DEF ToolsObeyVerdicts
  <1> QED BY <1>1, <1>2, <1>3, PTL DEF Spec

=============================================================================
