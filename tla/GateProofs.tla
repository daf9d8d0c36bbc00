---- MODULE GateProofs ----
(***************************************************************************)
(* What holds of Gate for every number of downloads, of parts and of       *)
(* connections, and every number of permits.                               *)
(***************************************************************************)
EXTENDS Gate, FiniteSetTheorems, TLAPS

-----------------------------------------------------------------------------
(* Parts *)

(* A part is a download and a number, and the head has two of them. *)
LEMMA PartsAre ==
    /\ \A s \in Streams : Of(s) \subseteq AllParts /\ HeadOf(s) \subseteq Of(s)
    /\ \A p \in AllParts : /\ p[1] \in Streams /\ p[2] \in Nat
                           /\ \A s \in Streams : p \in Of(s) <=> p[1] = s
    /\ \A p, q \in AllParts : p[1] = q[1] /\ p[2] = q[2] => p = q
<1>1. \A s \in Streams : Parts[s] \in Nat \ {0, 1}
  BY GateAssumption
<1>2. \A s \in Streams : Of(s) \subseteq AllParts
  BY DEF AllParts
<1>3. \A s \in Streams : HeadOf(s) \subseteq Of(s)
  BY <1>1 DEF HeadOf, Of, PartsOf, Indices
<1>4. \A p \in AllParts : \E s \in Streams : p \in Of(s)
  BY DEF AllParts
<1>5. \A s \in Streams : \A p \in Of(s) : p[1] = s /\ p[2] \in Nat /\ p = <<p[1], p[2]>>
  BY <1>1 DEF Of, PartsOf, Indices
<1>6. QED
  BY <1>2, <1>3, <1>4, <1>5

LEMMA PartsFinite ==
    ASSUME NEW S, S \subseteq AllParts
    PROVE  IsFiniteSet(S) /\ Cardinality(S) \in Nat
<1>1. ASSUME NEW s \in Streams PROVE IsFiniteSet(Of(s))
  <2>1. 1 \in Int /\ Parts[s] \in Int
    BY GateAssumption
  <2>2. IsFiniteSet({s}) /\ IsFiniteSet(Indices(s))
    BY <2>1, FS_Singleton, FS_Interval DEF Indices
  <2>3. QED
    BY <2>2, FS_Product DEF Of, PartsOf
<1>2. IsFiniteSet({Of(s) : s \in Streams})
  <2> DEFINE f == [s \in Streams |-> Of(s)]
  <2>1. f \in Surjection(Streams, {Of(s) : s \in Streams})
    BY DEF Surjection
  <2>2. QED
    BY <2>1, FS_Surjection, GateAssumption
<1>3. IsFiniteSet(AllParts)
  BY <1>1, <1>2, FS_UNION DEF AllParts
<1>4. QED
  BY <1>3, FS_Subset, FS_CardinalityType

(* The foremost part of a set is one of the set.                           *)
LEMMA ForemostIsIn ==
    ASSUME NEW P, P \subseteq AllParts, P # {}
    PROVE  Foremost(P) \in P
<1>1. P \subseteq AllParts
  OBVIOUS
<1> DEFINE N == {p[2] : p \in P}
<1>2. N \subseteq Nat /\ N # {}
  BY PartsAre
<1>3. \E n \in N : \A m \in N : ~ (<<m, n>> \in OpToRel(<, Nat))
  BY <1>2, NatLessThanWellFounded, WFMin
<1>4. PICK n \in N : \A m \in N : ~ (m < n)
  BY <1>2, <1>3 DEF OpToRel
<1>5. \E p \in P : \A q \in P : p[2] <= q[2]
  <2>1. PICK p \in P : n = p[2]
    OBVIOUS
  <2>2. \A q \in P : q[2] \in N /\ q[2] \in Nat
    BY PartsAre
  <2>3. \A q \in P : ~ (q[2] < p[2])
    BY <1>4, <2>1, <2>2
  <2>4. \A q \in P : p[2] <= q[2]
    BY <2>2, <2>3
  <2>5. QED
    BY <2>4
<1>6. QED
  BY <1>5 DEF Foremost

-----------------------------------------------------------------------------
(* Lines *)

(* In a line, where everyone knows who came before, the number of those    *)
(* with fewer than k before them is k, or all if the line is shorter.      *)
LEMMA FirstOfLine ==
    ASSUME NEW L, IsFiniteSet(L), NEW before, NEW k \in Nat,
           \A p \in L : before[p] \subseteq L /\ p \notin before[p],
           \A p, q \in L : p # q => p \in before[q] \/ q \in before[p],
           \A p, q \in L : q \in before[p] => before[q] \subseteq before[p]
    PROVE  Cardinality({p \in L : Cardinality(before[p]) < k}) =
               IF Cardinality(L) < k THEN Cardinality(L) ELSE k
<1> DEFINE n == Cardinality(L)
<1> DEFINE f == [p \in L |-> Cardinality(before[p])]
<1>1. n \in Nat /\ \A p \in L : IsFiniteSet(before[p]) /\ Cardinality(before[p]) \in Nat
  BY FS_CardinalityType, FS_Subset
<1>2. ASSUME NEW p \in L PROVE Cardinality(before[p]) < n
  <2>1. Cardinality(before[p]) <= n /\ (Cardinality(before[p]) = n => L = before[p])
    BY FS_Subset
  <2>2. QED
    BY <1>1, <2>1
<1>3. ASSUME NEW p \in L, NEW q \in L, p \in before[q]
      PROVE  Cardinality(before[p]) < Cardinality(before[q])
  <2>1. before[p] \in SUBSET before[q] /\ before[p] # before[q]
    BY <1>3
  <2>2. /\ Cardinality(before[p]) <= Cardinality(before[q])
        /\ Cardinality(before[q]) = Cardinality(before[p]) => before[q] = before[p]
    BY <1>1, <2>1, FS_Subset
  <2>3. QED
    BY <1>1, <2>1, <2>2
<1>4. f \in Injection(L, 0 .. n - 1)
  <2>1. f \in [L -> 0 .. n - 1]
    BY <1>1, <1>2
  <2>2. \A p, q \in L : p # q => f[p] # f[q]
    BY <1>1, <1>3
  <2>3. QED
    BY <2>1, <2>2 DEF Injection, IsInjective
<1>5. IsFiniteSet(0 .. n - 1) /\ Cardinality(0 .. n - 1) = n
  <2>1. 0 \in Int /\ n - 1 \in Int
    BY <1>1
  <2>2. QED
    BY <1>1, <2>1, FS_Interval
<1>6. f \in Surjection(L, 0 .. n - 1)
  BY <1>4, <1>5, FS_Injection
<1> DEFINE S == {p \in L : Cardinality(before[p]) < k}
<1>7. CASE n < k
  <2>1. S = L
    BY <1>1, <1>2, <1>7
  <2>2. QED
    BY <1>7, <2>1
<1>8. CASE ~ (n < k)
  <2> DEFINE g == [p \in S |-> Cardinality(before[p])]
  <2>1. g \in [S -> 0 .. k - 1]
    BY <1>1
  <2>2. g \in Injection(S, 0 .. k - 1)
    BY <1>4, <2>1 DEF Injection, IsInjective
  <2>3. g \in Surjection(S, 0 .. k - 1)
    <3>1. ASSUME NEW i \in 0 .. k - 1 PROVE \E p \in S : g[p] = i
      <4>1. i \in 0 .. n - 1
        BY <1>1, <1>8
      <4>2. PICK p \in L : f[p] = i
        BY <1>6, <4>1 DEF Surjection
      <4>3. QED
        BY <4>2
    <3>2. QED
      BY <2>1, <3>1 DEF Surjection
  <2>4. IsFiniteSet(0 .. k - 1) /\ Cardinality(0 .. k - 1) = k
    <3>1. 0 \in Int /\ k - 1 \in Int
      OBVIOUS
    <3>2. QED
      BY <3>1, FS_Interval
  <2>5. Cardinality(S) = k
    BY <2>2, <2>3, <2>4, FS_Injection
  <2>6. QED
    BY <1>8, <2>5
<1>9. QED
  BY <1>7, <1>8

-----------------------------------------------------------------------------
(* Stages *)

(* What the parts of a download may be at each stage of it.                *)
StageInv ==
    \A s \in Streams :
        /\ stage[s] = "idle" => \A p \in Of(s) : part[p] = "none"
        /\ stage[s] = "prime" =>
             \A p \in Of(s) : IF p \in HeadOf(s) THEN part[p] \notin {"none", "gone"}
                                                 ELSE part[p] = "none"
        /\ stage[s] = "pull" => \E p \in Of(s) : part[p] # "gone"
        /\ stage[s] = "ended" => \A p \in Of(s) : part[p] = "gone"

PlaceInv == \A p \in AllParts : conn[p] # None <=> part[p] \in AtGate

BaseInv == TypeOK /\ StageInv /\ PlaceInv

LEMMA PickSlotType == next \in Conns /\ PickSlot => next' \in Conns
<1> SUFFICES ASSUME next \in Conns, PickSlot PROVE next' \in Conns
  OBVIOUS
<1>1. Workers \in Nat \ {0} /\ next \in 0 .. Workers - 1 /\ next' = (next + 1) % Workers
  BY GateAssumption DEF Conns, PickSlot
<1>2. next' \in 0 .. Workers - 1
  BY <1>1
<1>3. QED
  BY <1>2 DEF Conns

LEMMA EndKeepsBase ==
    ASSUME BaseInv, NEW s \in Streams, End(s),
           UNCHANGED <<next, chan, client, pauses, errors>>
    PROVE  BaseInv'
<1>i. TypeOK /\ StageInv /\ PlaceInv
  BY DEF BaseInv
<1>1. 0 \in Conns
  BY GateAssumption DEF Conns
<1>2. TypeOK'
  BY <1>i, <1>1 DEF End, Goto, Become, Leave, TypeOK, Stages, States
<1>3. StageInv'
  <2>1. Of(s) \subseteq AllParts /\ \A p \in Of(s) : part'[p] = "gone"
    BY PartsAre DEF End, Become
  <2>2. \A t \in Streams \ {s} : \A p \in Of(t) : part'[p] = part[p]
    BY PartsAre DEF End, Become
  <2>3. stage' = [stage EXCEPT ![s] = "ended"]
    BY DEF End, Goto
  <2>4. QED
    BY <1>i, <2>1, <2>2, <2>3 DEF TypeOK, StageInv
<1>4. PlaceInv'
  BY <1>i DEF End, Become, Leave, TypeOK, PlaceInv, AtGate
<1>5. QED
  BY <1>2, <1>3, <1>4 DEF BaseInv

LEMMA AskHeadKeepsBase ==
    ASSUME BaseInv, NEW s \in Streams, NEW c \in Conns, AskHead(s, c), next' \in Conns,
           stage[s] \in {"idle", "prime"}, stage' = [stage EXCEPT ![s] = "prime"],
           UNCHANGED <<chan, client, pauses, errors>>
    PROVE  BaseInv'
<1>i. TypeOK /\ StageInv /\ PlaceInv
  BY DEF BaseInv
<1>1. HeadOf(s) \subseteq AllParts /\ Of(s) \subseteq AllParts
  BY PartsAre
<1>2. ahead' \in [AllParts -> SUBSET AllParts]
  BY <1>i, <1>1 DEF AskHead, Join, Line, TypeOK
<1>3. part' \in [AllParts -> States] /\ conn' \in [AllParts -> Conns \cup {None}]
  BY <1>i DEF AskHead, Become, Join, TypeOK, States
<1>4. TypeOK'
  BY <1>i, <1>2, <1>3 DEF AskHead, TypeOK, Stages
<1>5. StageInv'
  <2>1. \A p \in Of(s) : part'[p] = IF p \in HeadOf(s) THEN "lined" ELSE "none"
    BY <1>i, <1>1 DEF AskHead, Become, TypeOK, StageInv
  <2>2. \A t \in Streams \ {s} : \A p \in Of(t) : part'[p] = part[p]
    BY <1>i, <1>1, PartsAre DEF AskHead, Become, TypeOK
  <2>3. QED
    BY <1>i, <2>1, <2>2 DEF TypeOK, StageInv
<1>6. PlaceInv'
  <2>1. ASSUME NEW p \in AllParts PROVE conn'[p] # None <=> part'[p] \in AtGate
    <3>1. CASE p \in HeadOf(s)
      BY <3>1, <1>1, NoneAssumption DEF AskHead, Become, Join, AtGate
    <3>2. CASE p \in Of(s) \ HeadOf(s)
      BY <3>2, <1>i, <1>1 DEF AskHead, Become, Join, AtGate, StageInv
    <3>3. CASE p \notin Of(s)
      BY <3>3, <1>i, <1>1, PartsAre DEF AskHead, Become, Join, PlaceInv
    <3>4. QED
      BY <3>1, <3>2, <3>3
  <2>2. QED
    BY <2>1 DEF PlaceInv
<1>7. QED
  BY <1>4, <1>5, <1>6 DEF BaseInv

(* Steps that leave the parts and the lines alone and go on to a stage     *)
(* of the body, or go nowhere.                                             *)
LEMMA MoveKeepsBase ==
    ASSUME BaseInv, TypeOK', UNCHANGED <<part, conn>>, NEW s \in Streams,
           \/ stage' = stage
           \/ stage' = [stage EXCEPT ![s] = "top"]
           \/ stage' = [stage EXCEPT ![s] = "pull"] /\ \E p \in Of(s) : part[p] # "gone"
    PROVE  BaseInv'
<1>1. StageInv'
  BY DEF BaseInv, TypeOK, StageInv
<1>2. PlaceInv'
  BY DEF BaseInv, PlaceInv
<1>3. QED
  BY <1>1, <1>2 DEF BaseInv

(* A body that waits for the next window has one.                          *)
LEMMA WindowIsThere ==
    ASSUME BaseInv, NEW s \in Streams, stage[s] = "pull", Filled(s)
    PROVE  Foremost(Buffered(s)) \in Buffered(s)
<1>i. TypeOK /\ StageInv /\ PlaceInv
  BY DEF BaseInv
<1>1. Buffered(s) \subseteq AllParts
  BY PartsAre DEF Buffered
<1>2. CASE Unasked(s) = {}
  <2>1. Buffered(s) # {}
    BY <1>i, <1>2 DEF StageInv, Unasked, Buffered
  <2>2. QED
    BY <1>1, <2>1, ForemostIsIn
<1>3. CASE Cardinality(Buffered(s)) >= Depth
  <2>1. Buffered(s) # {}
    BY <1>3, FS_EmptySet, GateAssumption
  <2>2. QED
    BY <1>1, <2>1, ForemostIsIn
<1>4. QED
  BY <1>2, <1>3 DEF Filled

LEMMA BaseInit == Init => BaseInv
<1> SUFFICES ASSUME Init PROVE BaseInv
  OBVIOUS
<1>1. TypeOK
  BY GateAssumption DEF Init, TypeOK, Stages, States, Conns
<1>2. StageInv
  BY PartsAre DEF Init, StageInv
<1>3. PlaceInv
  BY DEF Init, PlaceInv, AtGate
<1>4. QED
  BY <1>1, <1>2, <1>3 DEF BaseInv

LEMMA BaseStep == BaseInv /\ [Next]_vars => BaseInv'
<1> SUFFICES ASSUME BaseInv, [Next]_vars PROVE BaseInv'
  OBVIOUS
<1>i. TypeOK /\ StageInv /\ PlaceInv
  BY DEF BaseInv
<1>c. 0 \in Conns /\ ChanCap \in Nat /\ MaxPauses \in Nat /\ MaxErrors \in Nat
  BY GateAssumption DEF Conns
<1>1. ASSUME NEW s \in Streams, Open(s) PROVE BaseInv'
  BY <1>i, <1>1, AskHeadKeepsBase, PickSlotType DEF Open, Goto, TypeOK
<1>2. ASSUME NEW s \in Streams, Retry(s) PROVE BaseInv'
  <2>1. stage' = [stage EXCEPT ![s] = "prime"] /\ stage[s] = "prime"
    BY <1>i, <1>2 DEF Retry, TypeOK
  <2>2. CASE AskHead(s, next) /\ PickSlot
    BY <1>i, <1>2, <2>1, <2>2, AskHeadKeepsBase, PickSlotType DEF Retry, TypeOK
  <2>3. CASE AskHead(s, slot[s]) /\ UNCHANGED next
    BY <1>i, <1>2, <2>1, <2>3, AskHeadKeepsBase DEF Retry, TypeOK
  <2>4. QED
    BY <1>2, <2>2, <2>3 DEF Retry
<1>3. ASSUME NEW s \in Streams, GiveUp(s) \/ Abandon(s) \/ Quit(s) \/ Finish(s) \/ Abort(s)
      PROVE  BaseInv'
  BY <1>3, EndKeepsBase DEF GiveUp, Abandon, Quit, Finish, Abort
<1>4. ASSUME NEW s \in Streams, Commit(s) PROVE BaseInv'
  <2>1. TypeOK'
    BY <1>i, <1>4, <1>c DEF Commit, Goto, Become, TypeOK, Stages, States
  <2>2. StageInv'
    <3>1. stage' = [stage EXCEPT ![s] = "emit"]
      BY <1>4 DEF Commit, Goto
    <3>2. \A t \in Streams \ {s} : \A p \in Of(t) : part'[p] = part[p]
      BY <1>4, PartsAre DEF Commit, Become
    <3>3. QED
      BY <1>i, <3>1, <3>2 DEF TypeOK, StageInv
  <2>3. \A p \in AllParts : part'[p] \in AtGate <=> part[p] \in AtGate
    BY <1>i, <1>4 DEF Commit, Become, AtGate
  <2>4. PlaceInv'
    BY <1>i, <1>4, <2>3 DEF Commit, PlaceInv
  <2>5. QED
    BY <2>1, <2>2, <2>4 DEF BaseInv
<1>5. ASSUME NEW s \in Streams, Emit(s) \/ Pull(s) PROVE BaseInv'
  <2>1. TypeOK'
    BY <1>i, <1>5, <1>c DEF Emit, Pull, Goto, TypeOK, Stages
  <2>2. QED
    BY <1>5, <2>1, MoveKeepsBase DEF Emit, Pull, Goto
<1>6. ASSUME NEW s \in Streams, Read(s) \/ Pause(s) \/ Resume(s) \/ Close(s) PROVE BaseInv'
  <2>1. TypeOK'
    BY <1>i, <1>6, <1>c DEF Read, Pause, Resume, Close, TypeOK
  <2>2. QED
    BY <1>6, <2>1, MoveKeepsBase DEF Read, Pause, Resume, Close
<1>7. ASSUME NEW s \in Streams, Issue(s) PROVE BaseInv'
  <2>1. PICK p : p = Foremost(Unasked(s))
    OBVIOUS
  <2>2. p \in Of(s) /\ p \in AllParts /\ part[p] = "none"
    <3>1. Unasked(s) # {} /\ Unasked(s) \subseteq AllParts
      BY <1>7, PartsAre DEF Issue, Filled, Unasked
    <3>2. QED
      BY <2>1, <3>1, ForemostIsIn, PartsAre DEF Unasked
  <2>3. /\ part' = [part EXCEPT ![p] = "lined"]
        /\ conn' = [conn EXCEPT ![p] = next]
        /\ ahead' = [ahead EXCEPT ![p] = Line(next)]
    BY <1>7, <2>1 DEF Issue
  <2>4. Line(next) \subseteq AllParts
    BY DEF Line
  <2>5. TypeOK'
    BY <1>i, <1>7, <2>2, <2>3, <2>4, PickSlotType DEF Issue, TypeOK, States
  <2>6. StageInv'
    BY <1>i, <1>7, <2>2, <2>3, PartsAre DEF Issue, TypeOK, StageInv
  <2>7. PlaceInv'
    BY <1>i, <2>2, <2>3, NoneAssumption DEF TypeOK, PlaceInv, AtGate
  <2>8. QED
    BY <2>5, <2>6, <2>7 DEF BaseInv
<1>8. ASSUME NEW s \in Streams, Yield(s) PROVE BaseInv'
  <2>1. PICK p : p = Foremost(Buffered(s))
    OBVIOUS
  <2>2. part[p] = "ready" /\ part' = [part EXCEPT ![p] = "gone"]
    BY <1>8, <2>1 DEF Yield
  <2>3. TypeOK'
    BY <1>i, <1>8, <2>2 DEF Yield, Goto, TypeOK, States, Stages
  <2>4. StageInv'
    <3>1. stage' = [stage EXCEPT ![s] = "emit"] /\ stage[s] = "pull"
      BY <1>8 DEF Yield, Goto
    <3>2. p \in Of(s)
      BY <1>8, <2>1, <3>1, WindowIsThere DEF Yield, Buffered
    <3>3. \A t \in Streams \ {s} : \A q \in Of(t) : part'[q] = part[q]
      BY <1>i, <2>2, <3>2, PartsAre DEF TypeOK
    <3>4. QED
      BY <1>i, <3>1, <3>3 DEF TypeOK, StageInv
  <2>5. PlaceInv'
    BY <1>i, <1>8, <2>2 DEF Yield, TypeOK, PlaceInv, AtGate
  <2>6. QED
    BY <2>3, <2>4, <2>5 DEF BaseInv
<1>9. ASSUME NEW s \in Streams, NEW p \in Of(s), Ask(p) \/ Reply(p) PROVE BaseInv'
  <2>1. p \in AllParts
    BY PartsAre
  <2>2. PICK what \in AtGate : part' = [part EXCEPT ![p] = what] /\ part[p] \in AtGate
    BY <1>9 DEF Ask, Reply, AtGate
  <2>3. TypeOK'
    BY <1>i, <1>9, <1>c, <2>1 DEF Ask, Reply, TypeOK, States
  <2>4. stage' = stage /\ conn' = conn
    BY <1>9 DEF Ask, Reply
  <2>5. StageInv'
    BY <1>i, <2>1, <2>2, <2>4, PartsAre DEF TypeOK, StageInv, AtGate
  <2>6. PlaceInv'
    BY <1>i, <2>1, <2>2, <2>4 DEF TypeOK, PlaceInv
  <2>7. QED
    BY <2>3, <2>5, <2>6 DEF BaseInv
<1>10. ASSUME NEW s \in Streams, NEW p \in Of(s), Return(p) PROVE BaseInv'
  <2>1. p \in AllParts
    BY PartsAre
  <2>2. PICK what \in {"ready", "bad"} : part' = [part EXCEPT ![p] = what]
    BY <1>10 DEF Return
  <2>3. TypeOK'
    BY <1>i, <1>10, <2>1, <2>2 DEF Return, Leave, TypeOK, States
  <2>4. StageInv'
    BY <1>i, <1>10, <2>1, <2>2, PartsAre DEF Return, TypeOK, StageInv
  <2>5. PlaceInv'
    BY <1>i, <1>10, <2>1, <2>2 DEF Return, Leave, TypeOK, PlaceInv, AtGate
  <2>6. QED
    BY <2>3, <2>4, <2>5 DEF BaseInv
<1>11. CASE UNCHANGED vars
  BY <1>i, <1>11 DEF vars, BaseInv, TypeOK, StageInv, PlaceInv
<1>12. QED
  BY <1>1, <1>2, <1>3, <1>4, <1>5, <1>6, <1>7, <1>8, <1>9, <1>10, <1>11 DEF Next, Work

(* Every variable keeps its type: BotEntry and the tasks of handle_download. *)
THEOREM GateTyped == Spec => []TypeOK
<1>1. BaseInv => TypeOK
  BY DEF BaseInv
<1>2. QED
  BY BaseInit, BaseStep, <1>1, PTL DEF Spec

-----------------------------------------------------------------------------
(* The gates *)

(* Who came before is known of everyone at a gate, and adds up to a line:  *)
(* they are at the same gate, of two at a gate one came first, and who     *)
(* came before somebody came before all that came after that one.          *)
LineInv ==
    /\ \A p \in AllParts : \A q \in ahead[p] :
        /\ q \in AllParts /\ q # p /\ conn[p] # None /\ conn[q] = conn[p]
        /\ ahead[q] \subseteq ahead[p]
    /\ \A p, q \in AllParts :
        p # q /\ conn[p] # None /\ conn[p] = conn[q] => p \in ahead[q] \/ q \in ahead[p]

(* What is out has a permit. *)
OutInv ==
    \A p \in AllParts :
        part[p] \in {"asked", "replied", "failed"} => Cardinality(ahead[p]) < Inflight

GateInv == BaseInv /\ LineInv /\ OutInv

LEMMA LeaveKeepsLine ==
    ASSUME TypeOK, LineInv, NEW P \in SUBSET AllParts, Leave(P)
    PROVE  LineInv' /\ \A p \in AllParts : ahead'[p] \subseteq ahead[p]
BY DEF TypeOK, LineInv, Leave

LEMMA JoinKeepsLine ==
    ASSUME TypeOK, LineInv, NEW s \in Streams, NEW P \in SUBSET Of(s), NEW c \in Conns,
           Join(s, P, c)
    PROVE  LineInv' /\ \A p \in AllParts \ P : ahead'[p] \subseteq ahead[p]
<1> DEFINE before == Line(c) \ Of(s)
<1>1. P \subseteq AllParts /\ Of(s) \subseteq AllParts /\ c # None
  BY PartsAre, NoneAssumption
<1>2. \A p \in P : p[2] \in Nat
  BY <1>1, PartsAre
<1>3. \A p, q \in P : p[2] = q[2] => p = q
  BY <1>1, PartsAre
<1>4. \A p \in P : conn'[p] = c /\ ahead'[p] = before \cup {q \in P : q[2] < p[2]}
  BY <1>1 DEF Join
<1>5. \A p \in Of(s) \ P : conn'[p] = None /\ ahead'[p] = {}
  BY <1>1 DEF Join
<1>6. \A p \in AllParts \ Of(s) : conn'[p] = conn[p] /\ ahead'[p] = ahead[p] \ Of(s)
  BY <1>1 DEF Join
<1>7. \A q \in before : q \in AllParts \ Of(s) /\ conn[q] = c /\ ahead[q] \subseteq Line(c)
  BY DEF Line, LineInv
<1>8. ASSUME NEW p \in AllParts, NEW q \in ahead'[p]
      PROVE  /\ q \in AllParts /\ q # p /\ conn'[p] # None /\ conn'[q] = conn'[p]
             /\ ahead'[q] \subseteq ahead'[p]
  <2>1. CASE p \in P /\ q \in before
    BY <1>1, <1>4, <1>6, <1>7, <2>1
  <2>2. CASE p \in P /\ q \in P
    <3>1. q[2] < p[2]
      BY <1>4, <1>7, <1>8, <2>2
    <3>2. \A r \in P : r[2] < q[2] => r[2] < p[2]
      BY <1>2, <2>2, <3>1
    <3>3. q # p
      BY <1>2, <2>2, <3>1
    <3>4. QED
      BY <1>1, <1>4, <2>2, <3>2, <3>3
  <2>3. CASE p \notin Of(s)
    <3>1. q \in ahead[p] /\ q \notin Of(s)
      BY <1>6, <1>8, <2>3
    <3>2. QED
      BY <1>6, <2>3, <3>1 DEF LineInv
  <2>4. QED
    BY <1>4, <1>5, <1>8, <2>1, <2>2, <2>3
<1>9. ASSUME NEW p \in AllParts, NEW q \in AllParts,
             p # q, conn'[p] # None, conn'[p] = conn'[q]
      PROVE  p \in ahead'[q] \/ q \in ahead'[p]
  <2>1. p \notin Of(s) \ P /\ q \notin Of(s) \ P
    BY <1>5, <1>9
  <2>2. CASE p \in P /\ q \in P
    <3>1. p[2] < q[2] \/ q[2] < p[2]
      BY <1>2, <1>3, <1>9, <2>2
    <3>2. QED
      BY <1>4, <2>2, <3>1
  <2>3. CASE p \in P /\ q \notin Of(s)
    <3>1. q \in before
      BY <1>4, <1>6, <1>9, <2>3 DEF Line
    <3>2. QED
      BY <1>4, <2>3, <3>1
  <2>4. CASE q \in P /\ p \notin Of(s)
    <3>1. p \in before
      BY <1>4, <1>6, <1>9, <2>4 DEF Line
    <3>2. QED
      BY <1>4, <2>4, <3>1
  <2>5. CASE p \notin Of(s) /\ q \notin Of(s)
    BY <1>6, <1>9, <2>5 DEF LineInv
  <2>6. QED
    BY <2>1, <2>2, <2>3, <2>4, <2>5
<1>10. \A p \in AllParts \ P : ahead'[p] \subseteq ahead[p]
  BY <1>5, <1>6
<1>11. QED
  BY <1>8, <1>9, <1>10 DEF LineInv

(* A part that is at no gate goes to the end of a line.                    *)
LEMMA EnterKeepsLine ==
    ASSUME TypeOK, LineInv, NEW p \in AllParts, NEW c \in Conns, conn[p] = None,
           conn' = [conn EXCEPT ![p] = c], ahead' = [ahead EXCEPT ![p] = Line(c)]
    PROVE  LineInv'
<1>1. c # None /\ p \notin Line(c)
  BY NoneAssumption DEF Line
<1>2. \A q \in AllParts : p \notin ahead[q]
  BY DEF LineInv
<1>3. \A q \in Line(c) : q \in AllParts /\ q # p /\ conn[q] = c /\ ahead[q] \subseteq Line(c)
  BY <1>1 DEF Line, LineInv
<1>4. conn'[p] = c /\ ahead'[p] = Line(c)
  BY DEF TypeOK
<1>5. \A q \in AllParts \ {p} : conn'[q] = conn[q] /\ ahead'[q] = ahead[q]
  BY DEF TypeOK
<1>6. ASSUME NEW q \in AllParts, NEW r \in ahead'[q]
      PROVE  /\ r \in AllParts /\ r # q /\ conn'[q] # None /\ conn'[r] = conn'[q]
             /\ ahead'[r] \subseteq ahead'[q]
  <2>1. CASE q = p
    BY <1>1, <1>3, <1>4, <1>5, <1>6, <2>1
  <2>2. CASE q # p
    BY <1>2, <1>5, <1>6, <2>2 DEF LineInv
  <2>3. QED
    BY <2>1, <2>2
<1>7. ASSUME NEW q \in AllParts, NEW r \in AllParts,
             q # r, conn'[q] # None, conn'[q] = conn'[r]
      PROVE  q \in ahead'[r] \/ r \in ahead'[q]
  BY <1>4, <1>5, <1>7 DEF Line, LineInv
<1>8. QED
  BY <1>6, <1>7 DEF LineInv

(* Whose line only gets shorter keeps its permit.                          *)
LEMMA ShorterKeepsOut ==
    ASSUME TypeOK, OutInv,
           \A p \in AllParts : part'[p] \in {"asked", "replied", "failed"} =>
               /\ ahead'[p] \subseteq ahead[p]
               /\ \/ part[p] \in {"asked", "replied", "failed"}
                  \/ Cardinality(ahead[p]) < Inflight
    PROVE  OutInv'
<1> SUFFICES ASSUME NEW p \in AllParts, part'[p] \in {"asked", "replied", "failed"}
             PROVE  Cardinality(ahead'[p]) < Inflight
  BY DEF OutInv
<1>1. Cardinality(ahead[p]) < Inflight
  BY DEF OutInv
<1>2. ahead[p] \subseteq AllParts /\ ahead'[p] \in SUBSET ahead[p]
  BY DEF TypeOK
<1>3. /\ Cardinality(ahead[p]) \in Nat /\ Cardinality(ahead'[p]) \in Nat
      /\ Cardinality(ahead'[p]) <= Cardinality(ahead[p])
  BY <1>2, PartsFinite, FS_Subset
<1>4. QED
  BY <1>1, <1>3, GateAssumption

LEMMA GateInit == Init => LineInv /\ OutInv
BY DEF Init, LineInv, OutInv

LEMMA GateStep == GateInv /\ BaseInv' /\ [Next]_vars => GateInv'
<1> SUFFICES ASSUME GateInv, BaseInv', [Next]_vars PROVE LineInv' /\ OutInv'
  BY DEF GateInv
<1>i. BaseInv /\ TypeOK /\ StageInv /\ PlaceInv /\ LineInv /\ OutInv
  BY DEF GateInv, BaseInv
<1>1. ASSUME NEW s \in Streams, NEW c \in Conns, AskHead(s, c) PROVE LineInv' /\ OutInv'
  <2>1. HeadOf(s) \in SUBSET Of(s) /\ HeadOf(s) \subseteq AllParts
    BY PartsAre
  <2>2. LineInv' /\ \A p \in AllParts \ HeadOf(s) : ahead'[p] \subseteq ahead[p]
    BY <1>i, <1>1, <2>1, JoinKeepsLine DEF AskHead
  <2>3. \A p \in AllParts : part'[p] = IF p \in HeadOf(s) THEN "lined" ELSE part[p]
    BY <1>1 DEF AskHead, Become
  <2>4. QED
    BY <1>i, <2>2, <2>3, ShorterKeepsOut
<1>2. ASSUME NEW s \in Streams, Open(s) \/ Retry(s) PROVE LineInv' /\ OutInv'
  BY <1>i, <1>1, <1>2 DEF Open, Retry, TypeOK
<1>3. ASSUME NEW s \in Streams, End(s) PROVE LineInv' /\ OutInv'
  <2>1. Of(s) \in SUBSET AllParts
    BY PartsAre
  <2>2. LineInv' /\ \A p \in AllParts : ahead'[p] \subseteq ahead[p]
    BY <1>i, <1>3, <2>1, LeaveKeepsLine DEF End
  <2>3. \A p \in AllParts : part'[p] \in {"gone", part[p]}
    BY <1>3 DEF End, Become
  <2>4. QED
    BY <1>i, <2>2, <2>3, ShorterKeepsOut
<1>4. ASSUME NEW s \in Streams, GiveUp(s) \/ Abandon(s) \/ Quit(s) \/ Finish(s) \/ Abort(s)
      PROVE  LineInv' /\ OutInv'
  BY <1>3, <1>4 DEF GiveUp, Abandon, Quit, Finish, Abort
<1>5. ASSUME UNCHANGED <<conn, ahead>>,
             \A p \in AllParts : part'[p] \in {part[p], "gone"}
      PROVE  LineInv' /\ OutInv'
  <2>1. LineInv'
    BY <1>i, <1>5 DEF LineInv
  <2>2. OutInv'
    BY <1>i, <1>5 DEF OutInv
  <2>3. QED
    BY <2>1, <2>2
<1>6. ASSUME NEW s \in Streams,
             \/ Commit(s) \/ Emit(s) \/ Pull(s) \/ Yield(s)
             \/ Read(s) \/ Pause(s) \/ Resume(s) \/ Close(s)
      PROVE  LineInv' /\ OutInv'
  <2>1. UNCHANGED <<conn, ahead>>
    BY <1>6 DEF Commit, Emit, Pull, Yield, Read, Pause, Resume, Close
  <2>2. \A p \in AllParts : part'[p] \in {part[p], "gone"}
    BY <1>i, <1>6
    DEF Commit, Become, Emit, Pull, Yield, Read, Pause, Resume, Close, TypeOK
  <2>3. QED
    BY <1>5, <2>1, <2>2
<1>7. ASSUME NEW s \in Streams, Issue(s) PROVE LineInv' /\ OutInv'
  <2>1. PICK p : p = Foremost(Unasked(s))
    OBVIOUS
  <2>2. p \in AllParts /\ part[p] = "none"
    <3>1. Unasked(s) # {} /\ Unasked(s) \subseteq AllParts
      BY <1>7, PartsAre DEF Issue, Filled, Unasked
    <3>2. QED
      BY <2>1, <3>1, ForemostIsIn DEF Unasked
  <2>3. /\ part' = [part EXCEPT ![p] = "lined"]
        /\ conn' = [conn EXCEPT ![p] = next]
        /\ ahead' = [ahead EXCEPT ![p] = Line(next)]
    BY <1>7, <2>1 DEF Issue
  <2>4. conn[p] = None
    BY <1>i, <2>2 DEF PlaceInv, AtGate
  <2>5. LineInv'
    BY <1>i, <2>2, <2>3, <2>4, EnterKeepsLine DEF TypeOK
  <2>6. OutInv'
    BY <1>i, <2>2, <2>3 DEF TypeOK, OutInv
  <2>7. QED
    BY <2>5, <2>6
<1>8. ASSUME NEW s \in Streams, NEW p \in Of(s), Ask(p) \/ Reply(p) PROVE LineInv' /\ OutInv'
  <2>1. p \in AllParts /\ UNCHANGED <<conn, ahead>>
    BY <1>8, PartsAre DEF Ask, Reply
  <2>2. LineInv'
    BY <1>i, <2>1 DEF LineInv
  <2>3. OutInv'
    BY <1>i, <1>8, <2>1 DEF Ask, Reply, Permitted, TypeOK, OutInv
  <2>4. QED
    BY <2>2, <2>3
<1>9. ASSUME NEW s \in Streams, NEW p \in Of(s), Return(p) PROVE LineInv' /\ OutInv'
  <2>1. p \in AllParts /\ {p} \in SUBSET AllParts
    BY PartsAre
  <2>2. LineInv' /\ \A q \in AllParts : ahead'[q] \subseteq ahead[q]
    BY <1>i, <1>9, <2>1, LeaveKeepsLine DEF Return
  <2>3. \A q \in AllParts : part'[q] \in {part[q], "ready", "bad"}
    BY <1>i, <1>9, <2>1 DEF Return, TypeOK
  <2>4. QED
    BY <1>i, <2>2, <2>3, ShorterKeepsOut
<1>10. CASE UNCHANGED vars
  BY <1>5, <1>10 DEF vars
<1>11. QED
  BY <1>2, <1>4, <1>6, <1>7, <1>8, <1>9, <1>10 DEF Next, Work

LEMMA PermitsCount ==
    ASSUME TypeOK, LineInv, NEW c \in Conns
    PROVE  Cardinality({p \in Line(c) : Permitted(p)}) =
               IF Cardinality(Line(c)) < Inflight THEN Cardinality(Line(c)) ELSE Inflight
<1> DEFINE L == Line(c)
<1>1. L \subseteq AllParts /\ IsFiniteSet(L) /\ \A p \in L : conn[p] = c /\ conn[p] # None
  BY PartsFinite, NoneAssumption DEF Line
<1>2. \A p \in L : ahead[p] \subseteq L /\ p \notin ahead[p]
  BY <1>1 DEF LineInv, Line
<1>3. \A p, q \in L : p # q => p \in ahead[q] \/ q \in ahead[p]
  BY <1>1 DEF LineInv
<1>4. \A p, q \in L : q \in ahead[p] => ahead[q] \subseteq ahead[p]
  BY <1>1 DEF LineInv
<1>5. Cardinality({p \in L : Cardinality(ahead[p]) < Inflight}) =
          IF Cardinality(L) < Inflight THEN Cardinality(L) ELSE Inflight
  <2>1. Inflight \in Nat
    BY GateAssumption
  <2> HIDE DEF L
  <2>2. QED
    BY <1>1, <1>2, <1>3, <1>4, <2>1, FirstOfLine
<1>6. {p \in L : Permitted(p)} = {p \in L : Cardinality(ahead[p]) < Inflight}
  BY <1>1 DEF Permitted
<1>7. QED
  BY <1>5, <1>6

(* No permit leaks, is made up or lies idle: fetch_range_core's gates      *)
(* through every drop of a future.                                         *)
THEOREM GatesAreExact == Spec => []GateIsExact
<1>1. GateInv => GateIsExact
  <2> SUFFICES ASSUME GateInv PROVE GateIsExact
    OBVIOUS
  <2>i. TypeOK /\ StageInv /\ PlaceInv /\ LineInv /\ OutInv
    BY DEF GateInv, BaseInv
  <2>1. ASSUME NEW p \in AllParts, part[p] \in {"asked", "replied", "failed"}
        PROVE  Permitted(p)
    BY <2>i, <2>1 DEF PlaceInv, AtGate, OutInv, Permitted
  <2>2. ASSUME NEW p \in AllParts PROVE conn[p] # None <=> Live(p[1]) /\ part[p] \in AtGate
    BY <2>i, PartsAre DEF PlaceInv, StageInv, Live, AtGate
  <2>3. QED
    BY <2>i, <2>1, <2>2, PermitsCount DEF GateIsExact
<1>2. Init => GateInv
  BY BaseInit, GateInit DEF GateInv
<1>3. GateInv /\ [Next]_vars => GateInv'
  BY BaseStep, GateStep DEF GateInv
<1>4. QED
  BY <1>1, <1>2, <1>3, PTL DEF Spec

-----------------------------------------------------------------------------
(* Waiting *)

(* Whoever is in line at a gate has somebody there with a permit.          *)
LEMMA SomebodyHolds ==
    ASSUME TypeOK, LineInv, NEW c \in Conns, NEW p \in Line(c)
    PROVE  Holders(c) # {}
<1>1. Line(c) \subseteq AllParts /\ IsFiniteSet(Line(c)) /\ Cardinality(Line(c)) \in Nat
  BY PartsFinite, FS_CardinalityType DEF Line
<1>2. Cardinality(Line(c)) # 0
  BY <1>1, FS_EmptySet
<1>3. Cardinality(Holders(c)) # 0
  BY <1>1, <1>2, PermitsCount, GateAssumption DEF Holders
<1>4. QED
  BY <1>3, FS_EmptySet

(* A part that is polled and has a permit goes on.                         *)
LEMMA PolledHolderMoves ==
    ASSUME PlaceInv, NEW s \in Streams, NEW p \in Of(s), Permitted(p), Polled(p)
    PROVE  CanMove(s)
<1>1. part[p] \in AtGate
  BY PartsAre DEF PlaceInv, Permitted
<1>2. QED
  BY <1>1 DEF CanMove, AtGate

(* Whoever holds a permit can go on, or waits for its own client alone.    *)
LEMMA HolderMoves ==
    ASSUME BaseInv, NEW s \in Streams, NEW p \in Of(s), Permitted(p)
    PROVE  CanMove(s) \/ Stopped(s)
<1>i. TypeOK /\ StageInv /\ PlaceInv
  BY DEF BaseInv
<1>1. part[p] \in AtGate /\ p[1] = s
  BY <1>i, PartsAre DEF PlaceInv, Permitted
<1>2. stage[s] \in {"prime", "emit", "top", "pull"}
  BY <1>i, <1>1 DEF TypeOK, Stages, StageInv, AtGate
<1>3. CASE stage[s] = "prime" \/ (stage[s] = "pull" /\ Filled(s))
  BY <1>i, <1>1, <1>3, PolledHolderMoves DEF Polled
<1>4. CASE stage[s] = "top" \/ (stage[s] = "pull" /\ ~ Filled(s))
  BY <1>4 DEF CanMove
<1>5. CASE stage[s] = "emit"
  <2>1. /\ chan[s] \in 0 .. ChanCap /\ client[s] \in {"reading", "paused", "closed"}
        /\ ChanCap \in Nat \ {0}
    BY <1>i, GateAssumption DEF TypeOK
  <2>2. CASE client[s] = "closed" \/ chan[s] < ChanCap
    BY <1>5, <2>2 DEF CanMove
  <2>3. CASE client[s] = "reading" /\ chan[s] = ChanCap
    BY <2>1, <2>3 DEF CanMove
  <2>4. CASE client[s] = "paused"
    BY <1>5, <2>4 DEF Stopped
  <2>5. QED
    BY <2>1, <2>2, <2>3, <2>4
<1>6. QED
  BY <1>2, <1>3, <1>4, <1>5

(* Who is held up, and not by its client, is polling all it has.           *)
LEMMA HeldUpPolls ==
    ASSUME BaseInv, NEW s \in Streams, Live(s), ~ CanMove(s), ~ Stopped(s)
    PROVE  /\ stage[s] = "prime" \/ (stage[s] = "pull" /\ Filled(s))
           /\ \A p \in Of(s) : Polled(p) /\ ~ Permitted(p)
<1>i. TypeOK /\ StageInv /\ PlaceInv
  BY DEF BaseInv
<1>1. stage[s] \in {"prime", "emit", "top", "pull"}
  BY <1>i DEF TypeOK, Stages, Live
<1>2. stage[s] # "emit"
  <2>1. /\ chan[s] \in 0 .. ChanCap /\ client[s] \in {"reading", "paused", "closed"}
        /\ ChanCap \in Nat \ {0}
    BY <1>i, GateAssumption DEF TypeOK
  <2>2. QED
    BY <2>1 DEF CanMove, Stopped
<1>3. stage[s] = "prime" \/ (stage[s] = "pull" /\ Filled(s))
  BY <1>1, <1>2 DEF CanMove
<1>4. \A p \in Of(s) : Polled(p)
  BY <1>3, PartsAre DEF Polled
<1>5. QED
  BY <1>i, <1>3, <1>4, PolledHolderMoves

(* ... and has a part that waits for a permit.                             *)
LEMMA HeldUpWaits ==
    ASSUME BaseInv, NEW s \in Streams, Live(s), ~ CanMove(s), ~ Stopped(s)
    PROVE  \E p \in Of(s) : part[p] = "lined"
<1>i. TypeOK /\ StageInv /\ PlaceInv
  BY DEF BaseInv
<1>1. \A p \in Of(s) : Polled(p)
  BY HeldUpPolls
<1>2. ASSUME NEW p \in Of(s), part[p] \notin {"none", "ready", "bad", "gone"}
      PROVE  part[p] = "lined"
  BY <1>i, <1>1, <1>2, PartsAre DEF TypeOK, States, CanMove
<1>3. CASE stage[s] = "prime"
  <2>1. PICK p \in HeadOf(s) : part[p] # "ready"
    BY <1>3 DEF CanMove
  <2>2. p \in Of(s) /\ part[p] \notin {"none", "ready", "bad", "gone"}
    BY <1>i, <1>3, <2>1, PartsAre DEF StageInv, CanMove
  <2>3. QED
    BY <1>2, <2>2
<1>4. CASE stage[s] = "pull" /\ Filled(s)
  <2>1. PICK p \in Buffered(s) : p = Foremost(Buffered(s))
    BY <1>4, WindowIsThere
  <2>2. p \in Of(s) /\ part[p] \notin {"none", "ready", "bad", "gone"}
    BY <1>4, <2>1 DEF Buffered, CanMove
  <2>3. QED
    BY <1>2, <2>2
<1>5. QED
  BY <1>3, <1>4, HeldUpPolls

(* No two downloads, nor any number of them, wait for each other: a chain   *)
(* of waits has one link, and at its end is somebody who can go on or whose *)
(* client is paused.                                                        *)
THEOREM WaitsHaveEnds == Spec => []NoCircle
<1>1. ASSUME GateInv, NEW s \in Streams, Live(s), ~ CanMove(s), ~ Stopped(s),
             NEW p \in Of(s), part[p] = "lined"
      PROVE  /\ Holders(conn[p]) # {}
             /\ \A q \in Holders(conn[p]) : q[1] # s /\ (CanMove(q[1]) \/ Stopped(q[1]))
  <2>i. BaseInv /\ TypeOK /\ PlaceInv /\ LineInv
    BY <1>1 DEF GateInv, BaseInv
  <2>1. p \in AllParts /\ conn[p] \in Conns /\ p \in Line(conn[p])
    BY <1>1, <2>i, PartsAre DEF TypeOK, PlaceInv, AtGate, Line
  <2>2. Holders(conn[p]) # {}
    BY <2>i, <2>1, SomebodyHolds
  <2>3. ASSUME NEW q \in Holders(conn[p])
        PROVE  q[1] # s /\ (CanMove(q[1]) \/ Stopped(q[1]))
    <3>1. PICK t \in Streams : q \in Of(t)
      BY PartsAre DEF Holders, Line
    <3>2. q[1] = t /\ Permitted(q)
      BY <3>1, PartsAre DEF Holders
    <3>3. t # s
      BY <1>1, <2>i, <3>1, <3>2, HeldUpPolls
    <3>4. CanMove(t) \/ Stopped(t)
      BY <2>i, <3>1, <3>2, HolderMoves
    <3>5. QED
      BY <3>2, <3>3, <3>4
  <2>4. QED
    BY <2>2, <2>3
<1>2. GateInv => NoCircle
  BY <1>1, HeldUpWaits DEF NoCircle, GateInv
<1>3. Init => GateInv
  BY BaseInit, GateInit DEF GateInv
<1>4. GateInv /\ [Next]_vars => GateInv'
  BY BaseStep, GateStep DEF GateInv
<1>5. QED
  BY <1>2, <1>3, <1>4, PTL DEF Spec

-----------------------------------------------------------------------------
(* The semaphore behind a gate *)

(* The places at a gate.                                                   *)
Lined == {p \in AllParts : conn[p] # None}

LEMMA SameCardinality == \A S : Fair!Cardinality(S) = Cardinality(S)
BY DEF Fair!Cardinality, Cardinality

LEMMA PlacesAre == Fair!Place = AllParts /\ Fair!Taken = Lined
<1>1. Fair!Place = AllParts
  BY DEF Fair!Place, AllParts, Of
<1>2. QED
  BY <1>1 DEF Fair!Taken, Lined

(* A part keeps its permit when none comes before it that did not.         *)
LEMMA ShorterPermitted ==
    ASSUME TypeOK, TypeOK', NEW p \in AllParts, NEW q \in AllParts,
           Cardinality(ahead[p]) < Inflight, ahead'[q] \subseteq ahead[p]
    PROVE  Cardinality(ahead'[q]) < Inflight
<1>1. ahead[p] \subseteq AllParts /\ ahead'[q] \in SUBSET ahead[p]
  BY DEF TypeOK
<1>2. /\ Cardinality(ahead[p]) \in Nat /\ Cardinality(ahead'[q]) \in Nat
      /\ Cardinality(ahead'[q]) <= Cardinality(ahead[p])
  BY <1>1, PartsFinite, FS_Subset
<1>3. QED
  BY <1>2, GateAssumption

(* Each gate has as many permits out as it has, or places.                 *)
PermitsExact ==
    \A c \in Conns : Cardinality({p \in Out : conn[p] = c}) =
                     Fair!Least(Inflight, Cardinality({p \in AllParts : conn[p] = c}))

LEMMA PermitsOut == TypeOK /\ LineInv => PermitsExact
<1> SUFFICES ASSUME TypeOK, LineInv, NEW c \in Conns
             PROVE  Cardinality({p \in Out : conn[p] = c}) =
                        Fair!Least(Inflight, Cardinality({p \in AllParts : conn[p] = c}))
  BY DEF PermitsExact
<1>1. {p \in Out : conn[p] = c} = {p \in Line(c) : Permitted(p)}
  BY DEF Out, Line
<1>2. /\ {p \in AllParts : conn[p] = c} = Line(c)
      /\ Cardinality(Line(c)) \in Nat /\ Inflight \in Nat
  BY PartsFinite, GateAssumption DEF Line
<1>3. QED
  BY <1>1, <1>2, PermitsCount DEF Fair!Least

(* A step in which download s drops some places, takes others at the ends  *)
(* of their lines, and leaves the rest in place is one of a semaphore.     *)
LEMMA StepServes ==
    ASSUME TypeOK, TypeOK', LineInv, LineInv',
           NEW s \in Streams, NEW dropped \in SUBSET (Of(s) \cap Lined),
           \A p \in Lined \ dropped : conn'[p] = conn[p] /\ ahead'[p] = ahead[p] \ dropped,
           \A p \in AllParts \ (Lined \ dropped) : conn'[p] # None =>
               p \in Of(s) /\ \A q \in Lined \ dropped : conn[q] = conn'[p] => q \in ahead'[p],
           PermitsExact'
    PROVE  Fair!Serve(s, dropped)
<1> DEFINE stay == Lined \ dropped
<1> DEFINE before(p) == IF p \in stay THEN First[p] \cap stay
                        ELSE {q \in stay : conn[q] = conn'[p]}
<1>1. \A p \in AllParts : IF p \in stay THEN conn'[p] = conn[p]
                          ELSE conn'[p] # None => p \in Of(s)
  OBVIOUS
<1>2. Out \cap stay \subseteq Out'
  <2>1. ASSUME NEW p \in Out, p \in stay PROVE p \in Out'
    <3>1. p \in AllParts /\ conn'[p] # None /\ ahead'[p] \subseteq ahead[p]
      BY <2>1 DEF Out, Lined
    <3>2. Cardinality(ahead[p]) < Inflight
      BY DEF Out, Permitted
    <3>3. Cardinality(ahead'[p]) < Inflight
      BY <3>1, <3>2, ShorterPermitted
    <3>4. QED
      BY <3>1, <3>3 DEF Out, Permitted
  <2>2. QED
    BY <2>1
<1>3. Out' \subseteq Lined'
  BY DEF Out, Permitted, Lined
(* Whoever comes before one that has a permit has one.                     *)
<1>4. ASSUME NEW p \in Out', NEW q \in ahead'[p] PROVE q \in Out'
  <2>1. /\ p \in AllParts /\ q \in AllParts /\ ahead'[q] \subseteq ahead'[p]
        /\ conn'[q] # None
    BY DEF Out, Permitted, LineInv
  <2>2. Cardinality(ahead'[p]) < Inflight
    BY DEF Out, Permitted
  <2>3. Cardinality(ahead'[q]) < Inflight
    <3>1. ahead'[p] \subseteq AllParts /\ ahead'[q] \in SUBSET ahead'[p]
      BY <2>1 DEF TypeOK
    <3>2. /\ Cardinality(ahead'[p]) \in Nat /\ Cardinality(ahead'[q]) \in Nat
          /\ Cardinality(ahead'[q]) <= Cardinality(ahead'[p])
      BY <3>1, PartsFinite, FS_Subset
    <3>3. QED
      BY <2>2, <3>2, GateAssumption
  <2>4. QED
    BY <2>1, <2>3 DEF Out, Permitted
(* Of those that stay, p has before it those that were.                    *)
<1>5. ASSUME NEW p \in Lined' PROVE before(p) \subseteq ahead'[p]
  <2>1. CASE p \in stay
    <3>1. ahead'[p] = ahead[p] \ dropped /\ p \in AllParts
      BY <2>1 DEF Lined
    <3>2. First[p] \subseteq ahead[p]
      BY <3>1 DEF First
    <3>3. QED
      BY <2>1, <3>1, <3>2
  <2>2. CASE p \notin stay
    BY <2>2 DEF Lined
  <2>3. QED
    BY <2>1, <2>2
<1>6. \A p \in Out' \ (Out \cap stay) : before(p) \subseteq Out'
  BY <1>3, <1>4, <1>5
<1>7. ASSUME NEW p \in Lined' \ Out'
      PROVE  /\ First'[p] \cap stay = before(p) \ Out'
             /\ \A q \in First'[p] \ stay : p \notin stay /\ conn'[q] = conn'[p] /\ q \notin Out'
  <2>0. p \in AllParts /\ p \in Lined' /\ p \notin Out'
    BY DEF Lined
  <2>1. First'[p] = {q \in ahead'[p] : q \notin Out'}
    <3>1. \A q \in ahead'[p] : q \in AllParts
      BY <2>0 DEF LineInv
    <3>2. First'[p] = {q \in ahead'[p] : ~ (Permitted(p)' \/ Permitted(q)')}
      BY <2>0 DEF First
    <3>3. \A q \in AllParts : Permitted(q)' <=> q \in Out'
      BY DEF Out
    <3>4. QED
      BY <2>0, <3>1, <3>2, <3>3
  <2>2. CASE p \in stay
    <3>1. p \notin Out
      BY <1>2, <2>0, <2>2
    <3>2. \A q \in ahead[p] : q \in Lined
      BY <2>0 DEF LineInv, Lined
    <3>3. First[p] = {q \in ahead[p] : q \notin Out}
      BY <2>0, <3>1, <3>2 DEF First, Out, Lined
    <3>4. ahead'[p] = ahead[p] \ dropped
      BY <2>2
    <3>5. ahead'[p] \subseteq stay
      BY <3>2, <3>4
    <3>6. First'[p] \cap stay = before(p) \ Out'
      BY <1>2, <2>1, <2>2, <3>3, <3>4, <3>5
    <3>7. First'[p] \ stay = {}
      BY <2>1, <3>5
    <3>8. QED
      BY <3>6, <3>7
  <2>3. CASE p \notin stay
    <3>1. \A q \in ahead'[p] : conn'[q] = conn'[p]
      BY <2>0 DEF LineInv
    <3>2. \A q \in stay : q \in ahead'[p] <=> conn[q] = conn'[p]
      BY <1>5, <2>0, <2>3, <3>1
    <3>3. First'[p] \cap stay = before(p) \ Out'
      BY <2>1, <2>3, <3>2
    <3>4. QED
      BY <2>1, <2>3, <3>1, <3>3
  <2>4. QED
    BY <2>2, <2>3
(* In the semaphore's terms:                                               *)
<1> DEFINE stays == Fair!Taken \ dropped
<1>8. /\ Fair!Place = AllParts /\ stays = stay /\ Fair!Taken' = Lined' /\ PartsOf[s] = Of(s)
  BY PlacesAre DEF Fair!Taken, Lined, Of
<1>9. \A p \in Fair!Place : IF p \in stays THEN conn'[p] = conn[p]
                            ELSE conn'[p] # None => p \in PartsOf[s]
  BY <1>1, <1>8
<1>10. Out \cap stays \subseteq Out' /\ Out' \subseteq Fair!Taken'
  BY <1>2, <1>3, <1>8
<1>11. \A c \in Conns : Fair!Cardinality({p \in Out' : conn'[p] = c}) =
               Fair!Least(Inflight, Fair!Cardinality({p \in Fair!Place : conn'[p] = c}))
  <2>1. \A c \in Conns : {p \in Fair!Place : conn'[p] = c} = {p \in AllParts : conn'[p] = c}
    BY <1>8
  <2>2. QED
    BY <2>1, SameCardinality DEF PermitsExact
<1>12. \A p \in Out' \ (Out \cap stays) :
           (IF p \in stays THEN First[p] \cap stays ELSE {q \in stays : conn[q] = conn'[p]})
               \subseteq Out'
  BY <1>6, <1>8
<1>13. \A p \in Fair!Taken' \ Out' :
           /\ First'[p] \cap stays =
                  (IF p \in stays THEN First[p] \cap stays
                   ELSE {q \in stays : conn[q] = conn'[p]}) \ Out'
           /\ \A q \in First'[p] \ stays :
                  p \notin stays /\ conn'[q] = conn'[p] /\ q \notin Out'
  BY <1>7, <1>8
<1>14. QED
  BY <1>9, <1>10, <1>11, <1>12, <1>13, Zenon DEF Fair!Serve


LEMMA StepStutters ==
    ASSUME TypeOK, conn' = conn, \A p \in AllParts : ahead'[p] = ahead[p]
    PROVE  UNCHANGED Fair!vars
<1>1. \A p \in AllParts : Permitted(p)' = Permitted(p)
  BY DEF Permitted
<1>2. Out' = Out
  BY <1>1 DEF Out
<1>3. First' = First
  <2>1. ASSUME NEW p \in AllParts
        PROVE  {q \in ahead'[p] : ~ (Permitted(p)' \/ Permitted(q)')} =
                   {q \in ahead[p] : ~ (Permitted(p) \/ Permitted(q))}
    BY <1>1 DEF TypeOK
  <2>2. QED
    BY <2>1 DEF First
<1>4. QED
  BY <1>2, <1>3 DEF Fair!vars

(* What the steps of Gate are to the semaphores.                           *)
LEMMA FairStep ==
    GateInv /\ GateInv' /\ PermitsExact' /\ [Next]_vars => [Fair!Next]_Fair!vars
<1> SUFFICES ASSUME GateInv, GateInv', PermitsExact', [Next]_vars
             PROVE  Fair!Next \/ UNCHANGED Fair!vars
  OBVIOUS
<1>i. TypeOK /\ PlaceInv /\ LineInv /\ TypeOK' /\ LineInv'
  BY DEF GateInv, BaseInv
<1>s. ASSUME NEW s \in Streams, NEW dropped \in SUBSET (Of(s) \cap Lined), conn' # conn,
             Fair!Serve(s, dropped)
      PROVE  Fair!Next
  BY <1>s, PlacesAre DEF Fair!Next, Of
<1>1. ASSUME NEW s \in Streams, NEW c \in Conns, AskHead(s, c), \E p \in HeadOf(s) : conn[p] = None
      PROVE  Fair!Next
  <2> DEFINE dropped == Of(s) \cap Lined
  <2>1. HeadOf(s) \subseteq Of(s) /\ Of(s) \subseteq AllParts /\ c # None
    BY PartsAre, NoneAssumption
  <2>2. \A p \in HeadOf(s) : conn'[p] = c /\ Line(c) \ Of(s) \subseteq ahead'[p]
    BY <1>1, <2>1 DEF AskHead, Join
  <2>3. \A p \in Of(s) \ HeadOf(s) : conn'[p] = None
    BY <1>1, <2>1 DEF AskHead, Join
  <2>4. \A p \in AllParts \ Of(s) : conn'[p] = conn[p] /\ ahead'[p] = ahead[p] \ Of(s)
    BY <1>1, <2>1 DEF AskHead, Join
  <2>5. conn' # conn
    BY <1>1, <2>1, <2>2
  <2>6. \A p \in Lined \ dropped : conn'[p] = conn[p] /\ ahead'[p] = ahead[p] \ dropped
    BY <1>i, <2>4 DEF Lined, LineInv
  <2>7. ASSUME NEW p \in AllParts \ (Lined \ dropped), conn'[p] # None
        PROVE  p \in Of(s) /\ \A q \in Lined \ dropped : conn[q] = conn'[p] => q \in ahead'[p]
    <3>1. p \in HeadOf(s)
      BY <2>3, <2>4, <2>7 DEF Lined
    <3>2. QED
      BY <2>1, <2>2, <3>1 DEF Lined, Line
  <2>8. Fair!Serve(s, dropped)
    BY <1>i, <2>6, <2>7, StepServes
  <2>9. QED
    BY <1>s, <2>5, <2>8
<1>2. ASSUME NEW s \in Streams, Open(s) \/ Retry(s) PROVE Fair!Next
  <2>1. \E p \in HeadOf(s) : conn[p] = None
    <3>1. <<s, 1>> \in HeadOf(s) /\ HeadOf(s) \subseteq Of(s) /\ Of(s) \subseteq AllParts
      BY PartsAre DEF HeadOf
    <3>2. CASE Open(s)
      BY <1>i, <3>1, <3>2 DEF Open, GateInv, BaseInv, StageInv, PlaceInv, AtGate
    <3>3. CASE Retry(s)
      BY <1>i, <3>1, <3>3 DEF Retry, PlaceInv, AtGate
    <3>4. QED
      BY <1>2, <3>2, <3>3
  <2>2. \E c \in Conns : AskHead(s, c)
    BY <1>i, <1>2 DEF Open, Retry, TypeOK
  <2>3. QED
    BY <1>1, <2>1, <2>2
(* Parts of one download leave.                                            *)
<1>3. ASSUME NEW s \in Streams, NEW P \in SUBSET Of(s), Leave(P)
      PROVE  Fair!Next \/ UNCHANGED Fair!vars
  <2> DEFINE dropped == P \cap Lined
  <2>1. Of(s) \subseteq AllParts
    BY PartsAre
  <2>2. \A p \in AllParts : IF p \in P THEN conn'[p] = None /\ ahead'[p] = {}
                            ELSE conn'[p] = conn[p] /\ ahead'[p] = ahead[p] \ P
    BY <1>3 DEF Leave
  <2>3. CASE dropped = {}
    <3>1. \A p \in AllParts : conn'[p] = conn[p]
      BY <2>2, <2>3 DEF Lined
    <3>2. conn' = conn
      BY <1>i, <3>1 DEF TypeOK
    <3>3. ASSUME NEW p \in AllParts PROVE ahead'[p] = ahead[p]
      <4>1. \A q \in ahead[p] : q \in Lined /\ p \in Lined
        BY <1>i DEF LineInv, Lined
      <4>2. \A q \in P : q \notin Lined
        BY <2>3
      <4>3. QED
        BY <2>2, <4>1, <4>2
    <3>4. QED
      BY <1>i, <3>2, <3>3, StepStutters
  <2>4. CASE dropped # {}
    <3>1. conn' # conn
      BY <2>1, <2>2, <2>4 DEF Lined
    <3>2. \A p \in Lined \ dropped : conn'[p] = conn[p] /\ ahead'[p] = ahead[p] \ dropped
      BY <1>i, <2>2 DEF Lined, LineInv
    <3>3. \A p \in AllParts \ (Lined \ dropped) : conn'[p] = None
      BY <2>2 DEF Lined
    <3>4. Fair!Serve(s, dropped)
      BY <1>i, <3>2, <3>3, StepServes
    <3>5. QED
      BY <1>s, <3>1, <3>4
  <2>5. QED
    BY <2>3, <2>4
<1>4. ASSUME NEW s \in Streams, GiveUp(s) \/ Abandon(s) \/ Quit(s) \/ Finish(s) \/ Abort(s)
      PROVE  Fair!Next \/ UNCHANGED Fair!vars
  <2>1. Leave(Of(s))
    BY <1>4 DEF GiveUp, Abandon, Quit, Finish, Abort, End
  <2>2. QED
    BY <1>3, <2>1
<1>5. ASSUME NEW s \in Streams, NEW p \in Of(s), Return(p)
      PROVE  Fair!Next \/ UNCHANGED Fair!vars
  <2>1. Leave({p}) /\ {p} \in SUBSET Of(s)
    BY <1>5 DEF Return
  <2>2. QED
    BY <1>3, <2>1
<1>6. ASSUME NEW s \in Streams, Issue(s) PROVE Fair!Next
  <2>1. PICK p : p = Foremost(Unasked(s))
    OBVIOUS
  <2>2. p \in Of(s) /\ p \in AllParts /\ part[p] = "none"
    <3>1. Unasked(s) # {} /\ Unasked(s) \subseteq AllParts
      BY <1>6, PartsAre DEF Issue, Filled, Unasked
    <3>2. QED
      BY <2>1, <3>1, ForemostIsIn, PartsAre DEF Unasked
  <2>3. conn' = [conn EXCEPT ![p] = next] /\ ahead' = [ahead EXCEPT ![p] = Line(next)]
    BY <1>6, <2>1 DEF Issue
  <2>4. conn[p] = None /\ next # None /\ p \notin Lined
    BY <1>i, <2>2, NoneAssumption DEF PlaceInv, AtGate, TypeOK, Lined
  <2>5. conn' # conn
    BY <1>i, <2>2, <2>3, <2>4 DEF TypeOK
  <2>6. \A q \in Lined : conn'[q] = conn[q] /\ ahead'[q] = ahead[q] \ {}
    BY <1>i, <2>3, <2>4 DEF TypeOK, Lined
  <2>7. ASSUME NEW q \in AllParts \ Lined, conn'[q] # None
        PROVE  q \in Of(s) /\ \A r \in Lined : conn[r] = conn'[q] => r \in ahead'[q]
    <3>1. q = p
      BY <1>i, <2>3, <2>7 DEF Lined, TypeOK
    <3>2. conn'[p] = next /\ ahead'[p] = Line(next)
      BY <1>i, <2>2, <2>3 DEF TypeOK
    <3>3. QED
      BY <2>2, <3>1, <3>2 DEF Lined, Line
  <2>8. Fair!Serve(s, {})
    BY <1>i, <2>6, <2>7, StepServes
  <2>9. QED
    BY <1>s, <2>5, <2>8
<1>7. CASE UNCHANGED <<conn, ahead>>
  BY <1>i, <1>7, StepStutters
<1>8. ASSUME NEW s \in Streams,
             \/ Commit(s) \/ Emit(s) \/ Pull(s) \/ Yield(s)
             \/ Read(s) \/ Pause(s) \/ Resume(s) \/ Close(s)
             \/ \E p \in Of(s) : Ask(p) \/ Reply(p)
      PROVE  UNCHANGED <<conn, ahead>>
  BY <1>8 DEF Commit, Emit, Pull, Yield, Read, Pause, Resume, Close, Ask, Reply
<1>9. CASE UNCHANGED vars
  BY <1>7, <1>9 DEF vars
<1>10. QED
  BY <1>2, <1>4, <1>5, <1>6, <1>7, <1>8, <1>9 DEF Next, Work

(* Every connection's gate is a fair semaphore to the downloads that share *)
(* it, for any number of them, of connections and of permits: no download  *)
(* costs another its permit or its turn, however its futures end.          *)
THEOREM GatesStayFair == Spec => GatesAreFair
<1>1. Init => Fair!Init
  <2> SUFFICES ASSUME Init PROVE Fair!Init
    OBVIOUS
  <2>1. Out = {}
    BY DEF Init, Out, Permitted
  <2>2. \A p \in AllParts : {q \in ahead[p] : ~ (Permitted(p) \/ Permitted(q))} = {}
    BY DEF Init
  <2>3. First = [p \in AllParts |-> {}]
    BY <2>2 DEF First
  <2>4. conn = [p \in AllParts |-> None]
    BY DEF Init
  <2>5. QED
    BY <2>1, <2>3, <2>4, PlacesAre DEF Fair!Init
<1>2. Init => GateInv
  BY BaseInit, GateInit DEF GateInv
<1>3. GateInv /\ [Next]_vars => GateInv'
  BY BaseStep, GateStep DEF GateInv
<1>4. GateInv => PermitsExact
  BY PermitsOut DEF GateInv, BaseInv
<1>5. QED
  BY <1>1, <1>2, <1>3, <1>4, FairStep, PTL DEF Spec, GatesAreFair, Fair!Spec

-----------------------------------------------------------------------------
(* The body's memory *)

(* The stages of the body. *)
Body == {"emit", "top", "pull"}

(* buffered() and the window in hand are within the pipeline. *)
DepthInv ==
    \A s \in Streams : stage[s] \in Body => Cardinality(Buffered(s)) + InHand(s) <= Depth

BoundInv == BaseInv /\ DepthInv

(* A download stays within its pipeline if its stage stays as it is and    *)
(* its parts are counted as before.                                        *)
LEMMA SameCount ==
    ASSUME DepthInv, NEW s \in Streams, stage'[s] = stage[s],
           \A p \in Of(s) : part'[p] \in {"none", "gone"} <=> part[p] \in {"none", "gone"}
    PROVE  stage'[s] \in Body => Cardinality(Buffered(s)') + InHand(s)' <= Depth
<1>1. Buffered(s)' = Buffered(s)
  BY DEF Buffered
<1>2. InHand(s)' = InHand(s)
  BY DEF InHand
<1>3. QED
  BY <1>1, <1>2 DEF DepthInv

LEMMA BufferedType ==
    ASSUME NEW s \in Streams
    PROVE  /\ Buffered(s) \subseteq AllParts /\ IsFiniteSet(Buffered(s))
           /\ Cardinality(Buffered(s)) \in Nat
<1>1. Buffered(s) \subseteq AllParts
  BY PartsAre DEF Buffered
<1>2. QED
  BY <1>1, PartsFinite

LEMMA BoundStep == BoundInv /\ BaseInv' /\ [Next]_vars => BoundInv'
<1> SUFFICES ASSUME BoundInv, BaseInv', [Next]_vars PROVE DepthInv'
  BY DEF BoundInv
<1>i. BaseInv /\ TypeOK /\ StageInv /\ DepthInv
  BY DEF BoundInv, BaseInv
<1>d. Depth \in Nat \ {0}
  BY GateAssumption
(* It is enough to look at the download that steps.                        *)
<1>s. ASSUME NEW s \in Streams,
             stage'[s] \in Body => Cardinality(Buffered(s)') + InHand(s)' <= Depth,
             \A t \in Streams \ {s} :
                 stage'[t] = stage[t] /\ \A p \in Of(t) : part'[p] = part[p]
      PROVE  DepthInv'
  <2>1. ASSUME NEW t \in Streams
        PROVE  stage'[t] \in Body => Cardinality(Buffered(t)') + InHand(t)' <= Depth
    BY <1>i, <1>s, <2>1, SameCount
  <2>2. QED
    BY <2>1 DEF DepthInv
<1>1. ASSUME NEW s \in Streams, Open(s) \/ Retry(s) PROVE DepthInv'
  <2>1. stage'[s] = "prime" /\ \A t \in Streams \ {s} : stage'[t] = stage[t]
    BY <1>i, <1>1 DEF Open, Retry, Goto, TypeOK
  <2>2. \A t \in Streams \ {s} : \A p \in Of(t) : part'[p] = part[p]
    BY <1>1, PartsAre DEF Open, Retry, AskHead, Become
  <2>3. QED
    BY <1>s, <2>1, <2>2 DEF Body
<1>2. ASSUME NEW s \in Streams, End(s) PROVE DepthInv'
  <2>1. stage'[s] = "ended" /\ \A t \in Streams \ {s} : stage'[t] = stage[t]
    BY <1>i, <1>2 DEF End, Goto, TypeOK
  <2>2. \A t \in Streams \ {s} : \A p \in Of(t) : part'[p] = part[p]
    BY <1>2, PartsAre DEF End, Become
  <2>3. QED
    BY <1>s, <2>1, <2>2 DEF Body
<1>3. ASSUME NEW s \in Streams, GiveUp(s) \/ Abandon(s) \/ Quit(s) \/ Finish(s) \/ Abort(s)
      PROVE  DepthInv'
  BY <1>2, <1>3 DEF GiveUp, Abandon, Quit, Finish, Abort
<1>4. ASSUME NEW s \in Streams, Commit(s) PROVE DepthInv'
  <2>1. stage'[s] = "emit" /\ \A t \in Streams \ {s} : stage'[t] = stage[t]
    BY <1>i, <1>4 DEF Commit, Goto, TypeOK
  <2>2. \A t \in Streams \ {s} : \A p \in Of(t) : part'[p] = part[p]
    BY <1>4, PartsAre DEF Commit, Become
  <2>3. \A p \in Of(s) : part'[p] \in {"none", "gone"}
    BY <1>i, <1>4, PartsAre DEF Commit, Become, StageInv
  <2>4. Buffered(s)' = {}
    BY <2>3 DEF Buffered
  <2>5. Cardinality(Buffered(s)') + InHand(s)' <= Depth
    BY <1>d, <2>1, <2>4, FS_EmptySet DEF InHand
  <2>6. QED
    BY <1>s, <2>1, <2>2, <2>5
<1>5. ASSUME NEW s \in Streams, Emit(s) \/ Pull(s) PROVE DepthInv'
  <2>1. /\ part' = part /\ stage[s] \in Body /\ stage'[s] \in {"top", "pull"}
        /\ \A t \in Streams \ {s} : stage'[t] = stage[t]
    BY <1>i, <1>5 DEF Emit, Pull, Goto, TypeOK, Body
  <2>2. Buffered(s)' = Buffered(s)
    BY <2>1 DEF Buffered
  <2>3. Cardinality(Buffered(s)') + InHand(s)' <= Depth
    <3>1. InHand(s)' = 0 /\ InHand(s) \in {0, 1}
      BY <2>1 DEF InHand
    <3>2. Cardinality(Buffered(s)) + InHand(s) <= Depth /\ Cardinality(Buffered(s)) \in Nat
      BY <1>i, <2>1, BufferedType DEF DepthInv
    <3>3. QED
      BY <1>d, <2>2, <3>1, <3>2
  <2>4. QED
    BY <1>s, <2>1, <2>3
<1>6. ASSUME NEW s \in Streams, Issue(s) PROVE DepthInv'
  <2>1. PICK p : p = Foremost(Unasked(s))
    OBVIOUS
  <2>2. p \in Of(s) /\ part[p] = "none"
    <3>1. Unasked(s) # {} /\ Unasked(s) \subseteq AllParts
      BY <1>6, PartsAre DEF Issue, Filled, Unasked
    <3>2. QED
      BY <2>1, <3>1, ForemostIsIn DEF Unasked
  <2>3. part' = [part EXCEPT ![p] = "lined"] /\ stage' = stage /\ stage[s] = "pull"
    BY <1>6, <2>1 DEF Issue
  <2>4. p \in AllParts /\ p \notin Buffered(s)
    BY <2>2, PartsAre DEF Buffered
  <2>5. Buffered(s)' = Buffered(s) \cup {p}
    BY <1>i, <2>2, <2>3, <2>4, PartsAre DEF TypeOK, Buffered
  <2>6. Cardinality(Buffered(s)) < Depth
    BY <1>6, <1>d, BufferedType DEF Issue, Filled
  <2>7. Cardinality(Buffered(s)') + InHand(s)' <= Depth
    <3>1. Cardinality(Buffered(s)') = Cardinality(Buffered(s)) + 1
      BY <2>4, <2>5, BufferedType, FS_AddElement
    <3>2. InHand(s)' = 0 /\ Cardinality(Buffered(s)) \in Nat
      BY <2>3, BufferedType DEF InHand
    <3>3. QED
      BY <1>d, <2>6, <3>1, <3>2
  <2>8. \A t \in Streams \ {s} : \A q \in Of(t) : part'[q] = part[q]
    BY <1>i, <2>2, <2>3, <2>4, PartsAre DEF TypeOK
  <2>9. QED
    BY <1>s, <2>3, <2>7, <2>8
<1>7. ASSUME NEW s \in Streams, Yield(s) PROVE DepthInv'
  <2>1. PICK p \in Buffered(s) : part' = [part EXCEPT ![p] = "gone"]
    BY <1>i, <1>7, WindowIsThere DEF Yield
  <2>2. p \in Of(s) /\ p \in AllParts
    BY <2>1, PartsAre DEF Buffered
  <2>3. stage[s] = "pull" /\ stage' = [stage EXCEPT ![s] = "emit"]
    BY <1>7 DEF Yield, Goto
  <2>4. Buffered(s)' = Buffered(s) \ {p}
    BY <1>i, <2>1, <2>2, PartsAre DEF TypeOK, Buffered
  <2>5. Cardinality(Buffered(s)) <= Depth
    BY <1>i, <1>d, <2>3, BufferedType DEF DepthInv, InHand, Body
  <2>6. Cardinality(Buffered(s)') = Cardinality(Buffered(s)) - 1
    BY <2>1, <2>4, BufferedType, FS_RemoveElement
  <2>7. Cardinality(Buffered(s)') + InHand(s)' <= Depth
    BY <1>i, <1>d, <2>3, <2>5, <2>6, BufferedType DEF TypeOK, InHand
  <2>8. \A t \in Streams \ {s} : \A q \in Of(t) : part'[q] = part[q]
    BY <1>i, <2>1, <2>2, PartsAre DEF TypeOK
  <2>9. QED
    BY <1>i, <1>s, <2>3, <2>7, <2>8 DEF TypeOK
<1>8. ASSUME NEW s \in Streams, NEW p \in Of(s), Ask(p) \/ Reply(p) \/ Return(p)
      PROVE  DepthInv'
  <2>1. p \in AllParts
    BY PartsAre
  <2>2. /\ stage' = stage
        /\ \A q \in AllParts \ {p} : part'[q] = part[q]
        /\ part[p] \notin {"none", "gone"} /\ part'[p] \notin {"none", "gone"}
    BY <1>i, <1>8, <2>1 DEF Ask, Reply, Return, TypeOK
  <2>3. \A t \in Streams : \A q \in Of(t) :
            part'[q] \in {"none", "gone"} <=> part[q] \in {"none", "gone"}
    BY <2>2, PartsAre
  <2>4. QED
    BY <1>i, <2>2, <2>3, SameCount DEF DepthInv
<1>9. ASSUME UNCHANGED <<stage, part>> PROVE DepthInv'
  BY <1>i, <1>9, SameCount DEF DepthInv
<1>10. ASSUME NEW s \in Streams, Read(s) \/ Pause(s) \/ Resume(s) \/ Close(s) PROVE DepthInv'
  BY <1>9, <1>10 DEF Read, Pause, Resume, Close
<1>11. CASE UNCHANGED vars
  BY <1>9, <1>11 DEF vars
<1>12. QED
  BY <1>1, <1>3, <1>4, <1>5, <1>6, <1>7, <1>8, <1>10, <1>11 DEF Next, Work

(* However slow its client, a body holds no more in memory than its        *)
(* pipeline and its channel, and no more places at the gates: buffered()   *)
(* and tx.send of handle_download.                                         *)
THEOREM BodyBounded == Spec => []BodyIsBounded
<1>1. BoundInv => BodyIsBounded
  <2> SUFFICES ASSUME BoundInv, NEW s \in Streams, stage[s] \in Body
               PROVE  /\ Cardinality(Fetched(s)) + InHand(s) + chan[s] <= Depth + ChanCap
                      /\ Cardinality(Waiting(s)) <= Depth
    BY DEF BodyIsBounded, Body
  <2>1. Cardinality(Buffered(s)) + InHand(s) <= Depth /\ chan[s] \in 0 .. ChanCap
    BY DEF BoundInv, BaseInv, TypeOK, DepthInv
  <2>2. Fetched(s) \in SUBSET Buffered(s) /\ Waiting(s) \in SUBSET Buffered(s)
    BY DEF Fetched, Waiting, Buffered, AtGate
  <2>3. /\ Cardinality(Fetched(s)) <= Cardinality(Buffered(s))
        /\ Cardinality(Waiting(s)) <= Cardinality(Buffered(s))
    BY <2>2, BufferedType, FS_Subset
  <2>4. /\ Cardinality(Buffered(s)) \in Nat
        /\ Cardinality(Fetched(s)) \in Nat /\ Cardinality(Waiting(s)) \in Nat
    <3>1. Fetched(s) \subseteq AllParts /\ Waiting(s) \subseteq AllParts
      BY <2>2, BufferedType
    <3>2. QED
      BY <3>1, BufferedType, PartsFinite
  <2>5. InHand(s) \in {0, 1} /\ Depth \in Nat /\ ChanCap \in Nat
    BY GateAssumption DEF InHand
  <2>6. QED
    BY <2>1, <2>3, <2>4, <2>5
<1>2. Init => BoundInv
  <2>1. Init => DepthInv
    BY DEF Init, DepthInv, Body
  <2>2. QED
    BY <2>1, BaseInit DEF BoundInv
<1>3. BoundInv /\ [Next]_vars => BoundInv'
  BY BaseStep, BoundStep DEF BoundInv
<1>4. QED
  BY <1>1, <1>2, <1>3, PTL DEF Spec
====
