---- MODULE AdmissionProofs ----
(***************************************************************************)
(* What holds of Admission for every number of requests, clients and       *)
(* codes, and every setting of the caps.                                   *)
(***************************************************************************)
EXTENDS Admission, FiniteSetTheorems, TLAPS

BodySet(k) == {r \in BodyHolders : key[r] = k}

TitleSet(p) == {r \in TitleHolders : Pair(r) = p}

CodeSet(k) == {c \in Codes : pairs[<<k, c>>] > 0}

(* Who is on the way to a title has a guard; undo is for a body slot; a    *)
(* permit is with a request that will drop it.                             *)
StageInv ==
    \A r \in Requests :
        /\ at[r] \in {"title", "undo"} => key[r] \in Keys
        /\ at[r] = "title" => MaxTitles > 0
        /\ at[r] = "undo" => MaxBodies > 0
        /\ at[r] = "streaming" => r \in permits
        /\ r \in permits => at[r] \in {"streaming", "dropBody", "dropTitle", "dropPermit"}

(* The caps, on the counters, and that a client's titles are finitely many.*)
CountInv ==
    /\ \A k \in Keys : /\ MaxBodies > 0 => bodies[k] <= MaxBodies
                       /\ MaxTitles > 0 => perKey[k] <= MaxTitles
                       /\ IsFiniteSet(CodeSet(k))
    /\ Cardinality(permits) <= MaxStreams

Inv == TypeOK /\ StageInv /\ BodiesExact /\ TitlesExact /\ CountInv

-----------------------------------------------------------------------------
(* Counting *)

LEMMA CountType ==
    ASSUME NEW S \in SUBSET Requests
    PROVE  IsFiniteSet(S) /\ Cardinality(S) \in Nat /\ (Cardinality(S) = 0 <=> S = {})
BY RequestsAssumption, FS_Subset, FS_CardinalityType, FS_EmptySet

LEMMA CountUp ==
    ASSUME NEW S, IsFiniteSet(S), NEW x, x \notin S
    PROVE  IsFiniteSet(S \cup {x}) /\ Cardinality(S \cup {x}) = Cardinality(S) + 1
BY FS_AddElement

LEMMA CountDown ==
    ASSUME NEW S, IsFiniteSet(S), NEW x \in S
    PROVE  IsFiniteSet(S \ {x}) /\ Cardinality(S \ {x}) = Cardinality(S) - 1
BY FS_RemoveElement

LEMMA SetsAreRequests ==
    /\ \A k : BodySet(k) \in SUBSET Requests
    /\ \A p : TitleSet(p) \in SUBSET Requests
BY DEF BodySet, TitleSet, BodyHolders, TitleHolders

-----------------------------------------------------------------------------

LEMMA InvInit == Init => Inv
<1> SUFFICES ASSUME Init PROVE Inv
  OBVIOUS
<1>1. TypeOK
  BY DEF Init, TypeOK, Stages
<1>2. StageInv
  BY DEF Init, StageInv
<1>3. BodyHolders = {} /\ TitleHolders = {}
  BY DEF Init, BodyHolders, TitleHolders
<1>4. Cardinality({}) = 0 /\ IsFiniteSet({})
  BY FS_EmptySet
<1>5. BodiesExact
  <2>1. \A k \in Keys : {r \in BodyHolders : key[r] = k} = {}
    BY <1>3
  <2>2. QED
    BY <1>4, <2>1 DEF Init, BodiesExact
<1>6. \A k \in Keys : CodeSet(k) = {}
  BY DEF Init, CodeSet
<1>7. TitlesExact
  <2>1. \A p \in Keys \X Codes : {r \in TitleHolders : Pair(r) = p} = {}
    BY <1>3
  <2>2. \A k \in Keys : {c \in Codes : pairs[<<k, c>>] > 0} = {}
    BY <1>6 DEF CodeSet
  <2>3. QED
    BY <1>4, <2>1, <2>2 DEF Init, TitlesExact
<1>8. CountInv
  <2>1. \A k \in Keys : bodies[k] = 0 /\ perKey[k] = 0 /\ IsFiniteSet(CodeSet(k))
    BY <1>4, <1>6 DEF Init
  <2>2. Cardinality(permits) = 0
    BY <1>4 DEF Init
  <2>3. QED
    BY <2>1, <2>2, LimitsAssumption DEF CountInv
<1>9. QED
  BY <1>1, <1>2, <1>5, <1>7, <1>8 DEF Inv

(* A step that touches no counter and moves nobody in or out of the sets   *)
(* of holders.                                                             *)
LEMMA InvSameHolders ==
    ASSUME Inv, TypeOK', StageInv', BodyHolders' = BodyHolders, TitleHolders' = TitleHolders,
           \A r \in BodyHolders \cup TitleHolders : key'[r] = key[r] /\ code'[r] = code[r],
           UNCHANGED <<bodies, pairs, perKey>>, Cardinality(permits') <= MaxStreams
    PROVE  Inv'
<1>1. BodiesExact'
  <2>1. \A k \in Keys : {r \in BodyHolders' : key'[r] = k} = {r \in BodyHolders : key[r] = k}
    OBVIOUS
  <2>2. QED
    BY <2>1 DEF Inv, BodiesExact
<1>2. TitlesExact'
  <2>1. \A p \in Keys \X Codes :
          {r \in TitleHolders' : <<key'[r], code'[r]>> = p} = {r \in TitleHolders : Pair(r) = p}
    BY DEF Pair
  <2>2. QED
    BY <2>1 DEF Inv, TitlesExact, Pair
<1>3. CountInv'
  BY DEF Inv, CountInv, CodeSet
<1>4. QED
  BY <1>1, <1>2, <1>3 DEF Inv

LEMMA InvStep == Inv /\ [Next]_vars => Inv'
<1> SUFFICES ASSUME Inv, [Next]_vars PROVE Inv'
  OBVIOUS
<1>i. TypeOK /\ StageInv /\ BodiesExact /\ TitlesExact /\ CountInv
  BY DEF Inv
<1>f. IsFiniteSet(permits) /\ Cardinality(permits) \in Nat /\ Cardinality(permits) <= MaxStreams
  BY <1>i, CountType DEF TypeOK, CountInv
<1>1. ASSUME NEW r \in Requests, NEW c \in Codes, Exempt(r, c)
      PROVE  Inv'
  <2>1. TypeOK'
    BY <1>i, <1>1 DEF Exempt, Goto, TypeOK, Stages
  <2>2. StageInv'
    BY <1>i, <1>1 DEF Exempt, Goto, TypeOK, StageInv
  <2>3. BodyHolders' = BodyHolders /\ TitleHolders' = TitleHolders
    BY <1>i, <1>1 DEF Exempt, Goto, TypeOK, BodyHolders, TitleHolders, CountsBody, CountsTitle
  <2>4. \A q \in BodyHolders \cup TitleHolders : key'[q] = key[q] /\ code'[q] = code[q]
    BY <1>i, <1>1 DEF Exempt, TypeOK, BodyHolders, TitleHolders
  <2>5. QED
    BY <1>1, <1>f, <2>1, <2>2, <2>3, <2>4, InvSameHolders DEF Exempt
<1>2. ASSUME NEW r \in Requests, NEW k \in Keys, NEW c \in Codes, TakeBody(r, k, c)
      PROVE  Inv'
  <2>1. TypeOK'
    BY <1>i, <1>2, LimitsAssumption DEF TakeBody, Goto, More, TypeOK, Stages
  <2>2. StageInv'
    BY <1>i, <1>2, LimitsAssumption DEF TakeBody, Goto, TypeOK, StageInv
  <2>3. TitleHolders' = TitleHolders
    BY <1>i, <1>2, LimitsAssumption DEF TakeBody, Goto, TypeOK, TitleHolders, CountsTitle
  <2>4. CASE MaxBodies = 0
    <3>1. BodyHolders' = BodyHolders
      BY <2>4 DEF BodyHolders, CountsBody
    <3>2. \A q \in BodyHolders \cup TitleHolders : key'[q] = key[q] /\ code'[q] = code[q]
      BY <1>i, <1>2, <2>4 DEF TakeBody, TypeOK, BodyHolders, TitleHolders, CountsBody
    <3>3. QED
      BY <1>2, <1>f, <2>1, <2>2, <2>3, <2>4, <3>1, <3>2, InvSameHolders DEF TakeBody
  <2>5. CASE MaxBodies > 0
    <3>1. \A q \in Requests \ {r} : at'[q] = at[q] /\ key'[q] = key[q] /\ code'[q] = code[q]
      BY <1>i, <1>2 DEF TakeBody, Goto, TypeOK
    <3>2. /\ at[r] = "idle" /\ at'[r] \in {"title", "admitted"} /\ key'[r] = k
          /\ bodies[k] < MaxBodies /\ bodies' = More(bodies, k)
      BY <1>i, <1>2, <2>5 DEF TakeBody, Goto, TypeOK
    <3>3. k # Local
      BY LocalAssumption
    <3>4. BodySet(k)' = BodySet(k) \cup {r} /\ r \notin BodySet(k)
      BY <2>5, <3>1, <3>2, <3>3 DEF BodySet, BodyHolders, CountsBody
    <3>5. \A j \in Keys \ {k} : BodySet(j)' = BodySet(j)
      BY <3>1, <3>2 DEF BodySet, BodyHolders, CountsBody
    <3>6. Cardinality(BodySet(k)') = Cardinality(BodySet(k)) + 1
      BY <3>4, CountUp, CountType, SetsAreRequests
    <3>7. BodiesExact'
      BY <1>i, <3>2, <3>5, <3>6 DEF BodiesExact, BodySet, More, TypeOK
    <3>8. \A p : TitleSet(p)' = TitleSet(p)
      BY <2>3, <3>1, <3>2 DEF TitleSet, TitleHolders, Pair
    <3>9. TitlesExact'
      BY <1>i, <1>2, <3>8 DEF TakeBody, TitlesExact, TitleSet
    <3>10. CountInv'
      BY <1>i, <1>2, <3>2, LimitsAssumption DEF TakeBody, CountInv, CodeSet, More, TypeOK
    <3>11. QED
      BY <2>1, <2>2, <3>7, <3>9, <3>10 DEF Inv
  <2>6. QED
    BY <2>4, <2>5, LimitsAssumption
<1>3. ASSUME NEW r \in Requests, TakeTitle(r)
      PROVE  Inv'
  <2>1. PICK k \in Keys, c \in Codes : key[r] = k /\ code[r] = c /\ MaxTitles > 0 /\ k # Local
    BY <1>i, <1>3, LocalAssumption DEF TakeTitle, StageInv, TypeOK
  <2> DEFINE p == <<k, c>>
  <2>p. Pair(r) = p /\ p \in Keys \X Codes
    BY <2>1 DEF Pair
  <2>2. TypeOK'
    BY <1>i, <1>3, <2>1, <2>p DEF TakeTitle, Goto, More, TypeOK, Stages
  <2>3. StageInv'
    BY <1>i, <1>3 DEF TakeTitle, Goto, TypeOK, StageInv
  <2>4. \A q \in Requests \ {r} : at'[q] = at[q]
    BY <1>i, <1>3 DEF TakeTitle, Goto, TypeOK
  <2>5. at[r] = "title" /\ at'[r] = "admitted" /\ UNCHANGED <<key, code, bodies, permits>>
    BY <1>i, <1>3 DEF TakeTitle, Goto, TypeOK
  <2>6. BodyHolders' = BodyHolders
    BY <2>4, <2>5 DEF BodyHolders, CountsBody
  <2>7. BodiesExact'
    BY <1>i, <2>5, <2>6 DEF BodiesExact
  <2>8. TitleSet(p)' = TitleSet(p) \cup {r} /\ r \notin TitleSet(p)
    BY <2>1, <2>4, <2>5 DEF TitleSet, TitleHolders, CountsTitle, Pair
  <2>9. \A s \in (Keys \X Codes) \ {p} : TitleSet(s)' = TitleSet(s)
    BY <2>1, <2>4, <2>5 DEF TitleSet, TitleHolders, CountsTitle, Pair
  <2>10. Cardinality(TitleSet(p)') = Cardinality(TitleSet(p)) + 1
    BY <2>8, CountUp, CountType, SetsAreRequests
  <2>11. \A s \in Keys \X Codes : pairs'[s] = IF s = p THEN pairs[s] + 1 ELSE pairs[s]
    BY <1>i, <1>3, <2>p DEF TakeTitle, More, TypeOK
  <2>12. \A s \in Keys \X Codes : pairs'[s] = Cardinality(TitleSet(s)')
    BY <1>i, <2>9, <2>10, <2>11 DEF TitlesExact, TitleSet
  <2>13. \A s \in Keys \X Codes : pairs[s] \in Nat
    BY <1>i DEF TypeOK
  <2>14. \A j \in Keys \ {k} : CodeSet(j)' = CodeSet(j)
    BY <2>1, <2>11 DEF CodeSet
  <2>15. CASE pairs[p] = 0
    <3>1. CodeSet(k)' = CodeSet(k) \cup {c} /\ c \notin CodeSet(k)
      BY <2>1, <2>11, <2>13, <2>15 DEF CodeSet
    <3>2. IsFiniteSet(CodeSet(k)') /\ Cardinality(CodeSet(k)') = Cardinality(CodeSet(k)) + 1
      BY <1>i, <2>1, <3>1, CountUp DEF CountInv
    <3>3. /\ \A j \in Keys : perKey'[j] = IF j = k THEN perKey[j] + 1 ELSE perKey[j]
          /\ perKey[k] < MaxTitles
      BY <1>i, <1>3, <2>1, <2>p, <2>15 DEF TakeTitle, More, TypeOK
    <3>4. \A j \in Keys : perKey'[j] = Cardinality(CodeSet(j)')
      BY <1>i, <2>1, <2>14, <3>2, <3>3 DEF TitlesExact, CodeSet
    <3>5. TitlesExact'
      BY <2>5, <2>12, <3>4 DEF TitlesExact, TitleSet, CodeSet
    <3>6. \A j \in Keys : perKey[j] \in Nat
      BY <1>i DEF TypeOK
    <3>7. CountInv'
      BY <1>i, <2>5, <2>14, <3>2, <3>3, <3>6, LimitsAssumption DEF CountInv
    <3>8. QED
      BY <2>2, <2>3, <2>7, <3>5, <3>7 DEF Inv
  <2>16. CASE pairs[p] # 0
    <3>1. CodeSet(k)' = CodeSet(k)
      BY <2>1, <2>11, <2>13, <2>16 DEF CodeSet
    <3>2. perKey' = perKey
      BY <1>3, <2>p, <2>16 DEF TakeTitle
    <3>3. \A j \in Keys : CodeSet(j)' = CodeSet(j)
      BY <2>14, <3>1
    <3>4. TitlesExact'
      BY <1>i, <2>5, <2>12, <3>2, <3>3 DEF TitlesExact, TitleSet, CodeSet
    <3>5. CountInv'
      BY <1>i, <2>5, <3>2, <3>3 DEF CountInv
    <3>6. QED
      BY <2>2, <2>3, <2>7, <3>4, <3>5 DEF Inv
  <2>17. QED
    BY <2>15, <2>16
<1>4. ASSUME NEW r \in Requests, RefuseTitle(r)
      PROVE  Inv'
  <2>1. TypeOK'
    BY <1>i, <1>4 DEF RefuseTitle, Goto, TypeOK, Stages
  <2>2. StageInv'
    BY <1>i, <1>4, LimitsAssumption DEF RefuseTitle, Goto, TypeOK, StageInv
  <2>3. BodyHolders' = BodyHolders /\ TitleHolders' = TitleHolders
    BY <1>i, <1>4 DEF RefuseTitle, Goto, TypeOK, BodyHolders, TitleHolders, CountsBody, CountsTitle
  <2>4. QED
    BY <1>4, <1>f, <2>1, <2>2, <2>3, InvSameHolders DEF RefuseTitle
<1>5. ASSUME NEW r \in Requests,
             \/ UndoBody(r)
             \/ DropBody(r) /\ CountsBody(r)
      PROVE  Inv'
  <2>1. PICK k \in Keys : key[r] = k /\ k # Local /\ MaxBodies > 0
    BY <1>i, <1>5, LocalAssumption DEF UndoBody, StageInv, CountsBody, TypeOK
  <2>2. /\ at[r] \in {"undo", "dropBody"}
        /\ at'[r] \in {"idle", "dropTitle"}
        /\ (at[r] = "dropBody") <=> (at'[r] = "dropTitle")
        /\ bodies' = Less(bodies, k) /\ UNCHANGED <<key, code, pairs, perKey, permits>>
    BY <1>i, <1>5, <2>1 DEF UndoBody, DropBody, Goto, TypeOK
  <2>3. \A q \in Requests \ {r} : at'[q] = at[q]
    BY <1>i, <1>5 DEF UndoBody, DropBody, Goto, TypeOK
  <2>4. TypeOK'
    BY <1>i, <1>5, <2>1 DEF UndoBody, DropBody, Goto, Less, TypeOK, Stages
  <2>5. StageInv'
    BY <1>i, <2>2, <2>3 DEF StageInv
  <2>6. TitleHolders' = TitleHolders
    BY <2>2, <2>3 DEF TitleHolders, CountsTitle
  <2>7. BodySet(k)' = BodySet(k) \ {r} /\ r \in BodySet(k)
    BY <2>1, <2>2, <2>3 DEF BodySet, BodyHolders, CountsBody
  <2>8. \A j \in Keys \ {k} : BodySet(j)' = BodySet(j)
    BY <2>1, <2>2, <2>3 DEF BodySet, BodyHolders, CountsBody
  <2>9. Cardinality(BodySet(k)') = Cardinality(BodySet(k)) - 1
    BY <2>7, CountDown, CountType, SetsAreRequests
  <2>10. bodies[k] = Cardinality(BodySet(k)) /\ bodies[k] \in Nat /\ bodies[k] > 0
    <3>1. Cardinality(BodySet(k)) \in Nat /\ Cardinality(BodySet(k)) # 0
      BY <2>7, CountType, SetsAreRequests
    <3>2. QED
      BY <1>i, <2>1, <3>1 DEF BodiesExact, BodySet
  <2>11. \A j \in Keys : bodies'[j] = IF j = k THEN bodies[j] - 1 ELSE bodies[j]
    BY <1>i, <2>2, <2>10 DEF Less, TypeOK
  <2>12. BodiesExact'
    BY <1>i, <2>8, <2>9, <2>10, <2>11 DEF BodiesExact, BodySet
  <2>13. TitlesExact'
    BY <1>i, <2>2, <2>6 DEF TitlesExact, Pair
  <2>14. CountInv'
    <3>1. \A j \in Keys : bodies[j] \in Nat
      BY <1>i DEF TypeOK
    <3>2. QED
      BY <1>i, <2>2, <2>11, <3>1, LimitsAssumption DEF CountInv, CodeSet
  <2>15. QED
    BY <2>4, <2>5, <2>12, <2>13, <2>14 DEF Inv
<1>6. ASSUME NEW r \in Requests, DropBody(r), ~CountsBody(r)
      PROVE  Inv'
  <2>1. TypeOK'
    BY <1>i, <1>6 DEF DropBody, Goto, TypeOK, Stages
  <2>2. StageInv'
    BY <1>i, <1>6 DEF DropBody, Goto, TypeOK, StageInv
  <2>3. BodyHolders' = BodyHolders /\ TitleHolders' = TitleHolders
    BY <1>i, <1>6 DEF DropBody, Goto, TypeOK, BodyHolders, TitleHolders, CountsBody, CountsTitle
  <2>4. QED
    BY <1>6, <1>f, <2>1, <2>2, <2>3, InvSameHolders DEF DropBody
<1>7. ASSUME NEW r \in Requests, TakePermit(r) \/ Refuse(r) \/ GiveUp(r) \/ EndBody(r) \/ DropPermit(r)
      PROVE  Inv'
  <2>1. TypeOK'
    BY <1>i, <1>7 DEF TakePermit, Refuse, GiveUp, EndBody, DropPermit, Goto, TypeOK, Stages
  <2>2. StageInv'
    BY <1>i, <1>7 DEF TakePermit, Refuse, GiveUp, EndBody, DropPermit, Goto, TypeOK, StageInv
  <2>3. BodyHolders' = BodyHolders /\ TitleHolders' = TitleHolders
    BY <1>i, <1>7 DEF TakePermit, Refuse, GiveUp, EndBody, DropPermit, Goto, TypeOK, BodyHolders,
       TitleHolders, CountsBody, CountsTitle
  <2>4. UNCHANGED <<key, code, bodies, pairs, perKey>>
    BY <1>7 DEF TakePermit, Refuse, GiveUp, EndBody, DropPermit
  <2>5. Cardinality(permits') <= MaxStreams
    <3>1. CASE TakePermit(r)
      <4>1. permits' = permits \cup {r} /\ Cardinality(permits) < MaxStreams
        BY <3>1 DEF TakePermit
      <4>2. Cardinality(permits') <= Cardinality(permits) + 1
        BY <1>f, <4>1, FS_AddElement
      <4>3. Cardinality(permits') \in Nat
        BY <2>1, CountType DEF TypeOK
      <4>4. QED
        BY <1>f, <4>1, <4>2, <4>3, LimitsAssumption
    <3>2. CASE permits' \subseteq permits
      BY <1>f, <3>2, FS_Subset, FS_CardinalityType, LimitsAssumption
    <3>3. QED
      BY <1>7, <3>1, <3>2 DEF Refuse, GiveUp, EndBody, DropPermit
  <2>6. QED
    BY <2>1, <2>2, <2>3, <2>4, <2>5, InvSameHolders
<1>8. ASSUME NEW r \in Requests, DropTitle(r), CountsTitle(r)
      PROVE  Inv'
  <2>1. PICK k \in Keys, c \in Codes : key[r] = k /\ code[r] = c /\ MaxTitles > 0 /\ k # Local
    BY <1>i, <1>8 DEF CountsTitle, TypeOK
  <2> DEFINE p == <<k, c>>
  <2>p. Pair(r) = p /\ p \in Keys \X Codes
    BY <2>1 DEF Pair
  <2>2. TypeOK'
    BY <1>i, <1>8, <2>1, <2>p DEF DropTitle, Goto, Less, TypeOK, Stages
  <2>3. StageInv'
    BY <1>i, <1>8 DEF DropTitle, Goto, TypeOK, StageInv
  <2>4. \A q \in Requests \ {r} : at'[q] = at[q]
    BY <1>i, <1>8 DEF DropTitle, Goto, TypeOK
  <2>5. /\ at[r] = "dropTitle" /\ at'[r] \in {"dropPermit", "idle"}
        /\ UNCHANGED <<key, code, bodies, permits>>
    BY <1>i, <1>8 DEF DropTitle, Goto, TypeOK
  <2>6. BodyHolders' = BodyHolders
    BY <2>4, <2>5 DEF BodyHolders, CountsBody
  <2>7. BodiesExact'
    BY <1>i, <2>5, <2>6 DEF BodiesExact
  <2>8. TitleSet(p)' = TitleSet(p) \ {r} /\ r \in TitleSet(p)
    BY <2>1, <2>4, <2>5 DEF TitleSet, TitleHolders, CountsTitle, Pair
  <2>9. \A s \in (Keys \X Codes) \ {p} : TitleSet(s)' = TitleSet(s)
    BY <2>1, <2>4, <2>5 DEF TitleSet, TitleHolders, CountsTitle, Pair
  <2>10. Cardinality(TitleSet(p)') = Cardinality(TitleSet(p)) - 1
    BY <2>8, CountDown, CountType, SetsAreRequests
  <2>11. pairs[p] = Cardinality(TitleSet(p)) /\ pairs[p] \in Nat /\ pairs[p] > 0
    <3>1. Cardinality(TitleSet(p)) \in Nat /\ Cardinality(TitleSet(p)) # 0
      BY <2>8, CountType, SetsAreRequests
    <3>2. QED
      BY <1>i, <2>p, <3>1 DEF TitlesExact, TitleSet
  <2>12. \A s \in Keys \X Codes : pairs'[s] = IF s = p THEN pairs[s] - 1 ELSE pairs[s]
    BY <1>i, <1>8, <2>p, <2>11 DEF DropTitle, Less, TypeOK
  <2>13. \A s \in Keys \X Codes : pairs'[s] = Cardinality(TitleSet(s)')
    BY <1>i, <2>9, <2>10, <2>11, <2>12 DEF TitlesExact, TitleSet
  <2>14. \A s \in Keys \X Codes : pairs[s] \in Nat
    BY <1>i DEF TypeOK
  <2>15. \A j \in Keys \ {k} : CodeSet(j)' = CodeSet(j)
    BY <2>1, <2>12 DEF CodeSet
  <2>16. CASE pairs[p] = 1
    <3>1. CodeSet(k)' = CodeSet(k) \ {c} /\ c \in CodeSet(k)
      BY <2>1, <2>12, <2>14, <2>16 DEF CodeSet
    <3>2. IsFiniteSet(CodeSet(k)') /\ Cardinality(CodeSet(k)') = Cardinality(CodeSet(k)) - 1
      BY <1>i, <2>1, <3>1, CountDown DEF CountInv
    <3>3. perKey[k] = Cardinality(CodeSet(k)) /\ perKey[k] \in Nat /\ perKey[k] > 0
      <4>1. Cardinality(CodeSet(k)) # 0
        BY <1>i, <2>1, <3>1, FS_EmptySet DEF CountInv
      <4>2. QED
        BY <1>i, <2>1, <4>1 DEF TitlesExact, CodeSet, TypeOK
    <3>4. \A j \in Keys : perKey'[j] = IF j = k THEN perKey[j] - 1 ELSE perKey[j]
      BY <1>i, <1>8, <2>1, <2>p, <2>16, <3>3 DEF DropTitle, Less, TypeOK
    <3>5. \A j \in Keys : perKey'[j] = Cardinality(CodeSet(j)')
      BY <1>i, <2>1, <2>15, <3>2, <3>3, <3>4 DEF TitlesExact, CodeSet
    <3>6. TitlesExact'
      BY <2>5, <2>13, <3>5 DEF TitlesExact, TitleSet, CodeSet
    <3>7. \A j \in Keys : perKey[j] \in Nat
      BY <1>i DEF TypeOK
    <3>8. CountInv'
      BY <1>i, <2>5, <2>15, <3>2, <3>4, <3>7, LimitsAssumption DEF CountInv
    <3>9. QED
      BY <2>2, <2>3, <2>7, <3>6, <3>8 DEF Inv
  <2>17. CASE pairs[p] # 1
    <3>1. CodeSet(k)' = CodeSet(k)
      BY <2>1, <2>11, <2>12, <2>14, <2>17 DEF CodeSet
    <3>2. perKey' = perKey
      BY <1>8, <2>p, <2>17 DEF DropTitle
    <3>3. \A j \in Keys : CodeSet(j)' = CodeSet(j)
      BY <2>15, <3>1
    <3>4. TitlesExact'
      BY <1>i, <2>5, <2>13, <3>2, <3>3 DEF TitlesExact, TitleSet, CodeSet
    <3>5. CountInv'
      BY <1>i, <2>5, <3>2, <3>3 DEF CountInv
    <3>6. QED
      BY <2>2, <2>3, <2>7, <3>4, <3>5 DEF Inv
  <2>18. QED
    BY <2>16, <2>17
<1>9. ASSUME NEW r \in Requests, DropTitle(r), ~CountsTitle(r)
      PROVE  Inv'
  <2>1. TypeOK'
    BY <1>i, <1>9 DEF DropTitle, Goto, TypeOK, Stages
  <2>2. StageInv'
    BY <1>i, <1>9 DEF DropTitle, Goto, TypeOK, StageInv
  <2>3. BodyHolders' = BodyHolders /\ TitleHolders' = TitleHolders
    BY <1>i, <1>9 DEF DropTitle, Goto, TypeOK, BodyHolders, TitleHolders, CountsBody, CountsTitle
  <2>4. QED
    BY <1>9, <1>f, <2>1, <2>2, <2>3, InvSameHolders DEF DropTitle
<1>10. CASE UNCHANGED vars
  <2>1. TypeOK' /\ StageInv' /\ BodyHolders' = BodyHolders /\ TitleHolders' = TitleHolders
    BY <1>i, <1>10 DEF vars, TypeOK, StageInv, BodyHolders, TitleHolders, CountsBody, CountsTitle
  <2>2. QED
    BY <1>10, <1>f, <2>1, InvSameHolders DEF vars
<1>11. QED
  BY <1>1, <1>2, <1>3, <1>4, <1>5, <1>6, <1>7, <1>8, <1>9, <1>10 DEF Next

LEMMA Invariance == Spec => []Inv
BY InvInit, InvStep, PTL DEF Spec

-----------------------------------------------------------------------------

(* Every variable of the admission keeps its type. *)
THEOREM TypeCorrect == Spec => []TypeOK
<1>1. Inv => TypeOK
  BY DEF Inv
<1>2. QED
  BY Invariance, <1>1, PTL

(* No body slot leaks, whatever the mix of refusals, ends and requests.    *)
THEOREM BodiesStayExact == Spec => []BodiesExact
<1>1. Inv => BodiesExact
  BY DEF Inv
<1>2. QED
  BY Invariance, <1>1, PTL

(* Nor a title, and the two counters of titles agree.                      *)
THEOREM TitlesStayExact == Spec => []TitlesExact
<1>1. Inv => TitlesExact
  BY DEF Inv
<1>2. QED
  BY Invariance, <1>1, PTL

LEMMA CapsFollow == Inv => CapsHold
<1> SUFFICES ASSUME Inv PROVE CapsHold
  OBVIOUS
<1>i. TypeOK /\ StageInv /\ BodiesExact /\ TitlesExact /\ CountInv
  BY DEF Inv
<1>1. ASSUME NEW k \in Keys, MaxBodies > 0
      PROVE  Cardinality({r \in Requests : Live(r) /\ key[r] = k}) <= MaxBodies
  <2> DEFINE mine == {r \in Requests : Live(r) /\ key[r] = k}
  <2>1. mine \subseteq BodySet(k)
    BY <1>1, LocalAssumption DEF BodySet, BodyHolders, CountsBody, Live
  <2>2. Cardinality(mine) <= Cardinality(BodySet(k))
    BY <2>1, SetsAreRequests, CountType, FS_Subset
  <2>3. Cardinality(BodySet(k)) = bodies[k] /\ bodies[k] \in Nat /\ bodies[k] <= MaxBodies
    BY <1>i, <1>1 DEF BodiesExact, BodySet, CountInv, TypeOK
  <2>4. Cardinality(mine) \in Nat
    BY CountType
  <2>5. QED
    BY <2>2, <2>3, <2>4, LimitsAssumption
<1>2. ASSUME NEW k \in Keys, MaxTitles > 0
      PROVE  Cardinality({code[r] : r \in {q \in Requests : Live(q) /\ key[q] = k}}) <= MaxTitles
  <2> DEFINE mine == {q \in Requests : Live(q) /\ key[q] = k}
             open == {code[r] : r \in mine}
  <2>1. ASSUME NEW r \in mine PROVE code[r] \in CodeSet(k)
    <3>1. r \in TitleSet(<<k, code[r]>>) /\ <<k, code[r]>> \in Keys \X Codes
      BY <1>i, <1>2, LocalAssumption DEF TitleSet, TitleHolders, CountsTitle, Live, Pair, TypeOK
    <3>2. Cardinality(TitleSet(<<k, code[r]>>)) \in Nat /\ Cardinality(TitleSet(<<k, code[r]>>)) # 0
      BY <3>1, SetsAreRequests, CountType
    <3>3. pairs[<<k, code[r]>>] = Cardinality(TitleSet(<<k, code[r]>>))
      BY <1>i, <3>1 DEF TitlesExact, TitleSet
    <3>4. code[r] \in Codes
      BY <1>i DEF TypeOK
    <3>5. QED
      BY <3>2, <3>3, <3>4 DEF CodeSet
  <2>2. open \subseteq CodeSet(k)
    BY <2>1
  <2>3. IsFiniteSet(CodeSet(k)) /\ Cardinality(CodeSet(k)) = perKey[k] /\ perKey[k] \in Nat
        /\ perKey[k] <= MaxTitles
    BY <1>i, <1>2 DEF CountInv, TitlesExact, CodeSet, TypeOK
  <2>4. Cardinality(open) <= Cardinality(CodeSet(k)) /\ Cardinality(open) \in Nat
    BY <2>2, <2>3, FS_Subset, FS_CardinalityType
  <2>5. QED
    BY <2>3, <2>4, LimitsAssumption
<1>3. Cardinality({r \in Requests : at[r] = "streaming"}) <= MaxStreams
  <2>1. {r \in Requests : at[r] = "streaming"} \subseteq permits
    BY <1>i DEF StageInv
  <2>2. IsFiniteSet(permits) /\ Cardinality(permits) \in Nat /\ Cardinality(permits) <= MaxStreams
    BY <1>i, CountType DEF TypeOK, CountInv
  <2>3. QED
    BY <2>1, <2>2, FS_Subset, FS_CardinalityType, LimitsAssumption
<1>4. QED
  BY <1>1, <1>2, <1>3 DEF CapsHold

(* The three caps hold of what is really live. *)
THEOREM CapsAlwaysHold == Spec => []CapsHold
BY Invariance, CapsFollow, PTL

(* When all requests are over nothing is held any more.                    *)
THEOREM AllComesBack == Spec => []NothingLeaks
<1>1. ASSUME Inv, \A r \in Requests : at[r] = "idle"
      PROVE  /\ \A k \in Keys : bodies[k] = 0 /\ perKey[k] = 0
             /\ \A p \in Keys \X Codes : pairs[p] = 0
             /\ permits = {}
  <2>i. TypeOK /\ StageInv /\ BodiesExact /\ TitlesExact
    BY <1>1 DEF Inv
  <2>1. BodyHolders = {} /\ TitleHolders = {}
    BY <1>1 DEF BodyHolders, TitleHolders
  <2>2. \A k \in Keys : bodies[k] = 0
    BY <2>i, <2>1, FS_EmptySet DEF BodiesExact
  <2>3. \A p \in Keys \X Codes : pairs[p] = 0
    BY <2>i, <2>1, FS_EmptySet DEF TitlesExact
  <2>4. ASSUME NEW k \in Keys PROVE perKey[k] = 0
    <3>1. {c \in Codes : pairs[<<k, c>>] > 0} = {}
      BY <2>3
    <3>2. QED
      BY <2>i, <3>1, FS_EmptySet DEF TitlesExact
  <2>5. permits = {}
    BY <1>1, <2>i DEF StageInv, TypeOK
  <2>6. QED
    BY <2>2, <2>3, <2>4, <2>5
<1>2. Inv => NothingLeaks
  BY <1>1 DEF NothingLeaks
<1>3. QED
  BY Invariance, <1>2, PTL

(* The titles that are counted for a client are the codes it has open.     *)
LEMMA OpenIsCounted ==
    ASSUME Inv, MaxTitles > 0, NEW k \in Keys
    PROVE  /\ Open(k) = CodeSet(k)
           /\ perKey[k] = Cardinality(Open(k))
<1>i. TypeOK /\ TitlesExact
  BY DEF Inv
<1>1. ASSUME NEW c \in Codes
      PROVE  pairs[<<k, c>>] > 0 <=> TitleSet(<<k, c>>) # {}
  <2>1. pairs[<<k, c>>] = Cardinality(TitleSet(<<k, c>>))
    BY <1>i DEF TitlesExact, TitleSet
  <2>2. QED
    BY <2>1, SetsAreRequests, CountType
<1>2. Open(k) \subseteq Codes
  BY <1>i DEF Open, TitleHolders, TypeOK
<1>3. ASSUME NEW c \in Codes
      PROVE  TitleSet(<<k, c>>) # {} <=> c \in Open(k)
  BY DEF TitleSet, Pair, Open
<1>4. Open(k) = CodeSet(k)
  BY <1>1, <1>2, <1>3 DEF CodeSet
<1>5. QED
  BY <1>i, <1>4 DEF TitlesExact, CodeSet

LEMMA RefusalStep ==
    ASSUME Inv, [Next]_vars, NEW r \in Requests, at[r] = "title", at'[r] \in {"undo", "idle"}
    PROVE  code[r] \notin Open(key[r]) /\ Cardinality(Open(key[r])) = MaxTitles
<1>i. TypeOK /\ StageInv /\ CountInv
  BY DEF Inv
<1>1. RefuseTitle(r)
  BY <1>i DEF Next, Exempt, TakeBody, TakeTitle, RefuseTitle, UndoBody, TakePermit, Refuse, GiveUp,
     EndBody, DropBody, DropTitle, DropPermit, Goto, TypeOK, vars
<1>2. key[r] \in Keys /\ code[r] \in Codes /\ MaxTitles > 0
  BY <1>i DEF StageInv, TypeOK
<1>3. Open(key[r]) = CodeSet(key[r]) /\ perKey[key[r]] = Cardinality(Open(key[r]))
  BY <1>2, OpenIsCounted
<1>4. pairs[<<key[r], code[r]>>] = 0 /\ perKey[key[r]] >= MaxTitles
  BY <1>1 DEF RefuseTitle, Pair
<1>5. code[r] \notin Open(key[r])
  BY <1>3, <1>4 DEF CodeSet
<1>6. perKey[key[r]] <= MaxTitles /\ perKey[key[r]] \in Nat
  BY <1>i, <1>2 DEF CountInv, TypeOK
<1>7. QED
  BY <1>3, <1>4, <1>5, <1>6, LimitsAssumption

(* A client is refused for its titles only when it really has as many      *)
(* others open as it may: never for a code it has open, never for a slot   *)
(* that has been given back.                                               *)
THEOREM RefusalsAtCapOnly == Spec => RefusedOnlyAtCap
<1>1. Inv /\ [Next]_vars =>
        [\A r \in Requests :
            at[r] = "title" /\ at'[r] \in {"undo", "idle"} =>
                /\ code[r] \notin Open(key[r])
                /\ Cardinality(Open(key[r])) = MaxTitles]_vars
  BY RefusalStep
<1>2. QED
  BY Invariance, <1>1, PTL DEF Spec, RefusedOnlyAtCap
====
