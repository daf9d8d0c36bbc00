---- MODULE CacheProofs ----
(***************************************************************************)
(* What holds of Cache for every set of keys and threads, every cap, every *)
(* set of deadlines and any number of writes, clears, failed commits and   *)
(* kills.                                                                  *)
(***************************************************************************)
EXTENDS Cache, FiniteSetTheorems, TLAPS

(* Where a thread is inside an operation tells what its record holds. *)
OpOK ==
    \A t \in Threads :
        /\ op[t].pc \in {"readL2", "promote", "queue"} => op[t].key \in Keys
        /\ op[t].pc = "promote" => op[t].item \in Slot
        /\ op[t].pc = "queue" => op[t].item # None

TypeInv == TypeOK /\ OpOK

-----------------------------------------------------------------------------
(* Typing *)

LEMMA EmptyType == Empty \in Slots /\ Empty \in Buffer
BY DEF Empty, Slots, Buffer

LEMMA WithoutType ==
    ASSUME NEW layer \in Slots, NEW K
    PROVE  Without(layer, K) \in Slots
BY DEF Without, Slots

LEMMA WithoutBufferType ==
    ASSUME NEW layer \in Buffer, NEW K
    PROVE  Without(layer, K) \in Buffer
BY DEF Without, Buffer

LEMMA PutL1Type ==
    ASSUME l1 \in Slots, NEW k \in Keys, NEW s \in Slot, PutL1(k, s)
    PROVE  l1' \in Slots
<1>1. PICK D \in Evictions(k) : l1' = [Without(l1, D) EXCEPT ![k] = s]
  BY DEF PutL1
<1>2. Without(l1, D) \in Slots
  BY WithoutType
<1>3. QED
  BY <1>1, <1>2 DEF Slots

LEMMA IdleType == Idle \in Op
BY DEF Idle, Op, Pcs, Modes

(* The slot a put makes is a slot, whatever ttl and grace it is given. *)
LEMMA NewSlotType ==
    ASSUME TypeOK, NEW k \in Keys, NEW ttl \in TTLs, NEW grace \in Graces
    PROVE  /\ NewSlot(k, ttl, grace) \in Slot
           /\ NewSlot(k, ttl, grace).v = latest[k] + 1
BY TimesAssumption DEF TypeOK, NewSlot, Clamp, Slot

LEMMA TypeInit == Init => TypeInv
<1>1. SUFFICES ASSUME Init PROVE TypeInv
  OBVIOUS
<1>2. TypeOK
  BY <1>1, EmptyType, IdleType DEF Init, TypeOK, Buffer, Empty
<1>3. OpOK
  BY <1>1 DEF Init, OpOK, Idle
<1>4. QED
  BY <1>2, <1>3 DEF TypeInv

LEMMA TypeStep == TypeInv /\ [Next]_vars => TypeInv'
<1> SUFFICES ASSUME TypeInv, [Next]_vars
             PROVE  TypeInv'
  OBVIOUS
<1> USE DEF TypeInv
<1>t. TypeOK
  OBVIOUS
<1>o. OpOK
  OBVIOUS
<1>1. ASSUME NEW t \in Threads, NEW k \in Keys, NEW mode \in Modes, GetMiss(t, k, mode)
      PROVE  TypeInv'
  <2>1. l1' \in Slots
    BY <1>t, <1>1, WithoutType DEF GetMiss, TypeOK
  <2> DEFINE o == [Idle EXCEPT !.pc = "readL2", !.key = k, !.mode = mode,
                               !.floor = settled[k]]
  <2>a. o \in Op
    BY <1>t DEF TypeOK, Idle, Op, Pcs, Modes
  <2>b. op' = [op EXCEPT ![t] = o] \/ op' = op
    BY <1>1 DEF GetMiss, Enter
  <2> HIDE DEF o
  <2>2. op' \in [Threads -> Op]
    BY <1>t, <2>a, <2>b DEF TypeOK
  <2>3. TypeOK'
    BY <1>t, <1>1, <2>1, <2>2 DEF GetMiss, TypeOK
  <2>4. OpOK'
    BY <1>t, <1>o, <1>1 DEF GetMiss, TypeOK, OpOK, Enter, Idle
  <2>5. QED
    BY <2>3, <2>4
<1>2. ASSUME NEW t \in Threads, ReadL2(t)
      PROVE  TypeInv'
  <2>1. op[t].key \in Keys /\ op[t] \in Op
    BY <1>t, <1>o, <1>2 DEF ReadL2, OpOK, TypeOK
  <2>2. l2[op[t].key] \in Slot \cup {None}
    BY <1>t, <2>1 DEF TypeOK, Slots
  <2> DEFINE o == [op[t] EXCEPT !.pc = "promote", !.item = l2[op[t].key],
                        !.mode = "fresh"]
  <2>a. l2[op[t].key] \in Slot => o \in Op /\ o.key \in Keys /\ o.item \in Slot
    BY <2>1 DEF Op, Pcs, Modes
  <2>b. \/ l2[op[t].key] \in Slot /\ op' = [op EXCEPT ![t] = o]
        \/ op' = [op EXCEPT ![t] = Idle]
    BY <1>2, <2>2 DEF ReadL2, Enter, Leave
  <2>c. o.pc = "promote"
    BY <2>1 DEF Op
  <2> HIDE DEF o
  <2>4. op' \in [Threads -> Op]
    BY <1>t, <2>a, <2>b, IdleType DEF TypeOK
  <2>5. TypeOK'
    BY <1>t, <1>2, <2>4 DEF ReadL2, TypeOK
  <2>6. OpOK'
    BY <1>t, <1>o, <2>a, <2>b, <2>c DEF TypeOK, OpOK, Idle
  <2>7. QED
    BY <2>5, <2>6
<1>3. ASSUME NEW t \in Threads, Promote(t)
      PROVE  TypeInv'
  <2>1. op[t].key \in Keys /\ op[t].item \in Slot
    BY <1>o, <1>3 DEF Promote, OpOK
  <2>2. l1' \in Slots
    BY <1>t, <1>3, <2>1, PutL1Type DEF Promote, TypeOK
  <2>3. op' = [op EXCEPT ![t] = Idle]
    BY <1>3 DEF Promote, Leave
  <2>4. TypeOK'
    BY <1>t, <1>3, <2>2, <2>3, IdleType DEF Promote, TypeOK
  <2>5. OpOK'
    BY <1>t, <1>o, <2>3 DEF TypeOK, OpOK, Idle
  <2>6. QED
    BY <2>4, <2>5
<1>4. ASSUME NEW t \in Threads, NEW k \in Keys, NEW ttl \in TTLs, NEW grace \in Graces,
             Put(t, k, ttl, grace)
      PROVE  TypeInv'
  <2> DEFINE s == NewSlot(k, ttl, grace)
  <2>1. s \in Slot /\ s.v \in Nat
    BY <1>t, NewSlotType DEF Slot
  <2>2. /\ PutL1(k, s)
        /\ op' = [op EXCEPT ![t] = [Idle EXCEPT !.pc = "queue", !.key = k, !.item = s, !.ver = s.v]]
        /\ latest' = [latest EXCEPT ![k] = s.v]
        /\ UNCHANGED <<now, diskOpen, l2, durable, pending, batch, kills, settled, intended, older>>
    BY <1>4 DEF Put, Enter
  <2> HIDE DEF s
  <2>3. l1' \in Slots
    BY <1>t, <2>1, <2>2, PutL1Type DEF TypeOK
  <2>4. op' \in [Threads -> Op]
    BY <1>t, <2>1, <2>2 DEF TypeOK, Idle, Op, Pcs, Modes
  <2>5. TypeOK'
    BY <1>t, <2>1, <2>2, <2>3, <2>4 DEF TypeOK
  <2>6. OpOK'
    BY <1>t, <1>o, <2>1, <2>2, NoneAssumption DEF TypeOK, OpOK, Idle
  <2>7. QED
    BY <2>5, <2>6
<1>5. ASSUME NEW t \in Threads, NEW k \in Keys, Invalidate(t, k)
      PROVE  TypeInv'
  <2>1. l1' \in Slots
    BY <1>t, <1>5, WithoutType DEF Invalidate, TypeOK
  <2> DEFINE o == [Idle EXCEPT !.pc = "queue", !.key = k, !.item = Gone,
                               !.ver = latest[k] + 1]
  <2>0. latest[k] + 1 \in Nat
    BY <1>t DEF TypeOK
  <2>a. o \in Op
    BY <2>0, ClearableAssumption DEF Idle, Op, Pcs, Modes
  <2>b. op' = [op EXCEPT ![t] = o]
    BY <1>5 DEF Invalidate, Enter
  <2> HIDE DEF o
  <2>2. op' \in [Threads -> Op]
    BY <1>t, <2>a, <2>b DEF TypeOK
  <2>3. TypeOK'
    BY <1>t, <1>5, <2>1, <2>2 DEF Invalidate, TypeOK
  <2>4. OpOK'
    BY <1>t, <1>o, <1>5, NoneAssumption DEF Invalidate, TypeOK, OpOK, Enter, Idle
  <2>5. QED
    BY <2>3, <2>4
<1>6. ASSUME NEW t \in Threads, Queue(t)
      PROVE  TypeInv'
  <2>1. op[t].key \in Keys /\ op[t] \in Op
    BY <1>t, <1>o, <1>6 DEF Queue, OpOK, TypeOK
  <2>2. op[t].item \in Slot \cup {None, Gone} /\ op[t].ver \in Nat
    BY <2>1 DEF Op
  <2>3. /\ pending' \in Buffer /\ intended' \in Buffer
        /\ settled' \in [Keys -> Nat]
    BY <1>t, <1>6, <2>1, <2>2 DEF Queue, TypeOK, Buffer
  <2>4. op' = [op EXCEPT ![t] = Idle]
    BY <1>6 DEF Queue, Leave
  <2>5. TypeOK'
    BY <1>t, <1>6, <2>3, <2>4, IdleType DEF Queue, TypeOK
  <2>6. OpOK'
    BY <1>t, <1>o, <2>4 DEF TypeOK, OpOK, Idle
  <2>7. QED
    BY <2>5, <2>6
<1>7. ASSUME NEW t \in Threads, NEW K \in Clearable, ClearL1(t, K)
      PROVE  TypeInv'
  <2>1. l1' \in Slots
    BY <1>t, <1>7, WithoutType DEF ClearL1, TypeOK
  <2>2. op' \in [Threads -> Op]
    BY <1>t, <1>7, ClearableAssumption DEF ClearL1, TypeOK, Enter, Idle, Op, Pcs, Modes
  <2>3. TypeOK'
    BY <1>t, <1>7, <2>1, <2>2 DEF ClearL1, TypeOK
  <2>4. OpOK'
    BY <1>t, <1>o, <1>7 DEF ClearL1, TypeOK, OpOK, Enter, Idle
  <2>5. QED
    BY <2>3, <2>4
<1>8. ASSUME NEW t \in Threads, ClearPending(t)
      PROVE  TypeInv'
  <2>1. op[t] \in Op
    BY <1>t DEF TypeOK
  <2>2. \/ op' = [op EXCEPT ![t] = [op[t] EXCEPT !.pc = "clearL2"]]
        \/ op' = [op EXCEPT ![t] = Idle]
    BY <1>8 DEF ClearPending, Enter, Leave
  <2>3. op' \in [Threads -> Op]
    BY <1>t, <2>1, <2>2, IdleType DEF TypeOK, Op, Pcs, Modes
  <2>4. TypeOK'
    BY <1>t, <1>8, <2>3, EmptyType, WithoutBufferType DEF ClearPending, TypeOK
  <2>5. OpOK'
    BY <1>t, <1>o, <2>1, <2>2 DEF TypeOK, OpOK, Idle, Op
  <2>6. QED
    BY <2>4, <2>5
<1>9. ASSUME NEW t \in Threads, ClearL2(t)
      PROVE  TypeInv'
  <2>1. op' = [op EXCEPT ![t] = Idle]
    BY <1>9 DEF ClearL2, Leave
  <2>2. TypeOK'
    BY <1>t, <1>9, <2>1, IdleType, WithoutType, WithoutBufferType DEF ClearL2, TypeOK
  <2>3. OpOK'
    BY <1>t, <1>o, <2>1 DEF TypeOK, OpOK, Idle
  <2>4. QED
    BY <2>2, <2>3
<1>10. ASSUME NEW t \in Threads, SweepL1(t)
       PROVE  TypeInv'
  <2>1. op' \in [Threads -> Op]
    BY <1>t, <1>10 DEF SweepL1, TypeOK, Enter, Idle, Op, Pcs, Modes
  <2>2. TypeOK'
    BY <1>t, <1>10, <2>1, WithoutType DEF SweepL1, TypeOK
  <2>3. OpOK'
    BY <1>t, <1>o, <1>10 DEF SweepL1, TypeOK, OpOK, Enter, Idle
  <2>4. QED
    BY <2>2, <2>3
<1>11. ASSUME NEW t \in Threads, SweepL2(t)
       PROVE  TypeInv'
  <2>1. op' = [op EXCEPT ![t] = Idle]
    BY <1>11 DEF SweepL2, Leave
  <2>2. TypeOK'
    BY <1>t, <1>11, <2>1, IdleType, WithoutType DEF SweepL2, TypeOK
  <2>3. OpOK'
    BY <1>t, <1>o, <2>1 DEF TypeOK, OpOK, Idle
  <2>4. QED
    BY <2>2, <2>3
<1>12. ASSUME NEW f \in Flushers, FlushTake(f)
       PROVE  TypeInv'
  <2>1. batch' \in [Flushers -> Buffer] /\ older' \in [Flushers -> SUBSET Flushers]
    BY <1>t, <1>12 DEF FlushTake, TypeOK
  <2>2. TypeOK'
    BY <1>t, <1>12, <2>1, EmptyType DEF FlushTake, TypeOK
  <2>3. OpOK'
    BY <1>o, <1>12 DEF FlushTake, OpOK
  <2>4. QED
    BY <2>2, <2>3
<1>e. ASSUME NEW f \in Flushers, NEW F, FlushEnd(f, F)
      PROVE  /\ batch' \in [Flushers -> Buffer] /\ intended' \in Buffer
             /\ older' \in [Flushers -> SUBSET Flushers]
             /\ UNCHANGED <<now, diskOpen, l1, op, kills, latest, settled>>
  <2>1. batch' \in [Flushers -> Buffer]
    BY <1>t, <1>e, EmptyType DEF FlushEnd, TypeOK
  <2>2. intended' \in Buffer
    BY <1>t, <1>e, WithoutBufferType DEF FlushEnd, TypeOK
  <2>3. older' \in [Flushers -> SUBSET Flushers]
    BY <1>t, <1>e DEF FlushEnd, TypeOK
  <2>4. QED
    BY <1>e, <2>1, <2>2, <2>3 DEF FlushEnd
<1>13. ASSUME NEW f \in Flushers, FlushCommit(f)
       PROVE  TypeInv'
  <2>1. PICK F \in SUBSET Held(batch[f]) :
          /\ \/ l2' = Written(f, F) /\ durable' = Written(f, F)
             \/ UNCHANGED <<l2, durable>>
          /\ FlushEnd(f, F)
          /\ UNCHANGED pending
    BY <1>13 DEF FlushCommit
  <2>2. Written(f, F) \in Slots
    <3>1. batch[f] \in Buffer
      BY <1>t DEF TypeOK
    <3>2. QED
      BY <1>t, <3>1 DEF Written, Slots, TypeOK, Buffer
  <2>3. TypeOK'
    BY <1>t, <1>e, <2>1, <2>2 DEF TypeOK
  <2>4. OpOK'
    BY <1>o, <1>e, <2>1 DEF OpOK
  <2>5. QED
    BY <2>3, <2>4
<1>14. ASSUME NEW f \in Flushers, FlushFail(f)
       PROVE  TypeInv'
  <2>1. FlushEnd(f, Held(batch[f])) /\ UNCHANGED <<l2, durable, pending>>
    BY <1>14 DEF FlushFail
  <2>2. TypeOK'
    BY <1>t, <1>e, <2>1 DEF TypeOK
  <2>3. OpOK'
    BY <1>o, <1>e, <2>1 DEF OpOK
  <2>4. QED
    BY <2>2, <2>3
<1>15. CASE Tick
  BY <1>t, <1>o, <1>15 DEF Tick, TypeOK, OpOK
<1>16. CASE Restart
  <2>a. op' \in [Threads -> Op]
    BY <1>16, IdleType DEF Restart
  <2>b. kills' \in Nat /\ now' \in Nat /\ settled' \in [Keys -> Nat]
    BY <1>t, <1>16 DEF Restart, TypeOK
  <2>c. diskOpen' \in BOOLEAN /\ older' \in [Flushers -> SUBSET Flushers]
    BY <1>16 DEF Restart
  <2>d. /\ l1' \in Slots /\ l2' \in Slots /\ durable' \in Slots
        /\ pending' \in Buffer /\ batch' \in [Flushers -> Buffer] /\ intended' \in Buffer
    BY <1>t, <1>16, EmptyType DEF Restart, TypeOK
  <2>e. latest' \in [Keys -> Nat]
    BY <1>t, <1>16 DEF Restart, TypeOK
  <2>1. TypeOK'
    BY <2>a, <2>b, <2>c, <2>d, <2>e DEF TypeOK
  <2>2. OpOK'
    BY <1>16 DEF Restart, OpOK, Idle
  <2>3. QED
    BY <2>1, <2>2
<1>17. CASE UNCHANGED vars
  BY <1>t, <1>o, <1>17 DEF vars, code, ghost, TypeOK, OpOK
<1>18. QED
  BY <1>1, <1>2, <1>3, <1>4, <1>5, <1>6, <1>7, <1>8, <1>9, <1>10, <1>11,
     <1>12, <1>13, <1>14, <1>15, <1>16, <1>17
  DEF Next, Begin, Continue, Flush

LEMMA TypeInvariant == Spec => []TypeInv
BY TypeInit, TypeStep, PTL DEF Spec

(* Every variable of the cache keeps its type. *)
THEOREM TypeCorrect == Spec => []TypeOK
<1>1. TypeInv => TypeOK
  BY DEF TypeInv
<1>2. QED
  BY TypeInvariant, <1>1, PTL

-----------------------------------------------------------------------------
(* The bound on L1 *)

(* The keys may be infinitely many; those that are held are not. *)
L1Inv == IsFiniteSet(Held(l1)) /\ L1Bounded

LEMMA EvictionSizeType == EvictionSize \in Nat /\ EvictionSize >= 1
BY CapAssumption DEF EvictionSize

LEMMA HeldAfterPut ==
    ASSUME NEW layer \in Slots, NEW D, NEW k \in Keys, NEW s \in Slot
    PROVE  Held([Without(layer, D) EXCEPT ![k] = s]) = (Held(layer) \ D) \cup {k}
BY NoneAssumption DEF Held, Without, Slots

(* Dropping slots keeps the bound. *)
LEMMA BoundedWithout ==
    ASSUME L1Inv, NEW K, l1' = Without(l1, K)
    PROVE  L1Inv'
<1>1. Held(l1)' \subseteq Held(l1)
  BY DEF Held, Without
<1>2. QED
  <2>1. /\ IsFiniteSet(Held(l1)')
        /\ Cardinality(Held(l1)') <= Cardinality(Held(l1))
        /\ Cardinality(Held(l1)') \in Nat /\ Cardinality(Held(l1)) \in Nat
    BY <1>1, FS_Subset, FS_CardinalityType DEF L1Inv
  <2>2. QED
    BY <2>1, CapAssumption DEF L1Inv, L1Bounded

(* Storing a slot keeps the bound: the eviction makes the room it needs. *)
LEMMA BoundedPut ==
    ASSUME l1 \in Slots, L1Inv, NEW k \in Keys, NEW s \in Slot, PutL1(k, s)
    PROVE  L1Inv'
<1> DEFINE held == Held(l1)
           live == held \ Dead(l1)
<1>1. PICK D \in Evictions(k) : l1' = [Without(l1, D) EXCEPT ![k] = s]
  BY DEF PutL1
<1>2. Held(l1)' = (held \ D) \cup {k}
  <2>1. Held([Without(l1, D) EXCEPT ![k] = s]) = (held \ D) \cup {k}
    BY HeldAfterPut
  <2>2. QED
    BY <1>1, <2>1 DEF Held
<1>3. IsFiniteSet(held) /\ Cardinality(held) \in Nat /\ Cardinality(held) <= Cap
  BY FS_CardinalityType DEF L1Inv, L1Bounded
<1>4. IsFiniteSet(live) /\ Cardinality(live) \in Nat /\ Cardinality(live) <= Cardinality(held)
  BY <1>3, FS_Subset, FS_CardinalityType
<1>5. SUFFICES IsFiniteSet((held \ D) \cup {k}) /\ Cardinality((held \ D) \cup {k}) <= Cap
  BY <1>2 DEF L1Inv, L1Bounded
<1>6. CASE k \in held
  <2>1. D = {}
    BY <1>1, <1>6 DEF Evictions
  <2>2. (held \ D) \cup {k} = held
    BY <1>6, <2>1
  <2>3. QED
    BY <1>3, <2>2
<1>7. ASSUME NEW S \in SUBSET held, k \notin held, Cardinality(S) < Cap
      PROVE  IsFiniteSet(S \cup {k}) /\ Cardinality(S \cup {k}) <= Cap
  <2>1. IsFiniteSet(S) /\ Cardinality(S) \in Nat
    BY <1>3, FS_Subset, FS_CardinalityType
  <2>2. IsFiniteSet(S \cup {k}) /\ Cardinality(S \cup {k}) = Cardinality(S) + 1
    BY <1>7, <2>1, FS_AddElement
  <2>3. QED
    BY <1>7, <2>1, <2>2, CapAssumption
<1>8. CASE k \notin held /\ Cardinality(held) < Cap
  <2>1. D = {}
    BY <1>1, <1>8 DEF Evictions
  <2>2. held \ D = held
    BY <2>1
  <2>3. QED
    BY <1>7, <1>8, <2>2
<1>9. CASE k \notin held /\ ~(Cardinality(held) < Cap) /\ Cardinality(live) < Cap
  <2>1. D = Dead(l1)
    BY <1>1, <1>9 DEF Evictions
  <2>2. QED
    BY <1>7, <1>9, <2>1
<1>10. CASE k \notin held /\ ~(Cardinality(held) < Cap) /\ ~(Cardinality(live) < Cap)
  <2>1. PICK E \in SoonestOf(live) : D = Dead(l1) \cup E
    BY <1>1, <1>10 DEF Evictions
  <2>2. E \in SUBSET live /\ Cardinality(E) = EvictionSize
    BY <2>1 DEF SoonestOf
  <2>3. held \ D = live \ E
    BY <2>1
  <2>4. IsFiniteSet(E) /\ live \cap E = E
    BY <1>4, <2>2, FS_Subset
  <2>5. Cardinality(live \ E) = Cardinality(live) - EvictionSize
    BY <1>4, <2>2, <2>4, FS_Difference
  <2>6. Cardinality(live \ E) < Cap
    BY <1>3, <1>4, <2>5, EvictionSizeType, CapAssumption
  <2>7. QED
    BY <1>7, <1>10, <2>3, <2>6
<1>11. QED
  BY <1>6, <1>8, <1>9, <1>10

LEMMA BoundedInit == Init => L1Inv
<1>1. ASSUME Init PROVE Held(l1) = {}
  BY <1>1 DEF Init, Held, Empty
<1>2. QED
  BY <1>1, FS_EmptySet, CapAssumption DEF L1Inv, L1Bounded

LEMMA BoundedStep == TypeInv /\ L1Inv /\ [Next]_vars => L1Inv'
<1> SUFFICES ASSUME TypeInv, L1Inv, [Next]_vars
             PROVE  L1Inv'
  OBVIOUS
<1>t. TypeOK /\ OpOK /\ l1 \in Slots
  BY DEF TypeInv, TypeOK
<1>u. ASSUME l1' = l1 PROVE L1Inv'
  BY <1>u DEF L1Inv, L1Bounded, Held
<1>1. ASSUME NEW t \in Threads, NEW k \in Keys, NEW mode \in Modes, GetMiss(t, k, mode)
      PROVE  L1Inv'
  BY <1>1, <1>u, BoundedWithout DEF GetMiss
<1>2. ASSUME NEW t \in Threads, Promote(t)
      PROVE  L1Inv'
  BY <1>t, <1>2, BoundedPut DEF Promote, OpOK
<1>3. ASSUME NEW t \in Threads, NEW k \in Keys, NEW ttl \in TTLs, NEW grace \in Graces,
             Put(t, k, ttl, grace)
      PROVE  L1Inv'
  <2>1. PutL1(k, NewSlot(k, ttl, grace))
    BY <1>3 DEF Put
  <2>2. QED
    BY <1>t, <2>1, NewSlotType, BoundedPut
<1>4. ASSUME NEW t \in Threads, NEW k \in Keys, Invalidate(t, k)
      PROVE  L1Inv'
  BY <1>4, BoundedWithout DEF Invalidate
<1>5. ASSUME NEW t \in Threads, NEW K \in Clearable, ClearL1(t, K)
      PROVE  L1Inv'
  BY <1>5, BoundedWithout DEF ClearL1
<1>6. ASSUME NEW t \in Threads, SweepL1(t)
      PROVE  L1Inv'
  BY <1>6, BoundedWithout DEF SweepL1
<1>7. ASSUME NEW t \in Threads,
             ReadL2(t) \/ Queue(t) \/ ClearPending(t) \/ ClearL2(t) \/ SweepL2(t)
      PROVE  L1Inv'
  BY <1>7, <1>u DEF ReadL2, Queue, ClearPending, ClearL2, SweepL2
<1>8. CASE (\E f \in Flushers : Flush(f)) \/ Tick \/ UNCHANGED vars
  BY <1>8, <1>u DEF Flush, FlushTake, FlushCommit, FlushFail, FlushEnd, Tick, vars, code
<1>9. CASE Restart
  <2>1. Held(l1)' = {}
    BY <1>9 DEF Restart, Held, Empty
  <2>2. QED
    BY <2>1, FS_EmptySet, CapAssumption DEF L1Inv, L1Bounded
<1>10. QED
  BY <1>1, <1>2, <1>3, <1>4, <1>5, <1>6, <1>7, <1>8, <1>9 DEF Next, Begin, Continue

(* No schedule of puts and promotions takes the shard past its cap. *)
THEOREM L1StaysBounded == Spec => []L1Bounded
<1>1. Init => TypeInv /\ L1Inv
  BY TypeInit, BoundedInit
<1>2. (TypeInv /\ L1Inv) /\ [Next]_vars => (TypeInv /\ L1Inv)'
  BY TypeStep, BoundedStep
<1>3. TypeInv /\ L1Inv => L1Bounded
  BY DEF L1Inv
<1>4. QED
  BY <1>1, <1>2, <1>3, PTL DEF Spec

-----------------------------------------------------------------------------
(* The copies of a write agree *)

LEMMA CopyPlaces ==
    ASSUME NEW k
    PROVE  \A x : x \in Copies(k) <=>
              /\ x # None /\ x # Gone
              /\ \/ x \in {l1[k], l2[k], durable[k], pending[k]}
                 \/ \E f \in Flushers : x = batch[f][k]
                 \/ \E u \in Threads : op[u].key = k /\ x = op[u].item
BY DEF Copies

LEMMA CopyPlacesNext ==
    ASSUME NEW k
    PROVE  \A x : x \in Copies(k)' <=>
              /\ x # None /\ x # Gone
              /\ \/ x \in {l1'[k], l2'[k], durable'[k], pending'[k]}
                 \/ \E f \in Flushers : x = batch'[f][k]
                 \/ \E u \in Threads : op'[u].key = k /\ x = op'[u].item
BY DEF Copies

LEMMA PutL1Effect ==
    ASSUME l1 \in Slots, NEW k \in Keys, NEW s, PutL1(k, s), NEW j \in Keys
    PROVE  l1'[j] \in {None, l1[j]} \/ (j = k /\ l1'[j] = s)
BY DEF PutL1, Without, Slots

LEMMA OpAfter ==
    ASSUME NEW t \in Threads, op \in [Threads -> Op], NEW o, op' = [op EXCEPT ![t] = o],
           NEW u \in Threads
    PROVE  op'[u] = IF u = t THEN o ELSE op[u]
OBVIOUS

(* No step other than a put of k makes a copy that was not there. *)
LEMMA CopiesMoveOnly ==
    ASSUME TypeInv, [Next]_vars, NEW k \in Keys,
           ~ \E t \in Threads, ttl \in TTLs, grace \in Graces : Put(t, k, ttl, grace)
    PROVE  Copies(k)' \subseteq Copies(k)
<1> SUFFICES ASSUME NEW x, x \in Copies(k)'
             PROVE  x \in Copies(k)
  OBVIOUS
<1>t. /\ TypeOK /\ OpOK /\ l1 \in Slots /\ l2 \in Slots /\ durable \in Slots
      /\ pending \in Buffer /\ batch \in [Flushers -> Buffer]
      /\ op \in [Threads -> Op]
  BY DEF TypeInv, TypeOK
<1> DEFINE Was == \/ x \in {l1[k], l2[k], durable[k], pending[k]}
                  \/ \E f \in Flushers : x = batch[f][k]
                  \/ \E u \in Threads : op[u].key = k /\ x = op[u].item
<1>a. /\ x # None /\ x # Gone
      /\ \/ x \in {l1'[k], l2'[k], durable'[k], pending'[k]}
         \/ \E f \in Flushers : x = batch'[f][k]
         \/ \E u \in Threads : op'[u].key = k /\ x = op'[u].item
  BY CopyPlacesNext
<1>b. SUFFICES Was
  BY <1>a, CopyPlaces
<1>i. Idle.item = None
  BY DEF Idle
<1>w. ASSUME NEW layer, NEW K, Without(layer, K)[k] = x PROVE layer[k] = x
  BY <1>a, <1>w DEF Without
<1>e. Empty[k] = None
  BY DEF Empty
<1>1. ASSUME NEW t \in Threads, NEW j \in Keys, NEW mode \in Modes, GetMiss(t, j, mode)
      PROVE  Was
  <2> DEFINE o == [Idle EXCEPT !.pc = "readL2", !.key = j, !.mode = mode,
                               !.floor = settled[j]]
  <2>1. o.item = None
    BY DEF Idle
  <2>2. op' = [op EXCEPT ![t] = o] \/ op' = op
    BY <1>1 DEF GetMiss, Enter
  <2> HIDE DEF o
  <2>3. \A u \in Threads : op'[u].item # None => op'[u] = op[u]
    BY <1>t, <2>1, <2>2
  <2>4. l1'[k] = x => l1[k] = x
    BY <1>1, <1>w DEF GetMiss
  <2>5. QED
    BY <1>a, <1>1, <2>3, <2>4 DEF GetMiss
<1>2. ASSUME NEW t \in Threads, ReadL2(t)
      PROVE  Was
  <2>1. op[t] \in Op
    BY <1>t
  <2> DEFINE o == [op[t] EXCEPT !.pc = "promote", !.item = l2[op[t].key],
                        !.mode = "fresh"]
  <2>2. o.key = op[t].key /\ o.item = l2[op[t].key]
    BY <2>1 DEF Op
  <2>3. op' = [op EXCEPT ![t] = o] \/ op' = [op EXCEPT ![t] = Idle]
    BY <1>2 DEF ReadL2, Enter, Leave
  <2> HIDE DEF o
  <2>4. \A u \in Threads : \/ op'[u] = op[u] \/ op'[u].item = None
                           \/ op'[u].key = k => op'[u].item = l2[k]
    BY <1>t, <1>i, <2>2, <2>3
  <2>5. QED
    BY <1>a, <1>2, <2>4 DEF ReadL2
<1>3. ASSUME NEW t \in Threads, Promote(t)
      PROVE  Was
  <2>1. op[t].key \in Keys
    BY <1>t, <1>3 DEF Promote, OpOK
  <2>2. l1'[k] \in {None, l1[k]} \/ (k = op[t].key /\ l1'[k] = op[t].item)
    BY <1>t, <1>3, <2>1, PutL1Effect DEF Promote
  <2>3. op' = [op EXCEPT ![t] = Idle]
    BY <1>3 DEF Promote, Leave
  <2>4. \A u \in Threads : op'[u] = op[u] \/ op'[u].item = None
    BY <1>t, <1>i, <2>3
  <2>5. QED
    BY <1>a, <1>3, <2>2, <2>4 DEF Promote
<1>4. ASSUME NEW t \in Threads, NEW j \in Keys, NEW ttl \in TTLs, NEW grace \in Graces,
             Put(t, j, ttl, grace), j # k
      PROVE  Was
  <2> DEFINE s == NewSlot(j, ttl, grace)
             o == [Idle EXCEPT !.pc = "queue", !.key = j, !.item = s, !.ver = s.v]
  <2>1. o.key = j
    BY DEF Idle
  <2>2. PutL1(j, s) /\ op' = [op EXCEPT ![t] = o]
    BY <1>4 DEF Put, Enter
  <2> HIDE DEF s, o
  <2>3. \A u \in Threads : op'[u] = op[u] \/ op'[u].key = j
    BY <1>t, <2>1, <2>2
  <2>4. l1'[k] \in {None, l1[k]}
    BY <1>t, <1>4, <2>2, PutL1Effect
  <2>5. QED
    BY <1>a, <1>4, <2>3, <2>4 DEF Put
<1>5. ASSUME NEW t \in Threads, NEW j \in Keys, Invalidate(t, j)
      PROVE  Was
  <2> DEFINE o == [Idle EXCEPT !.pc = "queue", !.key = j, !.item = Gone,
                               !.ver = latest[j] + 1]
  <2>1. o.item = Gone
    BY DEF Idle
  <2>2. op' = [op EXCEPT ![t] = o]
    BY <1>5 DEF Invalidate, Enter
  <2> HIDE DEF o
  <2>3. \A u \in Threads : op'[u] = op[u] \/ op'[u].item = Gone
    BY <1>t, <2>1, <2>2
  <2>4. l1'[k] = x => l1[k] = x
    BY <1>5, <1>w DEF Invalidate
  <2>5. QED
    BY <1>a, <1>5, <2>3, <2>4 DEF Invalidate
<1>6. ASSUME NEW t \in Threads, Queue(t)
      PROVE  Was
  <2>1. op' = [op EXCEPT ![t] = Idle]
    BY <1>6 DEF Queue, Leave
  <2>2. \A u \in Threads : op'[u] = op[u] \/ op'[u].item = None
    BY <1>t, <1>i, <2>1
  <2>3. pending'[k] = pending[k] \/ (op[t].key = k /\ pending'[k] = op[t].item)
    BY <1>t, <1>6 DEF Queue, Buffer
  <2>4. QED
    BY <1>a, <1>6, <2>2, <2>3 DEF Queue
<1>7. ASSUME NEW t \in Threads, NEW K \in Clearable, ClearL1(t, K)
      PROVE  Was
  <2> DEFINE o == [Idle EXCEPT !.pc = "clearPending", !.drop = K]
  <2>1. o.item = None
    BY DEF Idle
  <2>2. op' = [op EXCEPT ![t] = o]
    BY <1>7 DEF ClearL1, Enter
  <2> HIDE DEF o
  <2>3. \A u \in Threads : op'[u] = op[u] \/ op'[u].item = None
    BY <1>t, <2>1, <2>2
  <2>4. l1'[k] = x => l1[k] = x
    BY <1>7, <1>w DEF ClearL1
  <2>5. QED
    BY <1>a, <1>7, <2>3, <2>4 DEF ClearL1
<1>8. ASSUME NEW t \in Threads, ClearPending(t)
      PROVE  Was
  <2>1. op[t] \in Op
    BY <1>t
  <2> DEFINE o == [op[t] EXCEPT !.pc = "clearL2"]
  <2>2. o.key = op[t].key /\ o.item = op[t].item
    BY <2>1 DEF Op
  <2>3. op' = [op EXCEPT ![t] = o] \/ op' = [op EXCEPT ![t] = Idle]
    BY <1>8 DEF ClearPending, Enter, Leave
  <2> HIDE DEF o
  <2>4. \A u \in Threads : \/ op'[u].item = None
                           \/ op'[u].key = op[u].key /\ op'[u].item = op[u].item
    BY <1>t, <1>i, <2>2, <2>3
  <2>5. pending'[k] = None
    BY <1>8, <1>e DEF ClearPending
  <2>6. QED
    BY <1>a, <1>8, <2>4, <2>5 DEF ClearPending
<1>9. ASSUME NEW t \in Threads, ClearL2(t) \/ SweepL2(t)
      PROVE  Was
  <2>1. op' = [op EXCEPT ![t] = Idle]
    BY <1>9 DEF ClearL2, SweepL2, Leave
  <2>2. \A u \in Threads : op'[u] = op[u] \/ op'[u].item = None
    BY <1>t, <1>i, <2>1
  <2>3. l2'[k] = x => l2[k] = x
    BY <1>9, <1>w DEF ClearL2, SweepL2
  <2>4. QED
    BY <1>a, <1>9, <2>2, <2>3 DEF ClearL2, SweepL2
<1>10. ASSUME NEW t \in Threads, SweepL1(t)
       PROVE  Was
  <2> DEFINE o == [Idle EXCEPT !.pc = "sweepL2"]
  <2>1. o.item = None
    BY DEF Idle
  <2>2. op' = [op EXCEPT ![t] = o] \/ op' = op
    BY <1>10 DEF SweepL1, Enter
  <2> HIDE DEF o
  <2>3. \A u \in Threads : op'[u] = op[u] \/ op'[u].item = None
    BY <1>t, <2>1, <2>2
  <2>4. l1'[k] = x => l1[k] = x
    BY <1>10, <1>w DEF SweepL1
  <2>5. QED
    BY <1>a, <1>10, <2>3, <2>4 DEF SweepL1
<1>11. ASSUME NEW f \in Flushers, FlushTake(f)
       PROVE  Was
  <2>1. \A g \in Flushers : batch'[g][k] \in {batch[g][k], pending[k]}
    BY <1>t, <1>11 DEF FlushTake
  <2>2. QED
    BY <1>a, <1>e, <1>11, <2>1 DEF FlushTake
<1>f. ASSUME NEW f \in Flushers, NEW F, FlushEnd(f, F)
      PROVE  /\ \A g \in Flushers : batch'[g][k] \in {batch[g][k], None}
             /\ UNCHANGED <<l1, op>>
  BY <1>t, <1>e, <1>f DEF FlushEnd
<1>12. ASSUME NEW f \in Flushers, FlushCommit(f)
       PROVE  Was
  <2>1. PICK F : /\ \/ l2' = Written(f, F) /\ durable' = Written(f, F)
                    \/ UNCHANGED <<l2, durable>>
                 /\ FlushEnd(f, F) /\ UNCHANGED pending
    BY <1>12 DEF FlushCommit
  <2>2. Written(f, F)[k] \in {l2[k], None, batch[f][k]}
    BY DEF Written
  <2>3. QED
    BY <1>a, <1>f, <2>1, <2>2
<1>13. ASSUME NEW f \in Flushers, FlushFail(f)
       PROVE  Was
  BY <1>a, <1>f, <1>13 DEF FlushFail
<1>14. CASE Tick \/ UNCHANGED vars
  BY <1>a, <1>14 DEF Tick, vars, code
<1>15. CASE Restart
  <2>1. \A u \in Threads : op'[u].item = None
    BY <1>15, <1>i DEF Restart
  <2>2. QED
    BY <1>a, <1>e, <1>15, <2>1 DEF Restart
<1>16. QED
  BY <1>1, <1>2, <1>3, <1>4, <1>5, <1>6, <1>7, <1>8, <1>9, <1>10, <1>11,
     <1>12, <1>13, <1>14, <1>15
  DEF Next, Begin, Continue, Flush

(* A put of k makes one new value, of a version no copy had. *)
LEMMA PutMakesOne ==
    ASSUME TypeInv, NEW k \in Keys, NEW t \in Threads, NEW ttl \in TTLs,
           NEW grace \in Graces, Put(t, k, ttl, grace)
    PROVE  /\ Copies(k)' \subseteq Copies(k) \cup {NewSlot(k, ttl, grace)}
           /\ latest'[k] = latest[k] + 1
<1> DEFINE s == NewSlot(k, ttl, grace)
           o == [Idle EXCEPT !.pc = "queue", !.key = k, !.item = s, !.ver = s.v]
<1>t. /\ TypeOK /\ l1 \in Slots /\ op \in [Threads -> Op] /\ latest \in [Keys -> Nat]
  BY DEF TypeInv, TypeOK
<1>1. s.v = latest[k] + 1
  BY <1>t, NewSlotType
<1>2. o.item = s
  BY DEF Idle
<1>3. /\ PutL1(k, s) /\ op' = [op EXCEPT ![t] = o]
      /\ latest' = [latest EXCEPT ![k] = s.v]
      /\ UNCHANGED <<l2, durable, pending, batch>>
  BY DEF Put, Enter
<1> HIDE DEF s, o
<1>4. \A u \in Threads : op'[u] = op[u] \/ op'[u].item = s
  BY <1>t, <1>2, <1>3
<1>5. l1'[k] \in {None, l1[k], s}
  BY <1>t, <1>3, PutL1Effect
<1>6. ASSUME NEW x, x \in Copies(k)' PROVE x \in Copies(k) \cup {s}
  <2>1. /\ x # None /\ x # Gone
        /\ \/ x \in {l1'[k], l2'[k], durable'[k], pending'[k]}
           \/ \E f \in Flushers : x = batch'[f][k]
           \/ \E u \in Threads : op'[u].key = k /\ x = op'[u].item
    BY <1>6, CopyPlacesNext
  <2>2. x # s => \/ x \in {l1[k], l2[k], durable[k], pending[k]}
                 \/ \E f \in Flushers : x = batch[f][k]
                 \/ \E u \in Threads : op'[u].key = k /\ x = op'[u].item
    BY <1>3, <1>5, <2>1
  <2>3. x # s => \/ x \in {l1[k], l2[k], durable[k], pending[k]}
                 \/ \E f \in Flushers : x = batch[f][k]
                 \/ \E u \in Threads : op[u].key = k /\ x = op[u].item
    BY <1>4, <2>2
  <2>4. QED
    BY <2>1, <2>3, CopyPlaces
<1>7. QED
  BY <1>t, <1>1, <1>3, <1>6 DEF s

(* How a step numbers its writes: at most one of them, of one key.         *)
LEMMA LatestSteps ==
    ASSUME TypeInv, [Next]_vars
    PROVE  \/ latest' = latest
           \/ \E j \in Keys : latest' = [latest EXCEPT ![j] = latest[j] + 1]
<1>1. ASSUME NEW t \in Threads, NEW j \in Keys, NEW ttl \in TTLs, NEW grace \in Graces,
             Put(t, j, ttl, grace)
      PROVE  latest' = [latest EXCEPT ![j] = latest[j] + 1]
  BY <1>1, NewSlotType DEF Put, TypeInv
<1>2. ASSUME NEW t \in Threads, NEW j \in Keys, Invalidate(t, j)
      PROVE  latest' = [latest EXCEPT ![j] = latest[j] + 1]
  BY <1>2 DEF Invalidate
<1>3. QED
  BY <1>1, <1>2 DEF Next, Begin, Continue, Flush, GetMiss, ReadL2, Promote, Queue, ClearL1,
     ClearPending, ClearL2, SweepL1, SweepL2, FlushTake, FlushCommit, FlushFail, FlushEnd,
     Tick, Restart, vars, ghost

LEMMA LatestGrows ==
    ASSUME TypeInv, [Next]_vars, NEW k \in Keys
    PROVE  latest[k] \in Nat /\ latest'[k] \in Nat /\ latest[k] <= latest'[k]
BY LatestSteps DEF TypeInv, TypeOK

LEMMA CopiesInit == Init => CopiesAgree
<1>1. ASSUME Init, NEW k \in Keys PROVE Copies(k) = {}
  BY <1>1, CopyPlaces DEF Init, Empty, Idle
<1>2. QED
  BY <1>1 DEF CopiesAgree

LEMMA CopiesStep == TypeInv /\ CopiesAgree /\ [Next]_vars => CopiesAgree'
<1> SUFFICES ASSUME TypeInv, CopiesAgree, [Next]_vars, NEW k \in Keys,
                    NEW x \in Copies(k)', NEW y \in Copies(k)'
             PROVE  x.v \in 1 .. latest'[k] /\ (x.v = y.v => x = y)
  BY DEF CopiesAgree
<1>1. latest[k] \in Nat /\ latest'[k] \in Nat /\ latest[k] <= latest'[k]
  BY LatestGrows
<1>2. \A a, b \in Copies(k) : a.v \in 1 .. latest[k] /\ (a.v = b.v => a = b)
  BY DEF CopiesAgree
<1>3. ASSUME NEW t \in Threads, NEW ttl \in TTLs, NEW grace \in Graces,
             Put(t, k, ttl, grace)
      PROVE  x.v \in 1 .. latest'[k] /\ (x.v = y.v => x = y)
  <2> DEFINE s == NewSlot(k, ttl, grace)
  <2>1. s.v = latest[k] + 1
    BY NewSlotType DEF TypeInv
  <2>2. /\ x \in Copies(k) \/ x = s
        /\ y \in Copies(k) \/ y = s
        /\ latest'[k] = latest[k] + 1
    BY <1>3, PutMakesOne
  <2> HIDE DEF s
  <2>3. QED
    BY <1>1, <1>2, <2>1, <2>2
<1>4. ASSUME ~ \E t \in Threads, ttl \in TTLs, grace \in Graces : Put(t, k, ttl, grace)
      PROVE  x.v \in 1 .. latest'[k] /\ (x.v = y.v => x = y)
  <2>1. x \in Copies(k) /\ y \in Copies(k)
    BY <1>4, CopiesMoveOnly
  <2>2. QED
    BY <1>1, <1>2, <2>1
<1>5. QED
  BY <1>3, <1>4

(* A value keeps its deadlines through every layer, crash and return. *)
THEOREM CopiesAlwaysAgree == Spec => []CopiesAgree
<1>1. Init => TypeInv /\ CopiesAgree
  BY TypeInit, CopiesInit
<1>2. (TypeInv /\ CopiesAgree) /\ [Next]_vars => (TypeInv /\ CopiesAgree)'
  BY TypeStep, CopiesStep
<1>3. QED
  BY <1>1, <1>2, PTL DEF Spec

-----------------------------------------------------------------------------
(* Cache implements CachePromise *)

(* A put adds the copies of one value, to those of its key alone.          *)
LEMMA PutKeepsPromise ==
    ASSUME TypeInv, [Next]_vars, NEW k \in Keys, NEW t \in Threads, NEW ttl \in TTLs,
           NEW grace \in Graces, Put(t, k, ttl, grace)
    PROVE  Promised!Write(k)
<1> DEFINE s == NewSlot(k, ttl, grace)
<1>1. s.v = latest[k] + 1 /\ latest' = [latest EXCEPT ![k] = latest[k] + 1]
  BY NewSlotType DEF TypeInv, Put
<1>2. Copies(k)' \subseteq Copies(k) \cup {s} /\ latest'[k] = latest[k] + 1
  BY PutMakesOne
<1> HIDE DEF s
<1>3. \A x, y \in Copies(k)' \ Copies(k) : x.v = latest'[k] /\ x = y
  BY <1>1, <1>2
<1>4. ASSUME NEW j \in Keys \ {k} PROVE Copies(j)' \subseteq Copies(j)
  <2>1. ~ \E u \in Threads, l \in TTLs, g \in Graces : Put(u, j, l, g)
    <3> SUFFICES ASSUME NEW u \in Threads, NEW l \in TTLs, NEW g \in Graces, Put(u, j, l, g)
                 PROVE  FALSE
      OBVIOUS
    <3>1. latest'[j] = latest[j] + 1
      BY PutMakesOne
    <3>2. latest'[j] = latest[j] /\ latest[j] \in Nat
      BY <1>1 DEF TypeInv, TypeOK
    <3>3. QED
      BY <3>1, <3>2
  <2>2. QED
    BY <2>1, CopiesMoveOnly
<1>5. QED
  BY <1>1, <1>3, <1>4 DEF Promised!Write, Promised!Fewer

LEMMA PromiseStep == TypeInv /\ [Next]_vars => [Promised!Next]_(Promised!vars)
<1> SUFFICES ASSUME TypeInv, [Next]_vars
             PROVE  Promised!Next
  OBVIOUS
<1>1. ASSUME NEW k \in Keys, NEW t \in Threads, NEW ttl \in TTLs, NEW grace \in Graces,
             Put(t, k, ttl, grace)
      PROVE  Promised!Next
  BY <1>1, PutKeepsPromise DEF Promised!Next
<1>2. ASSUME ~ \E k \in Keys, t \in Threads, ttl \in TTLs, grace \in Graces :
                   Put(t, k, ttl, grace)
      PROVE  Promised!Next
  <2>1. \A k \in Keys : Copies(k)' \subseteq Copies(k)
    BY <1>2, CopiesMoveOnly
  <2>2. CASE latest' = latest
    BY <2>1, <2>2 DEF Promised!Next, Promised!Lose, Promised!Fewer
  <2>3. ASSUME NEW j \in Keys, latest' = [latest EXCEPT ![j] = latest[j] + 1]
        PROVE  Promised!Next
    BY <2>1, <2>3 DEF Promised!Next, Promised!Write, Promised!Fewer
  <2>4. QED
    BY <2>2, <2>3, LatestSteps
<1>3. QED
  BY <1>1, <1>2

(* No copy of a value that has left every layer comes back, and none that   *)
(* is there is changed, whatever reads, writes, clears, sweeps, commits and *)
(* kills do at the same time.                                               *)
THEOREM CacheKeepsPromise == Spec => NothingComesBack
<1>1. Init => Promised!Init
  <2> SUFFICES ASSUME Init PROVE Promised!Init
    OBVIOUS
  <2>1. \A k \in Keys : Copies(k) = {}
    BY CopyPlaces DEF Init, Empty, Idle
  <2>2. QED
    BY <2>1 DEF Init, Promised!Init
<1>2. QED
  BY <1>1, TypeInit, TypeStep, PromiseStep, PTL DEF Spec, NothingComesBack, Promised!Spec

-----------------------------------------------------------------------------
(* Without a database the cache is current *)

(* No read or promotion of a row is under way without a database, and what *)
(* L1 holds is the last write; what has returned was begun.                *)
NoDisk ==
    ~diskOpen =>
        /\ \A t \in Threads : op[t].pc \notin {"readL2", "promote", "clearL2", "sweepL2"}
        /\ \A k \in Keys : l1[k] # None => l1[k].v = latest[k]

Begun ==
    /\ \A k \in Keys : settled[k] <= latest[k]
    /\ \A t \in Threads : op[t].pc = "queue" => op[t].ver <= latest[op[t].key]

MemInv == NoDisk /\ Begun

LEMMA MemInit == Init => MemInv
BY DEF Init, MemInv, NoDisk, Begun, Idle, Empty

LEMMA MemStep == TypeInv /\ MemInv /\ [Next]_vars => MemInv'
<1> SUFFICES ASSUME TypeInv, MemInv, [Next]_vars
             PROVE  MemInv'
  OBVIOUS
<1>t. /\ TypeOK /\ OpOK /\ l1 \in Slots /\ op \in [Threads -> Op]
      /\ latest \in [Keys -> Nat] /\ settled \in [Keys -> Nat]
  BY DEF TypeInv, TypeOK
<1>m. NoDisk /\ Begun
  BY DEF MemInv
<1>i. Idle.pc = "idle"
  BY DEF Idle
<1>v. \A u \in Threads : op[u].pc = "queue" =>
        op[u].key \in Keys /\ op[u].ver \in Nat /\ op[u].ver <= latest[op[u].key]
  BY <1>t, <1>m DEF Begun, OpOK, Op
<1>1. ASSUME NEW t \in Threads, NEW j \in Keys, NEW mode \in Modes, GetMiss(t, j, mode)
      PROVE  MemInv'
  <2> DEFINE o == [Idle EXCEPT !.pc = "readL2", !.key = j, !.mode = mode,
                               !.floor = settled[j]]
  <2>1. o.pc = "readL2"
    BY DEF Idle
  <2>2. (diskOpen /\ op' = [op EXCEPT ![t] = o]) \/ op' = op
    BY <1>1 DEF GetMiss, Enter
  <2> HIDE DEF o
  <2>3. \A k \in Keys : l1'[k] \in {None, l1[k]}
    BY <1>1 DEF GetMiss, Without
  <2>4. diskOpen' = diskOpen /\ latest' = latest /\ settled' = settled
    BY <1>1 DEF GetMiss
  <2>5. NoDisk'
    BY <1>m, <2>2, <2>3, <2>4 DEF NoDisk
  <2>6. Begun'
    BY <1>t, <1>m, <2>1, <2>2, <2>4 DEF Begun
  <2>7. QED
    BY <2>5, <2>6 DEF MemInv
<1>2. ASSUME NEW t \in Threads, ReadL2(t) \/ Promote(t) \/ ClearL2(t) \/ SweepL2(t)
      PROVE  MemInv'
  <2>1. diskOpen
    BY <1>2, <1>m DEF ReadL2, Promote, ClearL2, SweepL2, NoDisk
  <2>2. diskOpen' = diskOpen /\ latest' = latest /\ settled' = settled
    BY <1>2 DEF ReadL2, Promote, ClearL2, SweepL2
  <2> DEFINE o == [op[t] EXCEPT !.pc = "promote", !.item = l2[op[t].key],
                        !.mode = "fresh"]
  <2>3. o.pc = "promote"
    BY <1>t DEF Op
  <2>4. op' = [op EXCEPT ![t] = o] \/ op' = [op EXCEPT ![t] = Idle]
    BY <1>2 DEF ReadL2, Promote, ClearL2, SweepL2, Enter, Leave
  <2> HIDE DEF o
  <2>5. Begun'
    BY <1>t, <1>m, <1>i, <2>2, <2>3, <2>4 DEF Begun
  <2>6. QED
    BY <2>1, <2>2, <2>5 DEF MemInv, NoDisk
<1>3. ASSUME NEW t \in Threads, NEW k \in Keys, NEW ttl \in TTLs, NEW grace \in Graces,
             Put(t, k, ttl, grace)
      PROVE  MemInv'
  <2> DEFINE s == NewSlot(k, ttl, grace)
             o == [Idle EXCEPT !.pc = "queue", !.key = k, !.item = s, !.ver = s.v]
  <2>1. s.v = latest[k] + 1
    BY <1>t, NewSlotType
  <2>2. o.pc = "queue" /\ o.key = k /\ o.ver = s.v
    BY DEF Idle
  <2>3. /\ PutL1(k, s) /\ op' = [op EXCEPT ![t] = o]
        /\ latest' = [latest EXCEPT ![k] = s.v]
        /\ diskOpen' = diskOpen /\ settled' = settled
    BY <1>3 DEF Put, Enter
  <2> HIDE DEF s, o
  <2>4. \A j \in Keys : l1'[j] \in {None, l1[j]} \/ (j = k /\ l1'[j] = s)
    BY <1>t, <2>3, PutL1Effect
  <2>5. \A j \in Keys : l1'[j] = s \/ l1'[j] \in {None, l1[j]}
    BY <2>4
  <2>6. l1'[k] = s
    BY <1>t, <2>3 DEF PutL1, Without, Slots
  <2>7. NoDisk'
    BY <1>t, <1>m, <2>1, <2>2, <2>3, <2>4, <2>6 DEF NoDisk
  <2>a. \A j \in Keys : latest[j] \in Nat /\ latest'[j] \in Nat /\ latest[j] <= latest'[j]
    BY <1>t, <2>1, <2>3
  <2>b. \A u \in Threads : op'[u] = op[u] \/ (op'[u] = o /\ o.ver = latest'[k])
    BY <1>t, <2>2, <2>3
  <2>c. \A u \in Threads : op'[u].pc = "queue" => op'[u].ver <= latest'[op'[u].key]
    <3> SUFFICES ASSUME NEW u \in Threads, op'[u].pc = "queue"
                 PROVE  op'[u].ver <= latest'[op'[u].key]
      OBVIOUS
    <3>1. CASE op'[u] = op[u]
      BY <1>v, <2>a, <3>1
    <3>2. CASE op'[u] = o /\ o.ver = latest'[k]
      BY <2>2, <2>a, <3>2
    <3>3. QED
      BY <2>b, <3>1, <3>2
  <2>d. \A j \in Keys : settled'[j] <= latest'[j]
    BY <1>t, <1>m, <2>3, <2>a DEF Begun
  <2>8. Begun'
    BY <2>c, <2>d DEF Begun
  <2>9. QED
    BY <2>7, <2>8 DEF MemInv
<1>4. ASSUME NEW t \in Threads, NEW k \in Keys, Invalidate(t, k)
      PROVE  MemInv'
  <2> DEFINE o == [Idle EXCEPT !.pc = "queue", !.key = k, !.item = Gone,
                               !.ver = latest[k] + 1]
  <2>1. o.pc = "queue" /\ o.key = k /\ o.ver = latest[k] + 1
    BY DEF Idle
  <2>2. /\ op' = [op EXCEPT ![t] = o]
        /\ latest' = [latest EXCEPT ![k] = latest[k] + 1]
        /\ diskOpen' = diskOpen /\ settled' = settled
    BY <1>4 DEF Invalidate, Enter
  <2> HIDE DEF o
  <2>3. \A j \in Keys : l1'[j] \in {None, l1[j]} /\ (j = k => l1'[j] = None)
    BY <1>4 DEF Invalidate, Without
  <2>4. NoDisk'
    BY <1>t, <1>m, <2>1, <2>2, <2>3 DEF NoDisk
  <2>a. \A j \in Keys : latest[j] \in Nat /\ latest'[j] \in Nat /\ latest[j] <= latest'[j]
    BY <1>t, <2>2
  <2>b. \A u \in Threads : op'[u] = op[u] \/ (op'[u] = o /\ o.ver = latest'[k])
    BY <1>t, <2>1, <2>2
  <2>c. \A u \in Threads : op'[u].pc = "queue" => op'[u].ver <= latest'[op'[u].key]
    <3> SUFFICES ASSUME NEW u \in Threads, op'[u].pc = "queue"
                 PROVE  op'[u].ver <= latest'[op'[u].key]
      OBVIOUS
    <3>1. CASE op'[u] = op[u]
      BY <1>v, <2>a, <3>1
    <3>2. CASE op'[u] = o /\ o.ver = latest'[k]
      BY <2>1, <2>a, <3>2
    <3>3. QED
      BY <2>b, <3>1, <3>2
  <2>d. \A j \in Keys : settled'[j] <= latest'[j]
    BY <1>t, <1>m, <2>2, <2>a DEF Begun
  <2>5. Begun'
    BY <2>c, <2>d DEF Begun
  <2>6. QED
    BY <2>4, <2>5 DEF MemInv
<1>5. ASSUME NEW t \in Threads, Queue(t)
      PROVE  MemInv'
  <2>1. op[t].key \in Keys /\ op[t].ver \in Nat /\ op[t].ver <= latest[op[t].key]
    BY <1>t, <1>m, <1>5 DEF Queue, OpOK, Begun, Op
  <2>2. /\ op' = [op EXCEPT ![t] = Idle]
        /\ UNCHANGED <<diskOpen, l1, latest>>
    BY <1>5 DEF Queue, Leave
  <2>3. \A k \in Keys : settled'[k] = settled[k] \/ (k = op[t].key /\ settled'[k] = op[t].ver)
    BY <1>t, <1>5 DEF Queue
  <2>4. NoDisk'
    BY <1>t, <1>m, <1>i, <2>2 DEF NoDisk
  <2>5. Begun'
    BY <1>t, <1>m, <1>i, <2>1, <2>2, <2>3 DEF Begun
  <2>6. QED
    BY <2>4, <2>5 DEF MemInv
<1>6. ASSUME NEW t \in Threads, NEW K \in Clearable, ClearL1(t, K)
      PROVE  MemInv'
  <2> DEFINE o == [Idle EXCEPT !.pc = "clearPending", !.drop = K]
  <2>1. o.pc = "clearPending"
    BY DEF Idle
  <2>2. /\ op' = [op EXCEPT ![t] = o]
        /\ UNCHANGED <<diskOpen, latest, settled>>
    BY <1>6 DEF ClearL1, Enter
  <2> HIDE DEF o
  <2>3. \A k \in Keys : l1'[k] \in {None, l1[k]}
    BY <1>6 DEF ClearL1, Without
  <2>4. QED
    BY <1>t, <1>m, <2>1, <2>2, <2>3 DEF MemInv, NoDisk, Begun
<1>7. ASSUME NEW t \in Threads, ClearPending(t)
      PROVE  MemInv'
  <2> DEFINE o == [op[t] EXCEPT !.pc = "clearL2"]
  <2>1. o.pc = "clearL2"
    BY <1>t DEF Op
  <2>2. \/ diskOpen /\ op' = [op EXCEPT ![t] = o]
        \/ op' = [op EXCEPT ![t] = Idle]
    BY <1>7 DEF ClearPending, Enter, Leave
  <2>3. UNCHANGED <<diskOpen, l1, latest, settled>>
    BY <1>7 DEF ClearPending
  <2> HIDE DEF o
  <2>4. NoDisk'
    BY <1>t, <1>m, <1>i, <2>2, <2>3 DEF NoDisk
  <2>5. Begun'
    BY <1>t, <1>m, <1>i, <2>1, <2>2, <2>3 DEF Begun
  <2>6. QED
    BY <2>4, <2>5 DEF MemInv
<1>8. ASSUME NEW t \in Threads, SweepL1(t)
      PROVE  MemInv'
  <2> DEFINE o == [Idle EXCEPT !.pc = "sweepL2"]
  <2>1. o.pc = "sweepL2"
    BY DEF Idle
  <2>2. (diskOpen /\ op' = [op EXCEPT ![t] = o]) \/ op' = op
    BY <1>8 DEF SweepL1, Enter
  <2> HIDE DEF o
  <2>3. \A k \in Keys : l1'[k] \in {None, l1[k]}
    BY <1>8 DEF SweepL1, Without
  <2>4. UNCHANGED <<diskOpen, latest, settled>>
    BY <1>8 DEF SweepL1
  <2>5. NoDisk'
    BY <1>m, <2>2, <2>3, <2>4 DEF NoDisk
  <2>6. Begun'
    BY <1>t, <1>m, <2>1, <2>2, <2>4 DEF Begun
  <2>7. QED
    BY <2>5, <2>6 DEF MemInv
<1>9. CASE (\E f \in Flushers : Flush(f)) \/ Tick \/ UNCHANGED vars
  <2>1. UNCHANGED <<diskOpen, l1, op, latest, settled>>
    BY <1>9 DEF Flush, FlushTake, FlushCommit, FlushFail, FlushEnd, Tick, vars, code, ghost
  <2>2. QED
    BY <1>m, <2>1 DEF MemInv, NoDisk, Begun
<1>10. CASE Restart
  BY <1>t, <1>i, <1>10 DEF Restart, MemInv, NoDisk, Begun, Empty
<1>11. QED
  BY <1>1, <1>2, <1>3, <1>4, <1>5, <1>6, <1>7, <1>8, <1>9, <1>10
  DEF Next, Begin, Continue

LEMMA MemCurrent == TypeInv /\ MemInv => MemoryOnlyIsCurrent
<1> SUFFICES ASSUME TypeInv, MemInv, ~diskOpen, NEW k \in Keys, NEW a \in Answers(k)
             PROVE  a[1].v >= a[2]
  BY DEF MemoryOnlyIsCurrent
<1>1. \A t \in Threads : op[t].pc # "promote"
  BY DEF MemInv, NoDisk
<1>2. PICK s \in {x \in {l1[k]} : L1Answer(k, x)} : a = <<s, settled[k]>>
  BY <1>1 DEF Answers
<1>3. s = l1[k] /\ l1[k] # None
  BY <1>2 DEF L1Answer
<1>4. l1[k].v = latest[k] /\ settled[k] <= latest[k]
  BY <1>3 DEF MemInv, NoDisk, Begun
<1>5. latest[k] \in Nat /\ settled[k] \in Nat
  BY DEF TypeInv, TypeOK
<1>6. QED
  BY <1>2, <1>3, <1>4, <1>5

(* A process that runs without a database never answers behind a put or an *)
(* invalidate that has returned.                                           *)
THEOREM MemoryOnlyStaysCurrent == Spec => []MemoryOnlyIsCurrent
<1>1. Init => TypeInv /\ MemInv
  BY TypeInit, MemInit
<1>2. (TypeInv /\ MemInv) /\ [Next]_vars => (TypeInv /\ MemInv)'
  BY TypeStep, MemStep
<1>3. TypeInv /\ MemInv => MemoryOnlyIsCurrent
  BY MemCurrent
<1>4. QED
  BY <1>1, <1>2, <1>3, PTL DEF Spec

-----------------------------------------------------------------------------
(* What is lost or reordered on the way to L2                              *)

(* No flush took the buffer before itself, and a clear drops what it was   *)
(* given.                                                                  *)
FlushInv ==
    /\ \A f \in Flushers : f \notin older[f]
    /\ \A t \in Threads : op[t].pc \in {"clearPending", "clearL2"} => op[t].drop \in Clearable

LEMMA FlushInit == Init => FlushInv
BY DEF Init, FlushInv, Idle

LEMMA FlushStep == TypeInv /\ FlushInv /\ [Next]_vars => FlushInv'
<1> SUFFICES ASSUME TypeInv, FlushInv, [Next]_vars
             PROVE  FlushInv'
  OBVIOUS
<1>t. op \in [Threads -> Op]
  BY DEF TypeInv, TypeOK
<1>1. ASSUME NEW t \in Threads, NEW o, op' = [op EXCEPT ![t] = o],
             o.pc \in {"clearPending", "clearL2"} => o.drop \in Clearable,
             UNCHANGED <<batch, older>>
      PROVE  FlushInv'
  BY <1>t, <1>1 DEF FlushInv
<1>2. Idle.pc = "idle"
  BY DEF Idle
<1>3. ASSUME NEW o, o.pc \notin {"clearPending", "clearL2"}, NEW t \in Threads,
             UNCHANGED <<batch, older>>, op' = [op EXCEPT ![t] = o]
      PROVE  FlushInv'
  BY <1>1, <1>3
<1>4. ASSUME op' = op, UNCHANGED <<batch, older>>
      PROVE  FlushInv'
  BY <1>4 DEF FlushInv
<1>5. ASSUME NEW t \in Threads, NEW k \in Keys, NEW mode \in Modes, GetMiss(t, k, mode)
      PROVE  FlushInv'
  <2> DEFINE o == [Idle EXCEPT !.pc = "readL2", !.key = k, !.mode = mode,
                               !.floor = settled[k]]
  <2>1. o.pc = "readL2"
    BY DEF Idle
  <2>2. (op' = [op EXCEPT ![t] = o] \/ op' = op) /\ UNCHANGED <<batch, older>>
    BY <1>5 DEF GetMiss, Enter
  <2> HIDE DEF o
  <2>3. QED
    BY <1>3, <1>4, <2>1, <2>2
<1>6. ASSUME NEW t \in Threads, ReadL2(t)
      PROVE  FlushInv'
  <2> DEFINE o == [op[t] EXCEPT !.pc = "promote", !.item = l2[op[t].key],
                        !.mode = "fresh"]
  <2>1. o.pc = "promote"
    BY <1>t DEF Op
  <2>2. /\ op' = [op EXCEPT ![t] = o] \/ op' = [op EXCEPT ![t] = Idle]
        /\ UNCHANGED <<batch, older>>
    BY <1>6 DEF ReadL2, Enter, Leave
  <2> HIDE DEF o
  <2>3. QED
    BY <1>2, <1>3, <2>1, <2>2
<1>7. ASSUME NEW t \in Threads, Promote(t) \/ Queue(t) \/ ClearL2(t) \/ SweepL2(t)
      PROVE  FlushInv'
  BY <1>2, <1>3, <1>7 DEF Promote, Queue, ClearL2, SweepL2, Leave
<1>8. ASSUME NEW t \in Threads, NEW k \in Keys, NEW ttl \in TTLs, NEW grace \in Graces,
             Put(t, k, ttl, grace)
      PROVE  FlushInv'
  <2> DEFINE s == NewSlot(k, ttl, grace)
             o == [Idle EXCEPT !.pc = "queue", !.key = k, !.item = s, !.ver = s.v]
  <2>1. o.pc = "queue"
    BY DEF Idle
  <2>2. op' = [op EXCEPT ![t] = o] /\ UNCHANGED <<batch, older>>
    BY <1>8 DEF Put, Enter
  <2> HIDE DEF o
  <2>3. QED
    BY <1>3, <2>1, <2>2
<1>9. ASSUME NEW t \in Threads, NEW k \in Keys, Invalidate(t, k)
      PROVE  FlushInv'
  <2> DEFINE o == [Idle EXCEPT !.pc = "queue", !.key = k, !.item = Gone,
                               !.ver = latest[k] + 1]
  <2>1. o.pc = "queue"
    BY DEF Idle
  <2>2. op' = [op EXCEPT ![t] = o] /\ UNCHANGED <<batch, older>>
    BY <1>9 DEF Invalidate, Enter
  <2> HIDE DEF o
  <2>3. QED
    BY <1>3, <2>1, <2>2
<1>10. ASSUME NEW t \in Threads, NEW K \in Clearable, ClearL1(t, K)
       PROVE  FlushInv'
  <2> DEFINE o == [Idle EXCEPT !.pc = "clearPending", !.drop = K]
  <2>1. o.drop = K
    BY DEF Idle
  <2>2. op' = [op EXCEPT ![t] = o] /\ UNCHANGED <<batch, older>>
    BY <1>10 DEF ClearL1, Enter
  <2> HIDE DEF o
  <2>3. QED
    BY <1>1, <2>1, <2>2
<1>11. ASSUME NEW t \in Threads, ClearPending(t)
       PROVE  FlushInv'
  <2> DEFINE o == [op[t] EXCEPT !.pc = "clearL2"]
  <2>1. o.drop = op[t].drop
    BY <1>t DEF Op
  <2>2. op[t].drop \in Clearable
    BY <1>11 DEF ClearPending, FlushInv
  <2>3. /\ op' = [op EXCEPT ![t] = o] \/ op' = [op EXCEPT ![t] = Idle]
        /\ UNCHANGED <<batch, older>>
    BY <1>11 DEF ClearPending, Enter, Leave
  <2> HIDE DEF o
  <2>4. QED
    BY <1>1, <1>2, <1>3, <2>1, <2>2, <2>3
<1>12. ASSUME NEW t \in Threads, SweepL1(t)
       PROVE  FlushInv'
  <2> DEFINE o == [Idle EXCEPT !.pc = "sweepL2"]
  <2>1. o.pc = "sweepL2"
    BY DEF Idle
  <2>2. (op' = [op EXCEPT ![t] = o] \/ op' = op) /\ UNCHANGED <<batch, older>>
    BY <1>12 DEF SweepL1, Enter
  <2> HIDE DEF o
  <2>3. QED
    BY <1>3, <1>4, <2>1, <2>2
<1>13. ASSUME NEW f \in Flushers, Flush(f)
       PROVE  FlushInv'
  <2>1. op' = op
    BY <1>13 DEF Flush, FlushTake, FlushCommit, FlushFail, FlushEnd
  <2>2. older \in [Flushers -> SUBSET Flushers]
    BY DEF TypeInv, TypeOK
  <2>3. \A g \in Flushers : g \notin older'[g]
    <3>1. CASE FlushTake(f)
      BY <2>2, <3>1 DEF FlushTake, FlushInv
    <3>2. CASE FlushCommit(f) \/ FlushFail(f)
      BY <2>2, <3>2 DEF FlushCommit, FlushFail, FlushEnd, FlushInv
    <3>3. QED
      BY <1>13, <3>1, <3>2 DEF Flush
  <2>4. QED
    BY <2>1, <2>3 DEF FlushInv
<1>14. CASE Tick \/ UNCHANGED vars
  BY <1>4, <1>14 DEF Tick, vars, code, ghost
<1>15. CASE Restart
  BY <1>2, <1>15 DEF Restart, FlushInv, Empty
<1>16. QED
  BY <1>5, <1>6, <1>7, <1>8, <1>9, <1>10, <1>11, <1>12, <1>13, <1>14, <1>15
  DEF Next, Begin, Continue

(* A clear of another prefix, while a write of key k is in the buffer.     *)
Overrun(k) ==
    /\ pending[k] # None
    /\ \E t \in Threads : k \notin op[t].drop /\ ClearPending(t)

(* The commit of a flush with key k in it, while a flush that took the     *)
(* buffer before it has an earlier write of k still to commit.             *)
Overtaken(k) ==
    \E f \in Flushers : \E g \in older[f] :
        batch[f][k] # None /\ batch[g][k] # None /\ FlushCommit(f)

(* Where a key's latest write is depends on these alone.                   *)
LEMMA KeptDepends ==
    ASSUME NEW k, Kept(k), now' = now, intended'[k] = intended[k],
           pending'[k] = pending[k], l2'[k] = l2[k], UNCHANGED <<batch, older>>
    PROVE  Kept(k)'
BY DEF Kept, InL2, IsLatest, Expired

(* What the end of a flush does to a key.                                  *)
LEMMA KeptFlushEnd ==
    ASSUME TypeInv, NEW k \in Keys, Kept(k), NEW f \in Flushers, NEW F, FlushEnd(f, F),
           pending' = pending,
           \/ k \in F /\ batch[f][k] # None
           \/ batch[f][k] = None /\ l2'[k] = l2[k]
           \/ /\ batch[f][k] # None
              /\ l2'[k] = IF batch[f][k] = Gone THEN None ELSE batch[f][k]
              /\ \A g \in older[f] : batch[g][k] = None
    PROVE  Kept(k)'
<1>t. /\ batch \in [Flushers -> Buffer] /\ older \in [Flushers -> SUBSET Flushers]
  BY DEF TypeInv, TypeOK
<1>e. Empty[k] = None
  BY DEF Empty
<1>1. /\ \A g \in Flushers : batch'[g][k] = IF g = f THEN None ELSE batch[g][k]
      /\ \A g \in Flushers : older'[g] = IF g = f THEN {} ELSE older[g] \ {f}
      /\ intended'[k] = IF k \in F /\ IsLatest(f, k) THEN None ELSE intended[k]
      /\ now' = now
  BY <1>t, <1>e DEF FlushEnd, Without
<1>2. SUFFICES ASSUME intended'[k] # None
               PROVE  \/ pending[k] = intended[k]
                      \/ \E g \in Flushers : IsLatest(g, k)' /\ batch'[g][k] = intended[k]
                      \/ /\ pending[k] = None /\ \A g \in Flushers : batch'[g][k] = None
                         /\ InL2(k)'
  BY <1>1 DEF Kept
<1>3. intended'[k] = intended[k] /\ ~ (k \in F /\ IsLatest(f, k))
  BY <1>1, <1>2
<1>4. CASE pending[k] = intended[k]
  BY <1>4
<1>5. ASSUME NEW g \in Flushers, IsLatest(g, k), batch[g][k] = intended[k], g # f
      PROVE  IsLatest(g, k)' /\ batch'[g][k] = intended[k]
  BY <1>1, <1>5 DEF IsLatest
<1>6. CASE IsLatest(f, k) /\ batch[f][k] = intended[k]
  <2>1. /\ batch[f][k] # None /\ pending[k] = None
        /\ \A g \in Flushers \ {f} : batch[g][k] # None => g \in older[f]
    BY <1>6 DEF IsLatest
  <2>2. /\ l2'[k] = IF batch[f][k] = Gone THEN None ELSE batch[f][k]
        /\ \A g \in older[f] : batch[g][k] = None
    BY <1>3, <1>6, <2>1
  <2>3. \A g \in Flushers : batch'[g][k] = None
    BY <1>1, <2>1, <2>2
  <2>4. InL2(k)'
    BY <1>3, <1>6, <2>2 DEF InL2
  <2>5. QED
    BY <2>1, <2>3, <2>4
<1>7. CASE pending[k] = None /\ (\A g \in Flushers : batch[g][k] = None) /\ InL2(k)
  <2>1. l2'[k] = l2[k] /\ \A g \in Flushers : batch'[g][k] = None
    BY <1>1, <1>7
  <2>2. InL2(k)'
    BY <1>1, <1>3, <1>7, <2>1 DEF InL2, Expired
  <2>3. QED
    BY <1>7, <2>1, <2>2
<1>8. QED
  BY <1>2, <1>3, <1>4, <1>5, <1>6, <1>7 DEF Kept

(* Every other step keeps what is intended for a key.                      *)
LEMMA KeptStep ==
    ASSUME TypeInv, [Next]_vars, NEW k \in Keys, diskOpen, Kept(k),
           ~ Overrun(k), ~ Overtaken(k)
    PROVE  Kept(k)'
<1>t. /\ TypeOK /\ OpOK /\ l2 \in Slots /\ intended \in Buffer /\ now \in Nat
      /\ pending \in Buffer /\ batch \in [Flushers -> Buffer]
      /\ older \in [Flushers -> SUBSET Flushers]
  BY DEF TypeInv, TypeOK
<1>e. Empty[k] = None
  BY DEF Empty
<1>1. CASE UNCHANGED <<now, l2, pending, batch, intended, older>>
  BY <1>1, KeptDepends
<1>2. CASE intended'[k] = None
  BY <1>2 DEF Kept
<1>3. ASSUME NEW t \in Threads, Queue(t)
      PROVE  Kept(k)'
  <2>1. op[t].item # None /\ op[t].key \in Keys
    BY <1>t, <1>3 DEF Queue, OpOK
  <2>2. \/ k = op[t].key /\ pending'[k] = op[t].item /\ intended'[k] = op[t].item
        \/ k # op[t].key /\ pending'[k] = pending[k] /\ intended'[k] = intended[k]
    BY <1>t, <1>3 DEF Queue, Buffer
  <2>3. UNCHANGED <<now, l2, batch, older>>
    BY <1>3 DEF Queue
  <2>4. CASE pending'[k] = intended'[k]
    BY <2>4 DEF Kept
  <2>5. QED
    BY <2>2, <2>3, <2>4, KeptDepends
<1>4. ASSUME NEW t \in Threads, ClearPending(t) \/ ClearL2(t)
      PROVE  Kept(k)'
  <2>1. intended' = Without(intended, op[t].drop)
    BY <1>4 DEF ClearPending, ClearL2
  <2>2. CASE k \in op[t].drop
    BY <1>2, <2>1, <2>2 DEF Without
  <2>3. CASE k \notin op[t].drop
    <3>1. intended'[k] = intended[k]
      BY <2>1, <2>3 DEF Without
    <3>2. pending'[k] = pending[k] /\ l2'[k] = l2[k] /\ UNCHANGED <<now, batch, older>>
      <4>1. CASE ClearPending(t)
        BY <2>3, <4>1, <1>e DEF ClearPending, Overrun
      <4>2. CASE ClearL2(t)
        BY <1>t, <2>3, <4>2 DEF ClearL2, Without
      <4>3. QED
        BY <1>4, <4>1, <4>2
    <3>3. QED
      BY <3>1, <3>2, KeptDepends
  <2>4. QED
    BY <2>2, <2>3
<1>5. ASSUME NEW t \in Threads, SweepL2(t)
      PROVE  Kept(k)'
  <2>1. UNCHANGED <<now, pending, batch, intended, older>>
    BY <1>5 DEF SweepL2
  <2>2. l2'[k] = l2[k] \/ (l2'[k] = None /\ k \in Dead(l2))
    BY <1>t, <1>5 DEF SweepL2, Without, Slots
  <2>3. k \in Dead(l2) => l2[k] \in Slot /\ l2[k] # None /\ Expired(l2[k])
    BY <1>t DEF Dead, Held, Slots, Expired
  <2>4. InL2(k) => InL2(k)'
    BY <2>1, <2>2, <2>3 DEF InL2, Expired
  <2>5. QED
    BY <2>1, <2>4 DEF Kept, IsLatest
<1>6. ASSUME NEW f \in Flushers, FlushTake(f)
      PROVE  Kept(k)'
  <2>1. /\ batch[f][k] = None /\ pending'[k] = None
        /\ \A g \in Flushers : batch'[g][k] = IF g = f THEN pending[k] ELSE batch[g][k]
        /\ \A g \in Flushers :
             older'[g] = IF g = f THEN {h \in Flushers : batch[h] # Empty} ELSE older[g]
        /\ UNCHANGED <<now, l2, intended>>
    BY <1>t, <1>6, <1>e DEF FlushTake
  <2>2. CASE pending[k] = intended[k] /\ intended[k] # None
    <3>1. \A g \in Flushers \ {f} : batch'[g][k] # None => g \in older'[f]
      BY <2>1, <1>e
    <3>2. IsLatest(f, k)' /\ batch'[f][k] = intended'[k]
      BY <2>1, <2>2, <3>1 DEF IsLatest
    <3>3. QED
      BY <3>2 DEF Kept
  <2>3. ASSUME NEW g \in Flushers, IsLatest(g, k), batch[g][k] = intended[k]
        PROVE  Kept(k)'
    <3>1. g # f /\ pending[k] = None
      BY <2>1, <2>3 DEF IsLatest
    <3>2. IsLatest(g, k)' /\ batch'[g][k] = intended'[k]
      BY <2>1, <2>3, <3>1 DEF IsLatest
    <3>3. QED
      BY <3>2 DEF Kept
  <2>4. CASE pending[k] = None /\ (\A g \in Flushers : batch[g][k] = None) /\ InL2(k)
    BY <2>1, <2>4 DEF Kept, InL2, Expired
  <2>5. CASE intended[k] = None
    BY <1>2, <2>1, <2>5
  <2>6. QED
    BY <2>2, <2>3, <2>4, <2>5 DEF Kept
<1>7. ASSUME NEW f \in Flushers, FlushCommit(f)
      PROVE  Kept(k)'
  <2>1. PICK F \in SUBSET Held(batch[f]) :
          l2' = Written(f, F) /\ FlushEnd(f, F) /\ pending' = pending
    BY <1>7 DEF FlushCommit
  <2>2. k \in F => batch[f][k] # None
    BY <2>1 DEF Held
  <2>3. k \notin F => l2'[k] = IF batch[f][k] = None THEN l2[k]
                              ELSE IF batch[f][k] = Gone THEN None ELSE batch[f][k]
    BY <2>1 DEF Written
  <2>4. batch[f][k] # None => \A g \in older[f] : batch[g][k] = None
    BY <1>7 DEF Overtaken
  <2>5. CASE k \in F
    BY <2>1, <2>2, <2>5, KeptFlushEnd
  <2>6. CASE k \notin F /\ batch[f][k] = None
    BY <2>1, <2>3, <2>6, KeptFlushEnd
  <2>7. CASE k \notin F /\ batch[f][k] # None
    BY <2>1, <2>3, <2>4, <2>7, KeptFlushEnd
  <2>8. QED
    BY <2>5, <2>6, <2>7
<1>8. ASSUME NEW f \in Flushers, FlushFail(f)
      PROVE  Kept(k)'
  <2>1. FlushEnd(f, Held(batch[f])) /\ l2' = l2 /\ pending' = pending
    BY <1>8 DEF FlushFail
  <2>2. k \in Held(batch[f]) <=> batch[f][k] # None
    BY DEF Held
  <2>3. QED
    BY <2>1, <2>2, KeptFlushEnd
<1>9. CASE Tick
  <2>1. now' = now + 1 /\ UNCHANGED <<l2, pending, batch, intended, older>>
    BY <1>9 DEF Tick
  <2>2. Expired(intended[k]) => Expired(intended[k])'
    <3>1. intended[k] \in Slot => intended[k].hard \in Int
      BY DEF Slot
    <3>2. QED
      BY <1>t, <2>1, <3>1 DEF Expired
  <2>3. InL2(k) => InL2(k)'
    BY <2>1, <2>2 DEF InL2
  <2>4. QED
    BY <2>1, <2>3 DEF Kept, IsLatest
<1>10. CASE Restart
  BY <1>2, <1>10, <1>e DEF Restart
<1>11. QED
  BY <1>1, <1>3, <1>4, <1>5, <1>6, <1>7, <1>8, <1>9, <1>10
  DEF Next, Begin, Continue, Flush, GetMiss, ReadL2, Promote, Put, Invalidate, ClearL1,
      SweepL1, vars, code, ghost

LEMMA LostStep ==
    ASSUME TypeInv, [Next]_vars, NEW k \in Keys, diskOpen => Kept(k),
           ~ Overrun(k), ~ Overtaken(k)
    PROVE  (diskOpen => Kept(k))'
<1>1. CASE Restart
  BY <1>1 DEF Restart, Kept, Empty
<1>2. CASE ~ Restart
  <2>1. diskOpen' = diskOpen
    BY <1>2 DEF Next, Begin, Continue, Flush, GetMiss, ReadL2, Promote, Put, Invalidate,
       Queue, ClearL1, ClearPending, ClearL2, SweepL1, SweepL2, FlushTake, FlushCommit,
       FlushFail, FlushEnd, Tick, vars, code
  <2>2. QED
    BY <2>1, KeptStep
<1>3. QED
  BY <1>1, <1>2

(* A write is lost or reordered only by a clear of another prefix, which   *)
(* takes it from the buffer, or by the commit of a flush that passes an    *)
(* earlier one: failed rows and commits, sweeps, expiry, later writes and  *)
(* a flush with no other beside it lose none.                              *)
THEOREM LossesAreTheseTwo == Spec => OnlyClearedOrOvertaken
<1>1. TypeInv /\ [Next]_vars =>
        [\A k \in Keys :
            (diskOpen => Kept(k)) /\ ~ (diskOpen => Kept(k))' =>
                \/ /\ pending[k] # None
                   /\ \E t \in Threads : k \notin op[t].drop /\ ClearPending(t)
                \/ \E f \in Flushers : \E g \in older[f] :
                      /\ batch[f][k] # None /\ batch[g][k] # None
                      /\ FlushCommit(f)]_vars
  BY LostStep DEF Overrun, Overtaken
<1>2. QED
  BY <1>1, TypeInvariant, PTL DEF Spec, OnlyClearedOrOvertaken

(* If only whole caches are cleared and no two flushes meet, the write-    *)
(* behind path never loses or reorders a write behind the caller's back.   *)
THEOREM WholeClearsLoseNothing ==
    ASSUME Clearable \subseteq {Keys}, \A f, g \in Flushers : f = g
    PROVE  Spec => []NoLostWrite
<1>1. Init => TypeInv /\ FlushInv /\ NoLostWrite
  <2>1. Init => NoLostWrite
    BY DEF Init, NoLostWrite, Kept, Empty
  <2>2. QED
    BY <2>1, TypeInit, FlushInit
<1>2. (TypeInv /\ FlushInv /\ NoLostWrite) /\ [Next]_vars
        => (TypeInv /\ FlushInv /\ NoLostWrite)'
  <2> SUFFICES ASSUME TypeInv, FlushInv, NoLostWrite, [Next]_vars
               PROVE  NoLostWrite'
    BY TypeStep, FlushStep
  <2>1. \A k \in Keys : ~ Overrun(k)
    BY DEF FlushInv, Overrun, ClearPending
  <2>2. \A k \in Keys : ~ Overtaken(k)
    BY DEF FlushInv, Overtaken, TypeInv, TypeOK
  <2>3. \A k \in Keys : (diskOpen => Kept(k))'
    BY <2>1, <2>2, LostStep DEF NoLostWrite
  <2>4. QED
    BY <2>3 DEF NoLostWrite
<1>3. QED
  BY <1>1, <1>2, PTL DEF Spec
====
