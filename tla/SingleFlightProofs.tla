---- MODULE SingleFlightProofs ----
(***************************************************************************)
(* What holds of SingleFlight for every number of callers.                 *)
(***************************************************************************)
EXTENDS SingleFlight, TLAPS

(* A call that has not ended has no result; one whose value is handed on   *)
(* succeeded.                                                              *)
ResultInv ==
    /\ \A c \in Callers : pc[c] = "wake" => result[c] = "good"
    /\ \A c \in Callers :
        pc[c] \in {"start", "missed", "waiting", "fetch", "alone"} => result[c] = None
    /\ \A c \in Callers : mailbox[c] \in Callers => result[mailbox[c]] = "good"

Inv == TypeOK /\ FlightIsHeld /\ WaiterIsListed /\ ResultInv /\ FailureIsNotShared

LEMMA InvInit == Init => Inv
BY NoneAssumption, BoundAssumption
DEF Init, Inv, TypeOK, FlightIsHeld, WaiterIsListed, ResultInv, FailureIsNotShared, Pcs, Holding

(* Ending a flight tells everyone on its list. *)
LEMMA EndFlightTells ==
    ASSUME TypeOK, NEW m \in Callers \cup {Closed}, EndFlight(m)
    PROVE  /\ flight' = None
           /\ mailbox' \in [Callers -> Callers \cup {None, Closed}]
           /\ \A d \in Callers :
                mailbox'[d] = IF flight # None /\ d \in flight.list THEN m ELSE mailbox[d]
BY DEF EndFlight, TypeOK

LEMMA InvStep == Inv /\ [Next]_vars => Inv'
<1> SUFFICES ASSUME Inv, [Next]_vars
             PROVE  Inv'
  OBVIOUS
<1>i. TypeOK /\ FlightIsHeld /\ WaiterIsListed /\ ResultInv /\ FailureIsNotShared
  BY DEF Inv
<1> USE NoneAssumption
<1>1. ASSUME NEW c \in Callers, Hit(c)
      PROVE  Inv'
  <2>1. TypeOK'
    BY <1>i, <1>1 DEF Hit, Return, Goto, TypeOK, Pcs
  <2>2. FlightIsHeld' /\ WaiterIsListed'
    BY <1>i, <1>1 DEF Hit, Return, Goto, TypeOK, FlightIsHeld, WaiterIsListed, Flights, Holding
  <2>3. ResultInv' /\ FailureIsNotShared'
    BY <1>i, <1>1 DEF Hit, Return, Goto, TypeOK, ResultInv, FailureIsNotShared
  <2>4. QED
    BY <2>1, <2>2, <2>3 DEF Inv
<1>2. ASSUME NEW c \in Callers, Miss(c)
      PROVE  Inv'
  <2>1. TypeOK'
    BY <1>i, <1>2 DEF Miss, Goto, TypeOK, Pcs
  <2>2. FlightIsHeld' /\ WaiterIsListed'
    BY <1>i, <1>2 DEF Miss, Goto, TypeOK, FlightIsHeld, WaiterIsListed, Flights, Holding
  <2>3. ResultInv' /\ FailureIsNotShared'
    BY <1>i, <1>2 DEF Miss, Goto, TypeOK, ResultInv, FailureIsNotShared
  <2>4. QED
    BY <2>1, <2>2, <2>3 DEF Inv
<1>3. ASSUME NEW c \in Callers, Join(c)
      PROVE  Inv'
  <2>0. flight \in Flights
    BY <1>i, <1>3 DEF Join, TypeOK
  <2>1. flight' \in Flights /\ flight'.by = flight.by /\ flight'.list = flight.list \cup {c}
    BY <1>3, <2>0 DEF Join, Flights
  <2>2. TypeOK'
    BY <1>i, <1>3, <2>1 DEF Join, Goto, TypeOK, Pcs
  <2>3. FlightIsHeld'
    BY <1>i, <1>3, <2>0, <2>1 DEF Join, Goto, TypeOK, FlightIsHeld, Flights, Holding
  <2>4. flight' # None
    BY <2>1
  <2>5. WaiterIsListed'
    BY <1>i, <1>3, <2>1, <2>4 DEF Join, Goto, TypeOK, WaiterIsListed
  <2>6. ResultInv' /\ FailureIsNotShared'
    BY <1>i, <1>3 DEF Join, Goto, TypeOK, ResultInv, FailureIsNotShared
  <2>7. QED
    BY <2>2, <2>3, <2>5, <2>6 DEF Inv
<1>4. ASSUME NEW c \in Callers, Claim(c)
      PROVE  Inv'
  <2>1. TypeOK'
    BY <1>i, <1>4 DEF Claim, Goto, TypeOK, Pcs, Flights
  <2>2. FlightIsHeld'
    BY <1>i, <1>4 DEF Claim, Goto, TypeOK, FlightIsHeld, Holding
  <2>3. WaiterIsListed'
    BY <1>i, <1>4 DEF Claim, Goto, TypeOK, WaiterIsListed
  <2>4. ResultInv' /\ FailureIsNotShared'
    BY <1>i, <1>4 DEF Claim, Goto, TypeOK, ResultInv, FailureIsNotShared
  <2>5. QED
    BY <2>1, <2>2, <2>3, <2>4 DEF Inv
<1>5. ASSUME NEW c \in Callers, NEW r \in Results, Fetched(c, r)
      PROVE  Inv'
  <2>1. TypeOK'
    BY <1>i, <1>5 DEF Fetched, Goto, TypeOK, Pcs
  <2>2. FlightIsHeld' /\ WaiterIsListed'
    BY <1>i, <1>5 DEF Fetched, Goto, TypeOK, FlightIsHeld, WaiterIsListed, Flights, Holding
  <2>3. ResultInv' /\ FailureIsNotShared'
    <3>1. /\ result[c] = None
          /\ \A d \in Callers : result'[d] = IF d = c THEN r ELSE result[d]
          /\ \A d \in Callers : pc'[d] = IF d = c THEN IF r = "good" THEN "wake" ELSE "release"
                                      ELSE pc[d]
      BY <1>i, <1>5 DEF Fetched, Goto, TypeOK, ResultInv
    <3>2. cached' = (IF r = "good" THEN c ELSE cached) /\ UNCHANGED <<mailbox, answer>>
      BY <1>5 DEF Fetched
    <3>3. ResultInv'
      BY <1>i, <3>1, <3>2 DEF ResultInv, TypeOK, Results
    <3>4. FailureIsNotShared'
      BY <1>i, <3>1, <3>2 DEF FailureIsNotShared, TypeOK, Results
    <3>5. QED
      BY <3>3, <3>4
  <2>4. QED
    BY <2>1, <2>2, <2>3 DEF Inv
<1>6. ASSUME NEW c \in Callers, Wake(c)
      PROVE  Inv'
  <2>1. EndFlight(c) /\ result[c] = "good" /\ UNCHANGED <<cached, result, answer, expiries>>
    BY <1>i, <1>6 DEF Wake, ResultInv
  <2>2. /\ flight' = None
        /\ mailbox' \in [Callers -> Callers \cup {None, Closed}]
        /\ \A d \in Callers :
             mailbox'[d] = IF flight # None /\ d \in flight.list THEN c ELSE mailbox[d]
    BY <1>i, <2>1, EndFlightTells
  <2>3. \A d \in Callers : pc'[d] = IF d = c THEN "release" ELSE pc[d]
    BY <1>i, <1>6 DEF Wake, Goto, TypeOK
  <2>4. TypeOK'
    BY <1>i, <1>6, <2>1, <2>2 DEF Wake, Goto, TypeOK, Pcs
  <2>5. FlightIsHeld' /\ WaiterIsListed'
    BY <1>i, <2>2, <2>3 DEF FlightIsHeld, WaiterIsListed
  <2>6. ResultInv' /\ FailureIsNotShared'
    BY <1>i, <2>1, <2>2, <2>3 DEF ResultInv, FailureIsNotShared
  <2>7. QED
    BY <2>4, <2>5, <2>6 DEF Inv
<1>7. ASSUME NEW c \in Callers, Release(c)
      PROVE  Inv'
  <2>1. EndFlight(Closed) /\ UNCHANGED <<cached, result, expiries>>
    BY <1>7 DEF Release
  <2>2. /\ flight' = None
        /\ mailbox' \in [Callers -> Callers \cup {None, Closed}]
        /\ \A d \in Callers :
             mailbox'[d] = IF flight # None /\ d \in flight.list THEN Closed ELSE mailbox[d]
    BY <1>i, <2>1, EndFlightTells
  <2>3. \A d \in Callers : /\ pc'[d] = IF d = c THEN "done" ELSE pc[d]
                           /\ answer'[d] = IF d = c THEN c ELSE answer[d]
    BY <1>i, <1>7 DEF Release, Return, Goto, TypeOK
  <2>4. TypeOK'
    BY <1>i, <1>7, <2>1, <2>2 DEF Release, Return, Goto, TypeOK, Pcs
  <2>5. FlightIsHeld' /\ WaiterIsListed'
    BY <1>i, <2>2, <2>3 DEF FlightIsHeld, WaiterIsListed
  <2>6. ResultInv' /\ FailureIsNotShared'
    BY <1>i, <2>1, <2>2, <2>3 DEF ResultInv, FailureIsNotShared
  <2>7. QED
    BY <2>4, <2>5, <2>6 DEF Inv
<1>8. ASSUME NEW c \in Callers, Answered(c)
      PROVE  Inv'
  <2>1. TypeOK'
    BY <1>i, <1>8 DEF Answered, Return, Goto, TypeOK, Pcs
  <2>2. FlightIsHeld' /\ WaiterIsListed'
    BY <1>i, <1>8 DEF Answered, Return, Goto, TypeOK, FlightIsHeld, WaiterIsListed, Flights,
       Holding
  <2>3. ResultInv' /\ FailureIsNotShared'
    BY <1>i, <1>8 DEF Answered, Return, Goto, TypeOK, ResultInv, FailureIsNotShared
  <2>4. QED
    BY <2>1, <2>2, <2>3 DEF Inv
<1>9. ASSUME NEW c \in Callers, Retry(c)
      PROVE  Inv'
  <2>1. TypeOK'
    BY <1>i, <1>9 DEF Retry, Goto, TypeOK, Pcs
  <2>2. FlightIsHeld' /\ WaiterIsListed'
    BY <1>i, <1>9 DEF Retry, Goto, TypeOK, FlightIsHeld, WaiterIsListed, Flights, Holding
  <2>3. ResultInv' /\ FailureIsNotShared'
    BY <1>i, <1>9 DEF Retry, Goto, TypeOK, ResultInv, FailureIsNotShared
  <2>4. QED
    BY <2>1, <2>2, <2>3 DEF Inv
<1>10. ASSUME NEW c \in Callers, NEW r \in Results, Alone(c, r)
       PROVE  Inv'
  <2>1. TypeOK'
    BY <1>i, <1>10 DEF Alone, Return, Goto, TypeOK, Pcs
  <2>2. FlightIsHeld' /\ WaiterIsListed'
    BY <1>i, <1>10 DEF Alone, Return, Goto, TypeOK, FlightIsHeld, WaiterIsListed, Flights,
       Holding
  <2>3. ResultInv' /\ FailureIsNotShared'
    <3>1. /\ result[c] = None
          /\ \A d \in Callers : result'[d] = IF d = c THEN r ELSE result[d]
          /\ \A d \in Callers : pc'[d] = IF d = c THEN "done" ELSE pc[d]
          /\ \A d \in Callers : answer'[d] = IF d = c THEN c ELSE answer[d]
      BY <1>i, <1>10 DEF Alone, Return, Goto, TypeOK, ResultInv
    <3>2. cached' = (IF r = "good" THEN c ELSE cached) /\ UNCHANGED mailbox
      BY <1>10 DEF Alone
    <3>3. ResultInv'
      BY <1>i, <3>1, <3>2 DEF ResultInv, TypeOK, Results
    <3>4. FailureIsNotShared'
      BY <1>i, <3>1, <3>2 DEF FailureIsNotShared, TypeOK, Results
    <3>5. QED
      BY <3>3, <3>4
  <2>4. QED
    BY <2>1, <2>2, <2>3 DEF Inv
<1>11. ASSUME NEW c \in Callers, Cancel(c), pc[c] = "fetch"
       PROVE  Inv'
  <2>1. EndFlight(Closed) /\ UNCHANGED <<cached, result, answer, expiries>>
    BY <1>11 DEF Cancel
  <2>2. /\ flight' = None
        /\ mailbox' \in [Callers -> Callers \cup {None, Closed}]
        /\ \A d \in Callers :
             mailbox'[d] = IF flight # None /\ d \in flight.list THEN Closed ELSE mailbox[d]
    BY <1>i, <2>1, EndFlightTells
  <2>3. \A d \in Callers : pc'[d] = IF d = c THEN "gone" ELSE pc[d]
    BY <1>i, <1>11 DEF Cancel, Goto, TypeOK
  <2>4. TypeOK'
    BY <1>i, <1>11, <2>1, <2>2 DEF Cancel, Goto, TypeOK, Pcs
  <2>5. FlightIsHeld' /\ WaiterIsListed'
    BY <1>i, <2>2, <2>3 DEF FlightIsHeld, WaiterIsListed
  <2>6. ResultInv' /\ FailureIsNotShared'
    BY <1>i, <2>1, <2>2, <2>3 DEF ResultInv, FailureIsNotShared
  <2>7. QED
    BY <2>4, <2>5, <2>6 DEF Inv
<1>12. ASSUME NEW c \in Callers, Cancel(c), pc[c] # "fetch"
       PROVE  Inv'
  <2>1. TypeOK'
    BY <1>i, <1>12 DEF Cancel, Goto, TypeOK, Pcs
  <2>2. FlightIsHeld' /\ WaiterIsListed'
    BY <1>i, <1>12 DEF Cancel, Goto, TypeOK, FlightIsHeld, WaiterIsListed, Flights, Holding
  <2>3. ResultInv' /\ FailureIsNotShared'
    BY <1>i, <1>12 DEF Cancel, Goto, TypeOK, ResultInv, FailureIsNotShared
  <2>4. QED
    BY <2>1, <2>2, <2>3 DEF Inv
<1>13. CASE Expire
  BY <1>i, <1>13 DEF Expire, Inv, TypeOK, FlightIsHeld, WaiterIsListed, ResultInv,
     FailureIsNotShared
<1>14. CASE UNCHANGED vars
  BY <1>i, <1>14 DEF vars, Inv, TypeOK, FlightIsHeld, WaiterIsListed, ResultInv,
     FailureIsNotShared
<1>15. QED
  BY <1>1, <1>2, <1>3, <1>4, <1>5, <1>6, <1>7, <1>8, <1>9, <1>10, <1>11, <1>12,
     <1>13, <1>14
  DEF Next, Proceed

LEMMA Invariance == Spec => []Inv
BY InvInit, InvStep, PTL DEF Spec

(* Every variable of the single-flight keeps its type. *)
THEOREM TypeCorrect == Spec => []TypeOK
<1>1. Inv => TypeOK
  BY DEF Inv
<1>2. QED
  BY Invariance, <1>1, PTL

(* However many callers race and are cancelled, the key is never claimed   *)
(* without a leader that will give it up.                                  *)
THEOREM FlightAlwaysHeld == Spec => []FlightIsHeld
<1>1. Inv => FlightIsHeld
  BY DEF Inv
<1>2. QED
  BY Invariance, <1>1, PTL

(* No follower is forgotten, although leaders may end each other's flight. *)
THEOREM NoWaiterForgotten == Spec => []WaiterIsListed
<1>1. Inv => WaiterIsListed
  BY DEF Inv
<1>2. QED
  BY Invariance, <1>1, PTL

(* Neither the cache nor a follower ever gets a failed call's value.       *)
THEOREM FailureNeverShared == Spec => []FailureIsNotShared
<1>1. Inv => FailureIsNotShared
  BY DEF Inv
<1>2. QED
  BY Invariance, <1>1, PTL
====
