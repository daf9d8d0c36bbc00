---- MODULE Semaphore ----
(***************************************************************************)
(* What the gates of a bot's connections promise the downloads that share  *)
(* them: each is a fair semaphore.  An owner takes places at gates and     *)
(* drops them when it likes; the permits of what it drops go to those who  *)
(* wait, in the order in which they came.  Nobody else loses a permit or   *)
(* is overtaken by that, and no permit is made up or lies idle.            *)
(***************************************************************************)
EXTENDS Integers, FiniteSets

CONSTANTS
    Gates,
    Permits, \* of each gate
    Owners,
    Places,  \* the places each owner has
    Nowhere  \* not a gate

VARIABLES
    at,   \* the gate at which a place waits or has a permit
    out,  \* the places with a permit
    first \* those a place that waits must let go first

vars == <<at, out, first>>

Place == UNION {Places[o] : o \in Owners}

Taken == {p \in Place : at[p] # Nowhere}

Init ==
    /\ at = [p \in Place |-> Nowhere]
    /\ out = {}
    /\ first = [p \in Place |-> {}]

Least(m, n) == IF m < n THEN m ELSE n

(* Owner o drops some of its places, and takes others anew: who stays      *)
(* keeps its permit, or its turn, and a permit is given to those for whom  *)
(* nobody waits who came to the same gate before them.                     *)
Serve(o, dropped) ==
    LET stay == Taken \ dropped
        before(p) == IF p \in stay THEN first[p] \cap stay
                     ELSE {q \in stay : at[q] = at'[p]}
    IN  /\ \A p \in Place :
               IF p \in stay THEN at'[p] = at[p] ELSE at'[p] # Nowhere => p \in Places[o]
        /\ out \cap stay \subseteq out'
        /\ out' \subseteq Taken'
        /\ \A g \in Gates : Cardinality({p \in out' : at'[p] = g}) =
                            Least(Permits, Cardinality({p \in Place : at'[p] = g}))
        /\ \A p \in out' \ (out \cap stay) : before(p) \subseteq out'
        /\ \A p \in Taken' \ out' :
               /\ first'[p] \cap stay = before(p) \ out'
               /\ \A q \in first'[p] \ stay : p \notin stay /\ at'[q] = at'[p] /\ q \notin out'

(* A step takes or drops a place.                                          *)
Next ==
    /\ at' # at
    /\ \E o \in Owners : \E dropped \in SUBSET (Places[o] \cap Taken) : Serve(o, dropped)

Spec == Init /\ [][Next]_vars
====
