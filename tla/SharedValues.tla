---------------------------- MODULE SharedValues ----------------------------
(***************************************************************************)
(* What a cache of shared values promises its clients (ttlcache.Cache):    *)
(* a value is built once, a client only ever holds a value that is open,   *)
(* and a value is closed at most once and only while nobody holds it.      *)
(***************************************************************************)
EXTENDS Naturals

CONSTANTS Getters, Values, NoValue

VARIABLES
  built,   \* values constructed so far
  closes,  \* number of Close calls each value has seen
  held     \* the value a client has in hand

Init ==
  /\ built = {}
  /\ closes = [v \in Values |-> 0]
  /\ held = [g \in Getters |-> NoValue]

Build(v) ==
  /\ v \in Values \ built
  /\ built' = built \cup {v}
  /\ UNCHANGED <<closes, held>>

\* A client that builds its own value holds it at once.
BuildOwn(g, v) ==
  /\ v \in Values \ built
  /\ held[g] = NoValue
  /\ built' = built \cup {v}
  /\ held' = [held EXCEPT ![g] = v]
  /\ UNCHANGED closes

Acquire(g, v) ==
  /\ held[g] = NoValue
  /\ v \in built /\ closes[v] = 0
  /\ held' = [held EXCEPT ![g] = v]
  /\ UNCHANGED <<built, closes>>

Release(g) ==
  /\ held' = [held EXCEPT ![g] = NoValue]
  /\ UNCHANGED <<built, closes>>

Close(v) ==
  /\ v \in built /\ closes[v] = 0
  /\ \A g \in Getters : held[g] # v
  /\ closes' = [closes EXCEPT ![v] = 1]
  /\ UNCHANGED <<built, held>>

Next ==
  \/ \E v \in Values : Build(v) \/ Close(v)
  \/ \E g \in Getters : Release(g) \/ \E v \in Values : Acquire(g, v) \/ BuildOwn(g, v)

Spec == Init /\ [][Next]_<<built, closes, held>>

=============================================================================
