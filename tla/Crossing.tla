------------------------------ MODULE Crossing -------------------------------
(***************************************************************************)
(* What a threshold rule promises its owner (server/domain/alerts.js,      *)
(* header): it fires on a crossing.  Each rule looks at a stream of        *)
(* observations, always newer than the last it looked at; it fires on one  *)
(* that meets its condition while armed, and re-arms on one that does not. *)
(***************************************************************************)
EXTENDS Naturals

CONSTANTS
  Rules,          \* threshold rules
  Readings,       \* observations, records with a field observed
  Meets(_, _)     \* Meets(r, o): o meets the condition of rule r

VARIABLES
  armed,          \* per rule
  last,           \* per rule, when the newest observation it looked at was observed
  delivered       \* per rule, the observations it fired on

abstractVars == <<armed, last, delivered>>

Init ==
  /\ armed = [r \in Rules |-> TRUE]
  /\ last = [r \in Rules |-> 0]
  /\ delivered = [r \in Rules |-> {}]

\* Rule r looks at o.
Look(r, o) ==
  /\ o.observed > last[r]
  /\ last'[r] = o.observed
  /\ armed'[r] = ~Meets(r, o)
  /\ delivered'[r] = IF Meets(r, o) /\ armed[r] THEN delivered[r] \cup {o} ELSE delivered[r]

Keep(r) ==
  /\ last'[r] = last[r]
  /\ armed'[r] = armed[r]
  /\ delivered'[r] = delivered[r]

\* One observation is looked at by any number of rules at once.
Next == \E o \in Readings : \A r \in Rules : Look(r, o) \/ Keep(r)

Spec == Init /\ [][Next]_abstractVars

==============================================================================
