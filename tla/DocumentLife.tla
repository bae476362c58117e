---------------------------- MODULE DocumentLife ----------------------------
(***************************************************************************)
(* What Trade promises about a source document (server/domain/documents.js,*)
(* header): it follows its item's revisions, document rules hear of it     *)
(* once, when it is first seen, and once hidden it stays hidden.           *)
(***************************************************************************)
EXTENDS Naturals

CONSTANTS Items, Rules

VARIABLES
  rev,        \* per item, the revision on record; 0 before it is first seen
  hidden,     \* per item, whether the document is hidden
  told        \* per item, the rules that were told of it

lifeVars == <<rev, hidden, told>>

Init ==
  /\ rev = [i \in Items |-> 0]
  /\ hidden = [i \in Items |-> FALSE]
  /\ told = [i \in Items |-> {}]

FirstSeen(i) ==
  /\ rev[i] = 0
  /\ rev'[i] > 0
  /\ ~hidden'[i]
  /\ told'[i] \subseteq Rules

Revised(i) ==
  /\ rev[i] > 0
  /\ rev'[i] > rev[i]
  /\ hidden'[i] = hidden[i]
  /\ told'[i] = told[i]

Hidden(i) ==
  /\ rev[i] > 0
  /\ rev'[i] = rev[i]
  /\ hidden'[i]
  /\ told'[i] = told[i]

Kept(i) ==
  /\ rev'[i] = rev[i]
  /\ hidden'[i] = hidden[i]
  /\ told'[i] = told[i]

\* A page of changes moves any number of documents at once.
Next == \A i \in Items : FirstSeen(i) \/ Revised(i) \/ Hidden(i) \/ Kept(i)

Spec == Init /\ [][Next]_lifeVars

==============================================================================
