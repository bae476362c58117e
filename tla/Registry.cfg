\* An editor's request beside the sync; two tickers, two CIKs that one company may have in turn.
CONSTANTS
  Symbols = {s1, s2}
  Ciks = {c1, c2}
  Names = {n1}
  Editors = {e1}
  Sync = sync
  None = none
SPECIFICATION Spec
INVARIANTS OnePerCompany
PROPERTIES NeverLost
