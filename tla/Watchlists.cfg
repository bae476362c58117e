\* Two requests at once at a limit of one list and one instrument; one friend.
CONSTANTS
  Lists = {l1, l2}
  Names = {watching, other}
  Watching = watching
  Instruments = {i1, i2, i3}
  Owner = owner
  Friends = {friend}
  Requests = {r1, r2}
  MaxLists = 1
  MaxItems = 1
  None = none
CHECK_DEADLOCK FALSE \* an erased account stops
SPECIFICATION Spec
SYMMETRY Interchangeable
INVARIANTS TypeOK LimitsBounded NothingOutlives
PROPERTY EditsAreGranted
