\* Two days, of which the sitemap lists one; two ticks that overlap and restarts; two editors who
\* decide on one brief.
CONSTANTS
  MaxDay = 2
  Ticks = {t1, t2}
  Editors = {e1, e2}
  MaxCalls = 3
  MaxReviews = 3
  Listed = 1
CHECK_DEADLOCK FALSE \* the last day ends, its brief made and reviewed
SPECIFICATION Spec
INVARIANTS TypeOK CallsBounded DayOfItsRows ReviewsOfTheText ReadersAgree
