\* A reader asks next to the worker: calls overlap, and numbers come while a brief is written.
CONSTANTS
  Companies = {"a"}
  Readers = {"reader"}
  Worker = "worker"
  SecPerTick = 1
  PerTick = 1
  PerHour = 1
  MaxReports = 2
  MaxAsks = 2
  MaxEvents = 3
  MaxRestarts = 0
SPECIFICATION BriefsSpec
INVARIANTS OncePerInput NewNumbersDue BudgetBounded
