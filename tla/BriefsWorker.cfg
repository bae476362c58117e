\* The worker alone, with room for one company in a tick and an hour: what is filed, revised and
\* removed in turn may bring inputs back, and a company that is stuck may keep the room.
CONSTANTS
  Companies = {"a", "b"}
  Readers = {}
  Worker = "worker"
  SecPerTick = 1
  PerTick = 1
  PerHour = 1
  MaxReports = 2
  MaxAsks = 0
  MaxEvents = 2
  MaxRestarts = 1
SPECIFICATION FairSpec
INVARIANTS BriefsTypeOK OncePerInput
PROPERTIES NewNumbersBriefed
