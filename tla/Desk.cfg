SPECIFICATION DeskSpec
CONSTANTS
 Handler = {h1, h2}
 QueueLimit = 2
 MaxBeats = 4
 Sync = {s1, s2}
 MaxPin = 2
 Connecting = {c1}
 TTL = 3
 Slowest = 1
 MaxTime = 8
 NoPlace = NoPlace
 MaxMessages = 3
 MaxApplies = 2
 Domain = {d1, d2, d3}
 MaxLines = 3
 Absent = Absent
 Command = {k1, k2}
 FileName = {setup, other}
 Chunks = 3
 Hole = Hole
 Loader = {w1, w2}
 MaxTickets = 2
INVARIANTS TypeOK HeartbeatsKept PinCurrent PayloadFresh SeenWasShown   RanItsOwn
PROPERTIES Reconnects Answered CreatedIsListed ExitCompletes
CHECK_DEADLOCK FALSE
