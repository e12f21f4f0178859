------------------------------ MODULE Location ------------------------------
(***************************************************************************)
(* What a heartbeat says of the machine's place and programs: the cache of *)
(* geo.py, its chain of sources from the most to the least accurate, and   *)
(* the two loops' own 10-minute limits in heartbeat.py and                 *)
(* socket_client.py.  Fetches run in worker threads and may overlap.  Time *)
(* is counted in heartbeat intervals.                                      *)
(***************************************************************************)
EXTENDS Integers

CONSTANTS Connecting,  \* fetchers started by connect handlers
          TTL,       \* 10 minutes
          Slowest,   \* the longest that a fetch, or listing the programs, takes
          MaxTime,   \* bound: the clock stops there
          NoPlace    \* the cache before the first answer

ASSUME LocationAssumption ==
  /\ TTL \in Nat \ {0} /\ Slowest \in Nat /\ MaxTime \in Nat
  /\ "heartbeat" \notin Connecting

VARIABLES
  now,
  booted,       \* how long before time 0 the machine started
  googleKey,    \* GOOGLE_GEO_KEY is configured
  enabledOnce,  \* _location_enabled_once
  cache,        \* _cache: fetched_at is when the fetch began
  fetch,        \* of each fetcher: its next source or how it ended, and its locals
  beat,         \* heartbeat_loop: its next step, its locals and its limits; place is
                \* when the place it sends was taken, NoPlace without one or in an outage
  \* History, which no action reads:
  sentPlace,    \* the age of that place in the last heartbeat, 0 for NoPlace
  sentList,     \* the age of the program list in it, -1 if it was never made
  outage        \* a fetch ended with no source since the cache was written

locationVars == <<now, booted, googleKey, enabledOnce, cache, fetch, beat, sentPlace, sentList, outage>>

Fetchers == Connecting \cup {"heartbeat"}
Sources  == {"windows", "scan", "google", "mylnikov", "ip"}
Over    == {"found", "failed"}
Off == [pc |-> "idle", began |-> 0]

LocationInit ==
  /\ now = 0 /\ booted \in {0, TTL} /\ googleKey \in BOOLEAN /\ enabledOnce = FALSE
  /\ cache = [taken |-> NoPlace, at |-> 0]
  /\ fetch = [f \in Fetchers |-> Off]
  /\ beat = [pc |-> "asleep", turn |-> 0, wake |-> 0, geo |-> -TTL, listed |-> -TTL, list |-> -1,
             place |-> NoPlace]
  /\ sentPlace = 0 /\ sentList = 0 /\ outage = FALSE

-----------------------------------------------------------------------------
(* fetch_location *)

StartFetch(f) == [fetch EXCEPT ![f] = [pc |-> "windows", began |-> now]]

\* The cache is good for 10 minutes from the time its fetch began.
CacheGood == cache.taken # NoPlace /\ now - cache.at < TTL

\* Answered by a source: the cache is written with the time of the beginning.
Found(f) ==
  /\ cache' = [taken |-> now, at |-> fetch[f].began]
  /\ fetch' = [fetch EXCEPT ![f] = [pc |-> "found", began |-> 0]] /\ outage' = FALSE

Goto(f, pc) == fetch' = [fetch EXCEPT ![f].pc = pc] /\ UNCHANGED <<cache, outage>>

clocks == <<now, booted, googleKey, beat, sentPlace, sentList>>

\* Windows Location Services, enabled in the registry once per process.
TryWindows(f) ==
  /\ fetch[f].pc = "windows" /\ enabledOnce' = TRUE
  /\ Found(f) \/ Goto(f, "scan")
  /\ UNCHANGED clocks

\* netsh: with no network in sight the databases are skipped.
ScanWifi(f) ==
  /\ fetch[f].pc = "scan"
  /\ \/ googleKey /\ Goto(f, "google")
     \/ ~googleKey /\ Goto(f, "mylnikov")
     \/ Goto(f, "ip")
  /\ UNCHANGED <<clocks, enabledOnce>>

TryGoogle(f) ==
  /\ fetch[f].pc = "google"
  /\ Found(f) \/ Goto(f, "mylnikov")
  /\ UNCHANGED <<clocks, enabledOnce>>

\* Five networks at most, one after the other.
TryMylnikov(f) ==
  /\ fetch[f].pc = "mylnikov"
  /\ Found(f) \/ Goto(f, "ip")
  /\ UNCHANGED <<clocks, enabledOnce>>

\* Two providers; after the last one the cache is returned as it is.
TryIp(f) ==
  /\ fetch[f].pc = "ip"
  /\ \/ Found(f)
     \/ /\ fetch' = [fetch EXCEPT ![f] = [pc |-> "failed", began |-> 0]]
        /\ outage' = TRUE /\ UNCHANGED cache
  /\ UNCHANGED <<clocks, enabledOnce>>

\* The connect handler fetches when nothing is cached, whatever its age.
ConnectFetches(f) ==
  /\ f # "heartbeat" /\ fetch[f].pc = "idle" /\ cache.taken = NoPlace
  /\ fetch' = StartFetch(f)
  /\ UNCHANGED <<clocks, enabledOnce, cache, outage>>

ConnectRegisters(f) ==
  /\ f # "heartbeat" /\ fetch[f].pc \in Over
  /\ fetch' = [fetch EXCEPT ![f] = Off]
  /\ UNCHANGED <<clocks, enabledOnce, cache, outage>>

-----------------------------------------------------------------------------
(* heartbeat_loop *)

still == <<now, booted, googleKey, enabledOnce, cache, outage>>

\* The limit of the program list is on the monotonic clock, which starts with
\* the machine, and its first value is 0.
ListDue == IF beat.list = -1 THEN now + booted >= TTL ELSE now - beat.listed >= TTL

Turn ==
  /\ beat.pc = "asleep" /\ beat.wake <= now
  /\ beat' = [beat EXCEPT !.turn = now, !.pc = IF ListDue THEN "list" ELSE "place"]
  /\ UNCHANGED <<still, fetch, sentPlace, sentList>>

\* get_installed_programs in a worker; an error skips this heartbeat.
ListPrograms ==
  /\ beat.pc = "list"
  /\ \/ beat' = [beat EXCEPT !.pc = "place", !.list = now, !.listed = beat.turn]
     \/ beat' = [beat EXCEPT !.pc = "asleep", !.wake = now + 1]
  /\ UNCHANGED <<still, fetch, sentPlace, sentList>>

\* What get_cached_location returns.
Cached == IF outage THEN NoPlace ELSE cache.taken

\* Faulty: the limit is taken anew at each turn.
PlaceMovesLimit ==
  /\ beat.pc = "place"
  /\ beat' = [beat EXCEPT !.geo = beat.turn, !.place = Cached, !.pc = IF cache.taken = NoPlace THEN "fetch" ELSE "send"]
  /\ fetch' = IF cache.taken = NoPlace THEN StartFetch("heartbeat") ELSE fetch
  /\ UNCHANGED <<still, sentPlace, sentList>>

\* The cached place, whatever its age, for 10 minutes after the last refresh; a
\* refresh within the cache's own 10 minutes returns the cache.
Place ==
  /\ beat.pc = "place"
  /\ \/ cache.taken # NoPlace /\ beat.turn - beat.geo < TTL
        /\ beat' = [beat EXCEPT !.pc = "send", !.place = Cached] /\ UNCHANGED fetch
     \/ /\ cache.taken = NoPlace \/ beat.turn - beat.geo >= TTL
        /\ \/ CacheGood /\ beat' = [beat EXCEPT !.pc = "send", !.geo = beat.turn, !.place = Cached] /\ UNCHANGED fetch
           \/ ~CacheGood /\ beat' = [beat EXCEPT !.pc = "fetch"] /\ fetch' = StartFetch("heartbeat")
  /\ UNCHANGED <<still, sentPlace, sentList>>

\* What the worker returns is sent, whatever the cache has become.
Fetched ==
  /\ beat.pc = "fetch" /\ fetch["heartbeat"].pc \in Over
  /\ beat' = [beat EXCEPT !.pc = "send", !.geo = beat.turn,
                          !.place = IF fetch["heartbeat"].pc = "found" THEN now ELSE NoPlace]
  /\ fetch' = [fetch EXCEPT !["heartbeat"] = Off]
  /\ UNCHANGED <<still, sentPlace, sentList>>

SendBeat ==
  /\ beat.pc = "send" /\ beat' = [beat EXCEPT !.pc = "asleep", !.wake = now + 1, !.place = NoPlace]
  /\ sentPlace' = IF beat.place = NoPlace THEN 0 ELSE now - beat.place
  /\ sentList' = IF beat.list = -1 THEN -1 ELSE now - beat.list
  /\ UNCHANGED <<still, fetch>>

\* Time passes while the loop sleeps, and while a worker is busy that has not
\* reached its time limits.
Tick ==
  /\ now < MaxTime /\ now' = now + 1
  /\ \/ beat.pc = "asleep" /\ beat.wake > now
     \/ beat.pc = "list" /\ now - beat.turn < Slowest
     \/ beat.pc = "fetch" /\ fetch["heartbeat"].pc \in Sources
  /\ \A f \in Fetchers : fetch[f].pc \in Sources => now - fetch[f].began < Slowest
  /\ UNCHANGED <<booted, googleKey, enabledOnce, cache, fetch, beat, sentPlace, sentList, outage>>

LocationNext ==
  \/ \E f \in Fetchers :
       \/ TryWindows(f) \/ ScanWifi(f) \/ TryGoogle(f) \/ TryMylnikov(f) \/ TryIp(f)
       \/ ConnectFetches(f) \/ ConnectRegisters(f)
  \/ Turn \/ ListPrograms \/ Place \/ Fetched \/ SendBeat \/ Tick

LocationSpec == LocationInit /\ [][LocationNext]_locationVars

-----------------------------------------------------------------------------
(* Properties. *)

LocationTypeOK ==
  /\ now \in 0 .. MaxTime /\ booted \in {0, TTL} /\ googleKey \in BOOLEAN /\ enabledOnce \in BOOLEAN
  /\ cache.taken \in {NoPlace} \cup 0 .. now /\ cache.at \in 0 .. now
  /\ fetch \in [Fetchers -> [pc : Sources \cup Over \cup {"idle"}, began : 0 .. now]]
  /\ beat \in [pc : {"asleep", "list", "place", "fetch", "send"}, turn : 0 .. now, wake : 0 .. now + 1,
               geo : {-TTL} \cup 0 .. now, listed : {-TTL} \cup 0 .. now, list : -1 .. now,
               place : {NoPlace} \cup 0 .. now]
  /\ sentPlace \in 0 .. MaxTime /\ sentList \in -1 .. MaxTime /\ outage \in BOOLEAN

\* Two limits of 10 minutes follow each other, heartbeat.py's and the cache's
\* ("at most every 10 minutes; otherwise reuse cache", heartbeat.py:46): a
\* heartbeat's place may be older than 10 minutes but, unless a refresh found
\* no source, no older than both and the time that listing the programs takes.
PlaceNotTooOld == sentPlace <= 2 * (TTL - 1) + Slowest

\* The same for the programs: no list older than a limit and the time a worker
\* may take.  A heartbeat goes out without a list only in the machine's first 10
\* minutes, where the monotonic clock is below the limit that the initial 0 is
\* compared with (heartbeat.py:23, 28).
ListInTime ==
  /\ sentList < TTL + Slowest
  /\ beat.pc = "send" /\ beat.list = -1 => booted + beat.turn < TTL

\* What a heartbeat reports is as recent as the three limits together allow,
\* however fetches overlap and whenever a source fails or a worker is slow.
PayloadFresh == PlaceNotTooOld /\ ListInTime
=============================================================================
