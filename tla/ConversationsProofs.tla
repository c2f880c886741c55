------------------------- MODULE ConversationsProofs -------------------------
(***************************************************************************)
(* Proofs about Conversations.                                             *)
(***************************************************************************)
EXTENDS Conversations, FiniteSetTheorems, TLAPS

\* Between a crash and the moment the shim listens again nothing runs.
Quiet ==
    phase # "up" =>
        /\ writer = None /\ stale = {} /\ jobs = {}
        /\ \A r \in Requests : request[r] \in Decided \union {"idle"}
        /\ \A c \in Resets : reset[c] \in {"idle", "replied", "gone"}
        /\ reaper = "idle"

\* A session is spawned for a conversation that has no entry, and loaded for
\* one that has a row and no entry yet.
SpawnFree ==
    /\ \A r \in Requests : request[r] = "spawning" => map[KeyOf[r]] = None
    /\ phase = "down" => \A k \in Keys : map[k] = None
    /\ phase = "recovering" => \A k \in loading : map[k] = None /\ rows[k] # None

\* Every session in memory, in a row or in a pending write was handed out by
\* the agent; a request that was given a conversation has its session.
SessionsUsed ==
    /\ \A r \in Requests :
          /\ conv[r] \in used \union {None}
          /\ request[r] \in {"inserting", "found", "serving"} => conv[r] # None
    /\ \A k \in Keys : map[k] \in used \union {None} /\ rows[k] \in used \union {None}
    /\ \A j \in jobs : j.session \in used \union {None}

\* A request that is to continue a conversation goes on as long as the entry
\* is there, and without it only if it was removed after the check.
Continued ==
    \A r \in Requests : ModeOf[r] = "continue" =>
        /\ request[r] = "checked" => map[KeyOf[r]] # None \/ r \in lapsed
        /\ request[r] \in {"missed", "spawning", "inserting"} => r \in lapsed

\* The writes pending for a conversation whose row is not in doubt write the
\* session in use.
JobsCurrent ==
    \A j \in jobs : j.key \in Active \ unsure => j.session = map[j.key]

\* Such a conversation has its row, or the write is pending.
RowsCurrent == \A k \in Active \ unsure : rows[k] = map[k] \/ Pending(k)

\* The keys that take up room: those with an entry, and the one a session is
\* being spawned for.  There are finitely many, and as many as there is room.
Occupied == {k \in Keys : map[k] # None \/ Spawning(k)}
RoomKept == IsFiniteSet(Occupied) /\ Cardinality(Occupied) <= MaxActive

-----------------------------------------------------------------------------
\* Every variable keeps the type the code gives it, and nothing of the life
\* before a crash is left when the shim listens again.
THEOREM TypeCorrect == Spec => [](TypeOK /\ Quiet)
<1> USE ConversationsAssumption
<1>1. Init => TypeOK /\ Quiet
  BY DEF Init, TypeOK, Quiet, RequestState, ResetState, ReaperState, Active
<1>2. TypeOK /\ Quiet /\ [Next]_vars => TypeOK' /\ Quiet'
  <2> SUFFICES ASSUME TypeOK, Quiet, [Next]_vars
               PROVE  TypeOK' /\ Quiet'
    OBVIOUS
  <2> USE DEF TypeOK, Quiet
  <2>1. ASSUME NEW r \in Requests, CheckMode(r)
        PROVE  TypeOK' /\ Quiet'
    BY <2>1 DEF CheckMode, Step, lockVars, dropVars, dbVars, lifeVars, RequestState, Active
  <2>2. ASSUME NEW r \in Requests, GetOrCreate(r)
        PROVE  TypeOK' /\ Quiet'
    <3> USE DEF Step, lockVars, dropVars, dbVars, lifeVars, RequestState, Active
    <3>1. ASSUME NEW from, Hit(r, from)
          PROVE  TypeOK' /\ Quiet'
      BY <3>1 DEF Hit
    <3>2. CASE Miss(r)
      BY <3>2 DEF Miss
    <3>3. CASE BeginSpawn(r)
      BY <3>3 DEF BeginSpawn
    <3>4. CASE RefuseLimit(r)
      BY <3>4 DEF RefuseLimit
    <3>5. CASE SpawnFails(r)
      BY <3>5 DEF SpawnFails
    <3>6. ASSUME NEW s \in Sessions, Spawned(r, s)
          PROVE  TypeOK' /\ Quiet'
      <4>1. jobs' \subseteq Job
        BY <3>6 DEF Spawned, Job
      <4>2. stale' \subseteq Active'
        BY <3>6 DEF Spawned
      <4> QED
        BY <3>6, <4>1, <4>2 DEF Spawned
    <3>7. CASE RowWritten(r)
      BY <3>7 DEF RowWritten
    <3> QED
      BY <2>2, <3>1, <3>2, <3>3, <3>4, <3>5, <3>6, <3>7 DEF GetOrCreate
  <2>3. ASSUME NEW r \in Requests, AcquireInFlight(r)
        PROVE  TypeOK' /\ Quiet'
    <3> USE DEF Step, lockVars, dropVars, dbVars, lifeVars, RequestState, Active
    <3>1. CASE Acquire(r)
      BY <3>1 DEF Acquire
    <3>2. CASE AcquireFails(r)
      BY <3>2 DEF AcquireFails
    <3> QED
      BY <2>3, <3>1, <3>2 DEF AcquireInFlight
  <2>4. ASSUME NEW r \in Requests, EndTurn(r) \/ Disconnect(r)
        PROVE  TypeOK' /\ Quiet'
    <3> USE DEF Step, lockVars, dropVars, dbVars, lifeVars, RequestState, Active
    <3>1. CASE EndTurn(r)
      BY <3>1 DEF EndTurn, Released
    <3>2. CASE Disconnect(r)
      BY <3>2 DEF Disconnect
    <3> QED
      BY <2>4, <3>1, <3>2
  <2>5. ASSUME NEW c \in Resets, ResetBegins(c) \/ ResetCall(c) \/ ResetDisconnect(c)
        PROVE  TypeOK' /\ Quiet'
    <3> USE DEF ResetStep, lockVars, callVars, dbVars, lifeVars, ResetState, Active
    <3>1. CASE ResetBegins(c)
      BY <3>1 DEF ResetBegins
    <3>2. CASE ResetDeletesRow(c)
      <4>1. jobs' \subseteq Job
        BY <3>2 DEF ResetDeletesRow, Job
      <4> QED
        BY <3>2, <4>1 DEF ResetDeletesRow
    <3>3. CASE ResetRemoves(c)
      BY <3>3 DEF ResetRemoves, Continuing
    <3>4. CASE ResetDisconnect(c)
      BY <3>4 DEF ResetDisconnect
    <3> QED
      BY <2>5, <3>1, <3>2, <3>3, <3>4 DEF ResetCall
  <2>6. ASSUME NEW k \in Keys, Ages(k)
        PROVE  TypeOK' /\ Quiet'
    BY <2>6 DEF Ages, callVars, dropVars, dbVars, lifeVars, Active
  <2>7. CASE SweepCollects
    BY <2>7 DEF SweepCollects, lockVars, callVars, dbVars, lifeVars, Active, ReaperState
  <2>8. CASE Sweep
    <3> USE DEF lockVars, callVars, dbVars, lifeVars, Active, ReaperState
    <3>1. CASE SweepRemoves
      BY <3>1 DEF SweepRemoves, Continuing
    <3>2. CASE SweepEnds
      BY <3>2 DEF SweepEnds
    <3>3. ASSUME NEW k \in Keys, SweepDeletesRow(k)
          PROVE  TypeOK' /\ Quiet'
      <4>1. jobs' \subseteq Job
        BY <3>3 DEF SweepDeletesRow, Job
      <4> QED
        BY <3>3, <4>1 DEF SweepDeletesRow
    <3> QED
      BY <2>8, <3>1, <3>2, <3>3 DEF Sweep
  <2>9. ASSUME NEW j \in jobs, RunJob(j) \/ JobFails(j)
        PROVE  TypeOK' /\ Quiet'
    <3>1. phase = "up" /\ j.key \in Keys /\ j.session \in Sessions \union {None}
      BY DEF Job
    <3> USE DEF lockVars, callVars, dropVars, lifeVars, Active
    <3>2. CASE RunJob(j)
      BY <3>1, <3>2 DEF RunJob
    <3>3. CASE JobFails(j)
      BY <3>1, <3>3 DEF JobFails
    <3> QED
      BY <2>9, <3>2, <3>3
  <2>10. CASE Crash
    BY <2>10 DEF Crash, Active, RequestState, ResetState, ReaperState, Decided
  <2>11. CASE Recover
    <3> USE DEF lockVars, callVars, dropVars, dbVars, Active
    <3>1. CASE Restart
      BY <2>11, <3>1 DEF Restart
    <3>2. CASE Listen
      BY <2>11, <3>2 DEF Listen
    <3>3. ASSUME NEW k \in Keys, Load(k)
          PROVE  TypeOK' /\ Quiet'
      BY <3>3 DEF Load
    <3>4. ASSUME NEW k \in Keys, LoadRejected(k)
          PROVE  TypeOK' /\ Quiet'
      BY <3>4 DEF LoadRejected
    <3> QED
      BY <2>11, <3>1, <3>2, <3>3, <3>4 DEF Recover
  <2>12. CASE UNCHANGED vars
    BY <2>12 DEF vars, lockVars, callVars, dropVars, dbVars, lifeVars, Active
  <2> QED
    BY <2>1, <2>2, <2>3, <2>4, <2>5, <2>6, <2>7, <2>8, <2>9, <2>10, <2>11, <2>12 DEF Next
<1> QED
  BY <1>1, <1>2, PTL DEF Spec

-----------------------------------------------------------------------------
\* The write lock is held by the request that spawns a session, and by nobody
\* when there is none: a dropped handler does not take it along.
THEOREM LockKept == Spec => []LockNotLeaked
<1>1. Init => LockNotLeaked
  BY ConversationsAssumption DEF Init, LockNotLeaked
<1>2. TypeOK /\ Quiet /\ LockNotLeaked /\ [Next]_vars => LockNotLeaked'
  <2> SUFFICES ASSUME TypeOK, Quiet, LockNotLeaked, [Next]_vars
               PROVE  LockNotLeaked'
    OBVIOUS
  <2> USE ConversationsAssumption DEF TypeOK, LockNotLeaked
  <2>1. ASSUME NEW r \in Requests, GetOrCreate(r)
        PROVE  LockNotLeaked'
    <3> USE DEF Step, lockVars, Unlocked
    <3>1. CASE BeginSpawn(r)
      BY <3>1 DEF BeginSpawn
    <3>2. CASE SpawnFails(r)
      BY <3>2 DEF SpawnFails
    <3>3. ASSUME NEW s \in Sessions, Spawned(r, s)
          PROVE  LockNotLeaked'
      BY <3>3 DEF Spawned
    <3>4. ASSUME NEW from, Hit(r, from)
          PROVE  LockNotLeaked'
      BY <3>4 DEF Hit
    <3>5. CASE Miss(r) \/ RefuseLimit(r) \/ RowWritten(r)
      BY <3>5 DEF Miss, RefuseLimit, RowWritten
    <3> QED
      BY <2>1, <3>1, <3>2, <3>3, <3>4, <3>5 DEF GetOrCreate
  <2>2. ASSUME NEW r \in Requests, CheckMode(r) \/ AcquireInFlight(r) \/ EndTurn(r)
        PROVE  LockNotLeaked'
    BY <2>2 DEF CheckMode, AcquireInFlight, Acquire, AcquireFails, EndTurn, Step, lockVars
  <2>3. ASSUME NEW r \in Requests, Disconnect(r)
        PROVE  LockNotLeaked'
    BY <2>3 DEF Disconnect, Step
  <2>4. ASSUME NEW c \in Resets, ResetBegins(c) \/ ResetCall(c) \/ ResetDisconnect(c)
        PROVE  LockNotLeaked'
    BY <2>4 DEF ResetBegins, ResetCall, ResetDeletesRow, ResetRemoves, ResetDisconnect,
                lockVars, callVars
  <2>5. ASSUME NEW k \in Keys, Ages(k)
        PROVE  LockNotLeaked'
    BY <2>5 DEF Ages, callVars
  <2>6. CASE SweepCollects \/ Sweep
    BY <2>6 DEF SweepCollects, Sweep, SweepRemoves, SweepEnds, SweepDeletesRow, lockVars, callVars
  <2>7. ASSUME NEW j \in jobs, RunJob(j) \/ JobFails(j)
        PROVE  LockNotLeaked'
    BY <2>7 DEF RunJob, JobFails, lockVars, callVars
  <2>8. CASE Crash
    BY <2>8 DEF Crash, Decided
  <2>9. CASE Recover
    BY <2>9 DEF Recover, Restart, Listen, Load, LoadRejected, lockVars, callVars
  <2>10. CASE UNCHANGED vars
    BY <2>10 DEF vars, lockVars, callVars
  <2> QED
    BY <2>1, <2>2, <2>3, <2>4, <2>5, <2>6, <2>7, <2>8, <2>9, <2>10 DEF Next
<1> QED
  BY <1>1, <1>2, TypeCorrect, PTL DEF Spec

-----------------------------------------------------------------------------
\* A session is spawned, or loaded, only where there is no entry.
THEOREM SpawnsFree == Spec => []SpawnFree
<1>1. Init => SpawnFree
  BY DEF Init, SpawnFree
<1>2. TypeOK /\ Quiet /\ LockNotLeaked /\ SpawnFree /\ [Next]_vars => SpawnFree'
  <2> SUFFICES ASSUME TypeOK, Quiet, LockNotLeaked, SpawnFree, [Next]_vars
               PROVE  SpawnFree'
    OBVIOUS
  <2> USE ConversationsAssumption DEF TypeOK, SpawnFree
  <2>1. ASSUME NEW r \in Requests, GetOrCreate(r)
        PROVE  SpawnFree'
    <3> USE DEF Step, lockVars, dbVars, lifeVars
    <3>1. CASE BeginSpawn(r)
      BY <3>1 DEF BeginSpawn
    <3>2. ASSUME NEW s \in Sessions, Spawned(r, s)
          PROVE  SpawnFree'
      <4>1. \A q \in Requests : request[q] = "spawning" => q = r
        BY <3>2 DEF Spawned, LockNotLeaked
      <4> QED
        BY <3>2, <4>1 DEF Spawned
    <3>3. ASSUME NEW from, Hit(r, from)
          PROVE  SpawnFree'
      BY <3>3 DEF Hit
    <3>4. CASE Miss(r) \/ RefuseLimit(r) \/ SpawnFails(r) \/ RowWritten(r)
      BY <3>4 DEF Miss, RefuseLimit, SpawnFails, RowWritten
    <3> QED
      BY <2>1, <3>1, <3>2, <3>3, <3>4 DEF GetOrCreate
  <2>2. ASSUME NEW r \in Requests, CheckMode(r) \/ AcquireInFlight(r) \/ EndTurn(r)
        PROVE  SpawnFree'
    BY <2>2 DEF CheckMode, AcquireInFlight, Acquire, AcquireFails, EndTurn, Step,
                lockVars, dbVars, lifeVars
  <2>3. ASSUME NEW r \in Requests, Disconnect(r)
        PROVE  SpawnFree'
    BY <2>3 DEF Disconnect, Step, dbVars, lifeVars
  <2>4. ASSUME NEW c \in Resets, ResetBegins(c) \/ ResetCall(c) \/ ResetDisconnect(c)
        PROVE  SpawnFree'
    <3> USE DEF ResetStep, lockVars, callVars, dbVars, lifeVars
    <3>1. CASE ResetBegins(c) \/ ResetDisconnect(c)
      BY <3>1 DEF ResetBegins, ResetDisconnect
    <3>2. CASE ResetDeletesRow(c)
      BY <3>2 DEF ResetDeletesRow
    <3>3. CASE ResetRemoves(c)
      BY <3>3 DEF ResetRemoves
    <3> QED
      BY <2>4, <3>1, <3>2, <3>3 DEF ResetCall
  <2>5. ASSUME NEW k \in Keys, Ages(k)
        PROVE  SpawnFree'
    BY <2>5 DEF Ages, callVars, dbVars, lifeVars
  <2>6. CASE SweepCollects \/ Sweep
    <3> USE DEF lockVars, callVars, dbVars, lifeVars
    <3>1. CASE SweepRemoves
      BY <3>1 DEF SweepRemoves
    <3>2. CASE SweepCollects \/ SweepEnds
      BY <3>2 DEF SweepCollects, SweepEnds
    <3>3. ASSUME NEW k \in Keys, SweepDeletesRow(k)
          PROVE  SpawnFree'
      BY <3>3 DEF SweepDeletesRow
    <3> QED
      BY <2>6, <3>1, <3>2, <3>3 DEF Sweep
  <2>7. ASSUME NEW j \in jobs, RunJob(j) \/ JobFails(j)
        PROVE  SpawnFree'
    <3>1. phase = "up"
      BY DEF Quiet
    <3> QED
      BY <2>7, <3>1 DEF RunJob, JobFails, lockVars, callVars, lifeVars
  <2>8. CASE Crash
    BY <2>8 DEF Crash, Decided
  <2>9. CASE Recover
    <3> USE DEF lockVars, callVars, dropVars, dbVars
    <3>1. CASE Restart
      BY <2>9, <3>1 DEF Restart
    <3>2. CASE Listen
      BY <2>9, <3>2 DEF Listen
    <3>3. ASSUME NEW k \in Keys, Load(k)
          PROVE  SpawnFree'
      BY <3>3 DEF Load, Quiet, Decided
    <3>4. ASSUME NEW k \in Keys, LoadRejected(k)
          PROVE  SpawnFree'
      BY <3>4 DEF LoadRejected
    <3> QED
      BY <2>9, <3>1, <3>2, <3>3, <3>4 DEF Recover
  <2>10. CASE UNCHANGED vars
    BY <2>10 DEF vars, lockVars, callVars, dbVars, lifeVars
  <2> QED
    BY <2>1, <2>2, <2>3, <2>4, <2>5, <2>6, <2>7, <2>8, <2>9, <2>10 DEF Next
<1> QED
  BY <1>1, <1>2, TypeCorrect, LockKept, PTL DEF Spec

\* Whatever the interleaving of requests, resets, sweeps and restarts, the
\* entry of a conversation is removed or stays, and is never replaced: the
\* second look under the write lock finds what the first one missed.
THEOREM EntriesStay == Spec => EntryNeverReplaced
<1>1. TypeOK /\ Quiet /\ SpawnFree /\ [Next]_vars
        => [\A k \in Keys : map[k] # None => map'[k] \in {map[k], None}]_vars
  <2> SUFFICES ASSUME TypeOK, SpawnFree, Next, NEW k \in Keys, map[k] # None
               PROVE  map'[k] \in {map[k], None}
    OBVIOUS
  <2> USE ConversationsAssumption DEF TypeOK, SpawnFree
  <2>1. ASSUME NEW r \in Requests, NEW s \in Sessions, Spawned(r, s)
        PROVE  map'[k] = map[k]
    BY <2>1 DEF Spawned, Step
  <2>2. ASSUME NEW l \in Keys, Load(l)
        PROVE  map'[k] = map[k]
    BY <2>2 DEF Load
  <2>3. ASSUME NEW c \in Resets, ResetRemoves(c)
        PROVE  map'[k] \in {map[k], None}
    BY <2>3 DEF ResetRemoves
  <2>4. CASE SweepRemoves \/ Crash
    BY <2>4 DEF SweepRemoves, Crash
  <2>5. ASSUME NEW r \in Requests,
               CheckMode(r) \/ GetOrCreate(r) \/ AcquireInFlight(r) \/ EndTurn(r) \/ Disconnect(r)
        PROVE  map'[k] = map[k]
    <3>1. ASSUME NEW from, Hit(r, from)
          PROVE  map'[k] = map[k]
      BY <3>1 DEF Hit
    <3>2. CASE Miss(r) \/ BeginSpawn(r) \/ RefuseLimit(r) \/ SpawnFails(r) \/ RowWritten(r)
      BY <3>2 DEF Miss, BeginSpawn, RefuseLimit, SpawnFails, RowWritten, lockVars
    <3>3. CASE CheckMode(r) \/ AcquireInFlight(r) \/ EndTurn(r) \/ Disconnect(r)
      BY <3>3 DEF CheckMode, AcquireInFlight, Acquire, AcquireFails, EndTurn, Disconnect, lockVars
    <3> QED
      BY <2>1, <2>5, <3>1, <3>2, <3>3 DEF GetOrCreate
  <2>6. ASSUME NEW c \in Resets, ResetBegins(c) \/ ResetDeletesRow(c) \/ ResetDisconnect(c)
        PROVE  map'[k] = map[k]
    BY <2>6 DEF ResetBegins, ResetDeletesRow, ResetDisconnect, lockVars
  <2>7. ASSUME NEW l \in Keys, Ages(l) \/ SweepDeletesRow(l) \/ LoadRejected(l)
        PROVE  map'[k] = map[k]
    BY <2>7 DEF Ages, SweepDeletesRow, LoadRejected, lockVars
  <2>8. CASE SweepCollects \/ SweepEnds \/ Restart \/ Listen
    BY <2>8 DEF SweepCollects, SweepEnds, Restart, Listen, lockVars
  <2>9. ASSUME NEW j \in jobs, RunJob(j) \/ JobFails(j)
        PROVE  map'[k] = map[k]
    BY <2>9 DEF RunJob, JobFails, lockVars
  <2> QED
    BY <2>1, <2>2, <2>3, <2>4, <2>5, <2>6, <2>7, <2>8, <2>9 DEF Next, ResetCall, Sweep, Recover
<1> QED
  BY <1>1, TypeCorrect, SpawnsFree, PTL DEF Spec, EntryNeverReplaced

-----------------------------------------------------------------------------
\* No session is named anywhere that the agent has not handed out: the session
\* of a new conversation is one no turn runs on.
THEOREM SessionsKnown == Spec => []SessionsUsed
<1>1. Init => SessionsUsed
  BY DEF Init, SessionsUsed
<1>2. TypeOK /\ Quiet /\ SessionsUsed /\ [Next]_vars => SessionsUsed'
  <2> SUFFICES ASSUME TypeOK, Quiet, SessionsUsed, [Next]_vars
               PROVE  SessionsUsed'
    OBVIOUS
  <2> USE ConversationsAssumption DEF TypeOK, SessionsUsed
  <2>1. ASSUME NEW r \in Requests, GetOrCreate(r)
        PROVE  SessionsUsed'
    <3> USE DEF Step, lockVars, dbVars
    <3>1. ASSUME NEW s \in Sessions, Spawned(r, s)
          PROVE  SessionsUsed'
      <4>1. \A j \in jobs' : j.session \in used' \union {None}
        BY <3>1 DEF Spawned
      <4> QED
        BY <3>1, <4>1 DEF Spawned
    <3>2. ASSUME NEW from, Hit(r, from)
          PROVE  SessionsUsed'
      BY <3>2 DEF Hit
    <3>3. CASE Miss(r) \/ BeginSpawn(r) \/ RefuseLimit(r) \/ SpawnFails(r)
      BY <3>3 DEF Miss, BeginSpawn, RefuseLimit, SpawnFails
    <3>4. CASE RowWritten(r)
      BY <3>4 DEF RowWritten
    <3> QED
      BY <2>1, <3>1, <3>2, <3>3, <3>4 DEF GetOrCreate
  <2>2. ASSUME NEW r \in Requests, CheckMode(r) \/ AcquireInFlight(r) \/ EndTurn(r)
        PROVE  SessionsUsed'
    BY <2>2 DEF CheckMode, AcquireInFlight, Acquire, AcquireFails, EndTurn, Step, lockVars, dbVars
  <2>3. ASSUME NEW r \in Requests, Disconnect(r)
        PROVE  SessionsUsed'
    BY <2>3 DEF Disconnect, Step, dbVars
  <2>4. ASSUME NEW c \in Resets, ResetBegins(c) \/ ResetCall(c) \/ ResetDisconnect(c)
        PROVE  SessionsUsed'
    <3> USE DEF ResetStep, lockVars, callVars, dbVars
    <3>1. CASE ResetBegins(c) \/ ResetDisconnect(c)
      BY <3>1 DEF ResetBegins, ResetDisconnect
    <3>2. CASE ResetDeletesRow(c)
      BY <3>2 DEF ResetDeletesRow
    <3>3. CASE ResetRemoves(c)
      BY <3>3 DEF ResetRemoves
    <3> QED
      BY <2>4, <3>1, <3>2, <3>3 DEF ResetCall
  <2>5. ASSUME NEW k \in Keys, Ages(k)
        PROVE  SessionsUsed'
    BY <2>5 DEF Ages, callVars, dbVars
  <2>6. CASE SweepCollects \/ Sweep
    <3> USE DEF lockVars, callVars, dbVars
    <3>1. CASE SweepRemoves
      BY <3>1 DEF SweepRemoves
    <3>2. CASE SweepCollects \/ SweepEnds
      BY <3>2 DEF SweepCollects, SweepEnds
    <3>3. ASSUME NEW k \in Keys, SweepDeletesRow(k)
          PROVE  SessionsUsed'
      BY <3>3 DEF SweepDeletesRow
    <3> QED
      BY <2>6, <3>1, <3>2, <3>3 DEF Sweep
  <2>7. ASSUME NEW j \in jobs, RunJob(j) \/ JobFails(j)
        PROVE  SessionsUsed'
    BY <2>7 DEF RunJob, JobFails, lockVars, callVars
  <2>8. CASE Crash
    BY <2>8 DEF Crash, Decided
  <2>9. CASE Recover
    <3> USE DEF lockVars, callVars, dbVars
    <3>1. CASE Restart \/ Listen
      BY <3>1 DEF Restart, Listen
    <3>2. ASSUME NEW k \in Keys, Load(k)
          PROVE  SessionsUsed'
      BY <3>2 DEF Load
    <3>3. ASSUME NEW k \in Keys, LoadRejected(k)
          PROVE  SessionsUsed'
      BY <3>3 DEF LoadRejected
    <3> QED
      BY <2>9, <3>1, <3>2, <3>3 DEF Recover
  <2>10. CASE UNCHANGED vars
    BY <2>10 DEF vars, lockVars, callVars, dbVars
  <2> QED
    BY <2>1, <2>2, <2>3, <2>4, <2>5, <2>6, <2>7, <2>8, <2>9, <2>10 DEF Next
<1> QED
  BY <1>1, <1>2, TypeCorrect, PTL DEF Spec

\* A turn on a conversation that is in the map holds that conversation's guard:
\* no other turn can take it, for a conversation created anew is another one.
THEOREM TurnsGuarded == Spec => []TurnIsGuarded
<1>1. Init => TurnIsGuarded
  BY DEF Init, TurnIsGuarded, Current
<1>2. TypeOK /\ Quiet /\ SessionsUsed /\ TurnIsGuarded /\ [Next]_vars => TurnIsGuarded'
  <2> SUFFICES ASSUME TypeOK, Quiet, SessionsUsed, TurnIsGuarded, [Next]_vars
               PROVE  TurnIsGuarded'
    OBVIOUS
  <2> USE ConversationsAssumption DEF TypeOK, TurnIsGuarded, Current
  <2>1. ASSUME NEW r \in Requests, GetOrCreate(r)
        PROVE  TurnIsGuarded'
    <3> USE DEF Step, lockVars
    <3>1. ASSUME NEW from \in {"checked", "missed"}, Hit(r, from)
          PROVE  TurnIsGuarded'
      BY <3>1 DEF Hit
    <3>2. ASSUME NEW s \in Sessions, Spawned(r, s)
          PROVE  TurnIsGuarded'
      <4>1. \A q \in Requests : request[q] = "serving" => conv[q] # s /\ q # r
        BY <3>2 DEF Spawned, SessionsUsed
      <4> QED
        BY <3>2, <4>1 DEF Spawned
    <3>3. CASE Miss(r) \/ BeginSpawn(r) \/ RefuseLimit(r) \/ SpawnFails(r) \/ RowWritten(r)
      BY <3>3 DEF Miss, BeginSpawn, RefuseLimit, SpawnFails, RowWritten
    <3> QED
      BY <2>1, <3>1, <3>2, <3>3 DEF GetOrCreate
  <2>2. ASSUME NEW r \in Requests, AcquireInFlight(r)
        PROVE  TurnIsGuarded'
    <3> USE DEF Step, lockVars
    <3>1. CASE Acquire(r)
      BY <3>1 DEF Acquire
    <3>2. CASE AcquireFails(r)
      BY <3>2 DEF AcquireFails
    <3> QED
      BY <2>2, <3>1, <3>2 DEF AcquireInFlight
  <2>3. ASSUME NEW r \in Requests, EndTurn(r)
        PROVE  TurnIsGuarded'
    <3>1. \A q \in Requests : request[q] = "serving" => conv[q] \in Sessions
      BY DEF SessionsUsed
    <3> QED
      BY <2>3, <3>1 DEF EndTurn, Released, Step, lockVars
  <2>4. ASSUME NEW r \in Requests, CheckMode(r) \/ Disconnect(r)
        PROVE  TurnIsGuarded'
    BY <2>4 DEF CheckMode, Disconnect, Step, lockVars
  <2>5. ASSUME NEW c \in Resets, ResetBegins(c) \/ ResetDeletesRow(c) \/ ResetDisconnect(c)
        PROVE  TurnIsGuarded'
    BY <2>5 DEF ResetBegins, ResetDeletesRow, ResetDisconnect, lockVars, callVars
  <2>6. ASSUME \A k \in Keys : map'[k] \in {map[k], None}, UNCHANGED callVars
        PROVE  TurnIsGuarded'
    <3>1. \A q \in Requests : request[q] = "serving" => conv[q] # None
      BY DEF SessionsUsed
    <3> QED
      BY <2>6, <3>1 DEF callVars
  <2>7. ASSUME NEW c \in Resets, ResetRemoves(c)
        PROVE  TurnIsGuarded'
    BY <2>6, <2>7 DEF ResetRemoves
  <2>8. CASE SweepRemoves
    BY <2>6, <2>8 DEF SweepRemoves
  <2>9. CASE \/ SweepCollects \/ SweepEnds
             \/ \E k \in Keys : Ages(k) \/ SweepDeletesRow(k)
    BY <2>9 DEF SweepCollects, SweepEnds, SweepDeletesRow, Ages, lockVars, callVars
  <2>10. ASSUME NEW j \in jobs, RunJob(j) \/ JobFails(j)
        PROVE  TurnIsGuarded'
    BY <2>10 DEF RunJob, JobFails, lockVars, callVars
  <2>11. CASE Crash
    BY <2>11 DEF Crash, Decided
  <2>12. CASE Recover
    <3>1. \A r \in Requests : request'[r] # "serving"
      BY <2>12 DEF Recover, Restart, Listen, Load, LoadRejected, callVars, Quiet, Decided
    <3> QED
      BY <3>1
  <2>13. CASE UNCHANGED vars
    BY <2>13 DEF vars, lockVars, callVars
  <2> QED
    BY <2>1, <2>2, <2>3, <2>4, <2>5, <2>7, <2>8, <2>9, <2>10, <2>11, <2>12, <2>13
       DEF Next, ResetCall, Sweep
<1> QED
  BY <1>1, <1>2, TypeCorrect, SessionsKnown, PTL DEF Spec

\* H1 for a conversation in the map: two turns on it would both hold its guard.
THEOREM OneTurn == Spec => []OneTurnPerKey
<1>1. TurnIsGuarded => OneTurnPerKey
  BY DEF TurnIsGuarded, OneTurnPerKey, Current
<1> QED
  BY <1>1, TurnsGuarded, PTL

-----------------------------------------------------------------------------
\* A request that is to continue a conversation starts one afresh only if the
\* conversation was removed after its mode was checked.
THEOREM ContextKept == Spec => []ContinueKeepsContext
<1>1. Init => Continued
  BY DEF Init, Continued
<1>2. TypeOK /\ Quiet /\ Continued /\ [Next]_vars => Continued'
  <2> SUFFICES ASSUME TypeOK, Quiet, Continued, [Next]_vars
               PROVE  Continued'
    OBVIOUS
  <2> USE ConversationsAssumption DEF TypeOK, Continued
  <2>1. ASSUME NEW r \in Requests, CheckMode(r)
        PROVE  Continued'
    BY <2>1 DEF CheckMode, ModeAllows, Step, lockVars
  <2>2. ASSUME NEW r \in Requests, GetOrCreate(r)
        PROVE  Continued'
    <3> USE DEF Step, lockVars
    <3>1. ASSUME NEW s \in Sessions, Spawned(r, s)
          PROVE  Continued'
      BY <3>1 DEF Spawned
    <3>2. ASSUME NEW from, Hit(r, from)
          PROVE  Continued'
      BY <3>2 DEF Hit
    <3>3. CASE Miss(r)
      BY <3>3 DEF Miss
    <3>4. CASE BeginSpawn(r)
      BY <3>4 DEF BeginSpawn
    <3>5. CASE RefuseLimit(r) \/ SpawnFails(r) \/ RowWritten(r)
      BY <3>5 DEF RefuseLimit, SpawnFails, RowWritten
    <3> QED
      BY <2>2, <3>1, <3>2, <3>3, <3>4, <3>5 DEF GetOrCreate
  <2>3. ASSUME NEW r \in Requests, AcquireInFlight(r) \/ EndTurn(r) \/ Disconnect(r)
        PROVE  Continued'
    BY <2>3 DEF AcquireInFlight, Acquire, AcquireFails, EndTurn, Disconnect, Step, lockVars
  <2>4. ASSUME NEW c \in Resets, ResetBegins(c) \/ ResetCall(c) \/ ResetDisconnect(c)
        PROVE  Continued'
    <3> USE DEF ResetStep, lockVars, callVars
    <3>1. CASE ResetBegins(c) \/ ResetDisconnect(c)
      BY <3>1 DEF ResetBegins, ResetDisconnect
    <3>2. CASE ResetDeletesRow(c)
      BY <3>2 DEF ResetDeletesRow
    <3>3. CASE ResetRemoves(c)
      BY <3>3 DEF ResetRemoves, Continuing
    <3> QED
      BY <2>4, <3>1, <3>2, <3>3 DEF ResetCall
  <2>5. ASSUME NEW k \in Keys, Ages(k)
        PROVE  Continued'
    BY <2>5 DEF Ages, callVars
  <2>6. CASE SweepCollects \/ Sweep
    <3> USE DEF lockVars, callVars
    <3>1. CASE SweepRemoves
      BY <3>1 DEF SweepRemoves, Continuing
    <3>2. CASE SweepCollects \/ SweepEnds
      BY <3>2 DEF SweepCollects, SweepEnds
    <3>3. ASSUME NEW k \in Keys, SweepDeletesRow(k)
          PROVE  Continued'
      BY <3>3 DEF SweepDeletesRow
    <3> QED
      BY <2>6, <3>1, <3>2, <3>3 DEF Sweep
  <2>7. ASSUME NEW j \in jobs, RunJob(j) \/ JobFails(j)
        PROVE  Continued'
    BY <2>7 DEF RunJob, JobFails, lockVars, callVars
  <2>8. CASE Crash
    BY <2>8 DEF Crash, Decided
  <2>9. CASE Recover
    <3>1. \A r \in Requests : request'[r] \in Decided \union {"idle"}
      BY <2>9 DEF Recover, Restart, Listen, Load, LoadRejected, callVars, Quiet
    <3> QED
      BY <3>1 DEF Decided
  <2>10. CASE UNCHANGED vars
    BY <2>10 DEF vars, lockVars, callVars
  <2> QED
    BY <2>1, <2>2, <2>3, <2>4, <2>5, <2>6, <2>7, <2>8, <2>9, <2>10 DEF Next
<1>3. Continued => ContinueKeepsContext
  BY DEF Continued, ContinueKeepsContext
<1> QED
  BY <1>1, <1>2, <1>3, TypeCorrect, PTL DEF Spec

-----------------------------------------------------------------------------
\* The row of a conversation names the session in use once its writes are
\* done, in whatever order they and those of other keys are: no two pending
\* writes disagree, unless the key is one whose row is in doubt.
THEOREM RowsKept == Spec => []RowNamesSession
<1>1. Init => JobsCurrent /\ RowsCurrent
  BY DEF Init, JobsCurrent, RowsCurrent, Active
<1>2. TypeOK /\ Quiet /\ SpawnFree /\ JobsCurrent /\ RowsCurrent /\ [Next]_vars
        => JobsCurrent' /\ RowsCurrent'
  <2> SUFFICES ASSUME TypeOK, Quiet, SpawnFree, JobsCurrent, RowsCurrent, [Next]_vars
               PROVE  JobsCurrent' /\ RowsCurrent'
    OBVIOUS
  <2>a. \A j \in jobs : j.key \in Keys /\ (j.op = "insert" => j.session \in Sessions)
    BY DEF TypeOK, Job
  <2> USE ConversationsAssumption, <2>a DEF TypeOK, JobsCurrent, RowsCurrent, Active, Pending
  <2>1. ASSUME NEW r \in Requests, NEW s \in Sessions, Spawned(r, s)
        PROVE  JobsCurrent' /\ RowsCurrent'
    <3> DEFINE job == [op |-> "insert", key |-> KeyOf[r], session |-> s, by |-> r]
    <3>1. job.key = KeyOf[r] /\ job.session = s
      OBVIOUS
    <3>2. /\ jobs' = jobs \union {job} /\ map' = [map EXCEPT ![KeyOf[r]] = s] /\ rows' = rows
          /\ KeyOf[r] \notin unsure' => \A j \in jobs : j.key # KeyOf[r]
          /\ \A k \in Keys \ {KeyOf[r]} : k \in unsure' <=> k \in unsure
      BY <2>1 DEF Spawned
    <3> HIDE DEF job
    <3>3. JobsCurrent'
      BY <3>1, <3>2
    <3>4. RowsCurrent'
      BY <3>1, <3>2
    <3> QED
      BY <3>3, <3>4
  <2>2. ASSUME NEW r \in Requests, GetOrCreate(r)
        PROVE  JobsCurrent' /\ RowsCurrent'
    <3> USE DEF lockVars, dbVars
    <3>1. ASSUME NEW from, Hit(r, from)
          PROVE  JobsCurrent' /\ RowsCurrent'
      BY <3>1 DEF Hit
    <3>2. CASE Miss(r) \/ BeginSpawn(r) \/ RefuseLimit(r) \/ SpawnFails(r) \/ RowWritten(r)
      BY <3>2 DEF Miss, BeginSpawn, RefuseLimit, SpawnFails, RowWritten
    <3> QED
      BY <2>1, <2>2, <3>1, <3>2 DEF GetOrCreate
  <2>3. ASSUME NEW r \in Requests,
               CheckMode(r) \/ AcquireInFlight(r) \/ EndTurn(r) \/ Disconnect(r)
        PROVE  JobsCurrent' /\ RowsCurrent'
    BY <2>3 DEF CheckMode, AcquireInFlight, Acquire, AcquireFails, EndTurn, Disconnect,
                lockVars, dbVars
  <2>4. ASSUME NEW c \in Resets, ResetBegins(c) \/ ResetCall(c) \/ ResetDisconnect(c)
        PROVE  JobsCurrent' /\ RowsCurrent'
    <3> USE DEF lockVars, dbVars
    <3>1. CASE ResetBegins(c) \/ ResetDisconnect(c)
      BY <3>1 DEF ResetBegins, ResetDisconnect
    <3>2. CASE ResetDeletesRow(c)
      BY <3>2 DEF ResetDeletesRow
    <3>3. CASE ResetRemoves(c)
      BY <3>3 DEF ResetRemoves
    <3> QED
      BY <2>4, <3>1, <3>2, <3>3 DEF ResetCall
  <2>5. ASSUME NEW k \in Keys, Ages(k)
        PROVE  JobsCurrent' /\ RowsCurrent'
    BY <2>5 DEF Ages, dbVars
  <2>6. CASE SweepCollects \/ Sweep
    <3> USE DEF lockVars, dbVars
    <3>1. CASE SweepRemoves
      BY <3>1 DEF SweepRemoves
    <3>2. CASE SweepCollects \/ SweepEnds
      BY <3>2 DEF SweepCollects, SweepEnds
    <3>3. ASSUME NEW k \in Keys, SweepDeletesRow(k)
          PROVE  JobsCurrent' /\ RowsCurrent'
      BY <3>3 DEF SweepDeletesRow
    <3> QED
      BY <2>6, <3>1, <3>2, <3>3 DEF Sweep
  <2>7. ASSUME NEW j \in jobs, RunJob(j)
        PROVE  JobsCurrent' /\ RowsCurrent'
    BY <2>7 DEF RunJob, lockVars
  <2>8. ASSUME NEW j \in jobs, JobFails(j)
        PROVE  JobsCurrent' /\ RowsCurrent'
    BY <2>8 DEF JobFails, lockVars
  <2>9. CASE Crash
    BY <2>9 DEF Crash
  <2>10. CASE Recover
    <3> USE DEF lockVars, dbVars
    <3>1. CASE Restart \/ Listen
      BY <3>1 DEF Restart, Listen
    <3>2. ASSUME NEW k \in Keys, Load(k)
          PROVE  JobsCurrent' /\ RowsCurrent'
      BY <3>2 DEF Load, Quiet
    <3>3. ASSUME NEW k \in Keys, LoadRejected(k)
          PROVE  JobsCurrent' /\ RowsCurrent'
      BY <3>3 DEF LoadRejected, SpawnFree, Quiet
    <3> QED
      BY <2>10, <3>1, <3>2, <3>3 DEF Recover
  <2>11. CASE UNCHANGED vars
    BY <2>11 DEF vars, lockVars, dbVars
  <2> QED
    BY <2>2, <2>3, <2>4, <2>5, <2>6, <2>7, <2>8, <2>9, <2>10, <2>11 DEF Next
<1>3. RowsCurrent => RowNamesSession
  BY DEF RowsCurrent, RowNamesSession
<1> QED
  BY <1>1, <1>2, <1>3, TypeCorrect, SpawnsFree, PTL DEF Spec

-----------------------------------------------------------------------------
\* A set with room for one more element stays within the capacity.
LEMMA OneMore ==
    ASSUME NEW S, IsFiniteSet(S), Cardinality(S) < MaxActive, NEW k,
           NEW T \in SUBSET (S \union {k})
    PROVE  IsFiniteSet(T) /\ Cardinality(T) <= MaxActive
<1>1. /\ IsFiniteSet(S \union {k})
      /\ Cardinality(S \union {k}) \in {Cardinality(S), Cardinality(S) + 1}
  BY FS_AddElement
<1>2. IsFiniteSet(T) /\ Cardinality(T) <= Cardinality(S \union {k})
  BY <1>1, FS_Subset
<1>3. Cardinality(S) \in Nat /\ Cardinality(T) \in Nat
  BY <1>2, FS_CardinalityType
<1> QED
  BY <1>1, <1>2, <1>3, ConversationsAssumption

\* Nor does a set that loses elements exceed it.
LEMMA NoMore ==
    ASSUME NEW S, IsFiniteSet(S), Cardinality(S) <= MaxActive, NEW T \in SUBSET S
    PROVE  IsFiniteSet(T) /\ Cardinality(T) <= MaxActive
<1>1. IsFiniteSet(T) /\ Cardinality(T) <= Cardinality(S)
  BY FS_Subset
<1>2. Cardinality(S) \in Nat /\ Cardinality(T) \in Nat
  BY <1>1, FS_CardinalityType
<1> QED
  BY <1>1, <1>2, ConversationsAssumption

\* The capacity holds at every moment: it is checked under the lock that is
\* held until the session is there, and a restart checks it for every row.
THEOREM CapacityHolds == Spec => []CapacityKept
<1>1. Init => RoomKept
  <2> SUFFICES ASSUME Init PROVE RoomKept
    OBVIOUS
  <2>1. Occupied = {}
    BY DEF Init, Occupied, Spawning
  <2> QED
    BY <2>1, FS_EmptySet, ConversationsAssumption DEF RoomKept
<1>2. TypeOK /\ Quiet /\ LockNotLeaked /\ RoomKept /\ [Next]_vars => RoomKept'
  <2> SUFFICES ASSUME TypeOK, Quiet, LockNotLeaked, RoomKept, [Next]_vars
               PROVE  RoomKept'
    OBVIOUS
  <2> USE ConversationsAssumption DEF TypeOK, Occupied, Spawning
  <2>a. ASSUME Occupied' \subseteq Occupied
        PROVE  RoomKept'
    BY <2>a, NoMore DEF RoomKept
  <2>b. ASSUME NEW k \in Keys, Cardinality(Active) < MaxActive,
               Occupied' \subseteq Active \union {k}
        PROVE  RoomKept'
    <3>1. Active \subseteq Occupied
      BY DEF Active
    <3>2. IsFiniteSet(Active)
      BY <3>1, NoMore DEF RoomKept
    <3> QED
      BY <2>b, <3>2, OneMore DEF RoomKept
  <2>1. ASSUME NEW r \in Requests, BeginSpawn(r)
        PROVE  RoomKept'
    <3>1. \A q \in Requests : request[q] # "spawning"
      BY <2>1 DEF BeginSpawn, Unlocked, LockNotLeaked
    <3>2. Occupied' \subseteq Active \union {KeyOf[r]}
      BY <2>1, <3>1 DEF BeginSpawn, Step, Active
    <3> QED
      BY <2>1, <2>b, <3>2 DEF BeginSpawn
  <2>2. ASSUME NEW k \in Keys, Load(k)
        PROVE  RoomKept'
    <3>1. \A q \in Requests : request[q] # "spawning"
      BY <2>2 DEF Load, Quiet, Decided
    <3>2. CASE Cardinality(Active) < MaxActive
      <4>1. Occupied' \subseteq Active \union {k}
        BY <2>2, <3>1, <3>2 DEF Load, callVars, Active
      <4> QED
        BY <2>b, <3>2, <4>1
    <3>3. CASE ~(Cardinality(Active) < MaxActive)
      <4>1. Occupied' \subseteq Occupied
        BY <2>2, <3>3 DEF Load, callVars
      <4> QED
        BY <2>a, <4>1
    <3> QED
      BY <3>2, <3>3
  <2>3. ASSUME NEW r \in Requests, NEW s \in Sessions, Spawned(r, s)
        PROVE  Occupied' \subseteq Occupied
    BY <2>3 DEF Spawned, Step
  <2>4. ASSUME NEW r \in Requests, GetOrCreate(r)
        PROVE  RoomKept'
    <3> USE DEF Step, lockVars
    <3>1. ASSUME NEW from, Hit(r, from)
          PROVE  Occupied' \subseteq Occupied
      BY <3>1 DEF Hit
    <3>2. CASE Miss(r) \/ RefuseLimit(r) \/ SpawnFails(r) \/ RowWritten(r)
      <4>1. Occupied' \subseteq Occupied
        BY <3>2 DEF Miss, RefuseLimit, SpawnFails, RowWritten
      <4> QED
        BY <2>a, <4>1
    <3> QED
      BY <2>a, <2>1, <2>3, <2>4, <3>1, <3>2 DEF GetOrCreate
  <2>5. ASSUME NEW r \in Requests,
               CheckMode(r) \/ AcquireInFlight(r) \/ EndTurn(r) \/ Disconnect(r)
        PROVE  Occupied' \subseteq Occupied
    BY <2>5 DEF CheckMode, AcquireInFlight, Acquire, AcquireFails, EndTurn, Disconnect,
                Step, lockVars
  <2>6. ASSUME NEW c \in Resets, ResetBegins(c) \/ ResetCall(c) \/ ResetDisconnect(c)
        PROVE  Occupied' \subseteq Occupied
    BY <2>6 DEF ResetBegins, ResetCall, ResetDeletesRow, ResetRemoves, ResetDisconnect,
                lockVars, callVars
  <2>7. ASSUME NEW k \in Keys, Ages(k) \/ SweepDeletesRow(k) \/ LoadRejected(k)
        PROVE  Occupied' \subseteq Occupied
    BY <2>7 DEF Ages, SweepDeletesRow, LoadRejected, lockVars, callVars
  <2>8. CASE SweepCollects \/ SweepRemoves \/ SweepEnds \/ Restart \/ Listen
    <3>1. Occupied' \subseteq Occupied
      BY <2>8 DEF SweepCollects, SweepRemoves, SweepEnds, Restart, Listen, lockVars, callVars
    <3> QED
      BY <2>a, <3>1
  <2>9. ASSUME NEW j \in jobs, RunJob(j) \/ JobFails(j)
        PROVE  Occupied' \subseteq Occupied
    BY <2>9 DEF RunJob, JobFails, lockVars, callVars
  <2>10. CASE Crash
    <3>1. Occupied' \subseteq Occupied
      BY <2>10 DEF Crash, Decided
    <3> QED
      BY <2>a, <3>1
  <2>11. CASE UNCHANGED vars
    <3>1. Occupied' \subseteq Occupied
      BY <2>11 DEF vars, lockVars, callVars
    <3> QED
      BY <2>a, <3>1
  <2> QED
    BY <2>a, <2>2, <2>4, <2>5, <2>6, <2>7, <2>8, <2>9, <2>10, <2>11 DEF Next, Sweep, Recover
<1>3. RoomKept => CapacityKept
  BY DEF RoomKept, Occupied, CapacityKept
<1> QED
  BY <1>1, <1>2, <1>3, TypeCorrect, LockKept, PTL DEF Spec
=============================================================================
