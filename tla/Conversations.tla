---------------------------- MODULE Conversations ----------------------------
(***************************************************************************)
(* The conversations of the Serve Shim: the ConversationMap under its      *)
(* RwLock, the conversation mode a request asks for, the in-flight guard,  *)
(* the idle reaper, _shim/conversation/reset, the rows written through to  *)
(* the database, and what a restart makes of them.                         *)
(*                                                                         *)
(* A Conversation object is named by its ACP session: session/new returns  *)
(* a session no other conversation has.  A database write is a job on the  *)
(* blocking thread pool: it runs some time after it was asked for, in any  *)
(* order with other jobs, and even if whoever waits for it is dropped.     *)
(***************************************************************************)
EXTENDS Naturals, FiniteSets

CONSTANTS
    Requests,       \* SendMessage and SendStreamingMessage calls
    Resets,         \* _shim/conversation/reset calls
    Keys,           \* conversation keys: a conversation id, per caller
    Sessions,       \* bound: the ACP sessions the agent can hand out
    KeyOf,          \* the key a request or reset names
    ModeOf,         \* the conversation mode of a request
    MaxActive,      \* ConversationMap::max_active
    MaxCrashes,     \* bound: how often the shim is restarted
    Reaper,         \* the idle reaper
    None            \* "no session", "nobody"

ConversationMode == {"auto", "new", "continue"}

ASSUME ConversationsAssumption ==
    /\ KeyOf \in [Requests \union Resets -> Keys]
    /\ ModeOf \in [Requests -> ConversationMode]
    /\ MaxActive \in Nat
    /\ MaxCrashes \in Nat
    /\ None \notin Sessions \union Requests \union Resets \union {Reaper}
    /\ Requests \intersect Resets = {}
    /\ Reaper \notin Requests \union Resets

VARIABLES
    phase,      \* the shim: "up", "down", or "recovering" after a restart
    map,        \* ConversationMap: the session of each key, or None
    stale,      \* the keys whose last_used_at is past the idle window
    writer,     \* the request that holds the map's write lock across an await
    guard,      \* Conversation::in_flight: the request that holds it
    request,    \* where each request stands
    conv,       \* the Conversation get_or_create returned to a request
    reset,      \* where each reset call stands
    reaper,     \* where sweep_idle stands
    dropping,   \* sweep_idle's to_drop
    rows,       \* the conversations table: the session of each key, or None
    jobs,       \* database writes asked for and not yet carried out
    loading,    \* bootstrap: the keys whose session/load is not decided
    used,       \* the sessions the agent has handed out
    lapsed,     \* history: mode=continue requests whose conversation was
                \* removed after the check of their mode
    unsure,     \* history: the keys whose row may lag behind their entry
    crashes     \* how often the shim has crashed

lockVars == <<map, stale, writer, lapsed>>
callVars == <<request, conv, guard>>
dropVars == <<reset, reaper, dropping>>
dbVars == <<rows, jobs, unsure>>
lifeVars == <<phase, loading, crashes>>
vars == <<lockVars, callVars, dropVars, dbVars, lifeVars, used>>

-----------------------------------------------------------------------------
RequestState == {"idle", "checked", "missed", "spawning", "inserting", "found",
                 "serving", "done", "busy", "refused", "failed", "gone"}
Decided      == {"done", "busy", "refused", "failed", "gone"}
ResetState   == {"idle", "canceling", "deleting", "replied", "gone"}
ReaperState  == {"idle", "collected", "deleting", "waiting"}

Job == [op : {"insert"}, key : Keys, session : Sessions, by : Requests]
         \union [op : {"delete"}, key : Keys, session : {None},
                 by : Resets \union {Reaper}]

Active == {k \in Keys : map[k] # None}

\* Neither the read nor the write lock is granted while a request spawns a
\* session under the write lock; every other holder lets go without an await.
Unlocked == writer = None

Waits(who) == \E j \in jobs : j.by = who

Pending(k) == \E j \in jobs : j.key = k

\* The requests that have yet to find the conversation, with one of these keys,
\* that they want to continue.
Continuing(keys) ==
    {r \in Requests : /\ ModeOf[r] = "continue" /\ KeyOf[r] \in keys
                      /\ request[r] \in {"checked", "missed"}}

\* The process starts with the rows that earlier ones left in the database.
Init ==
    /\ phase    = "down"
    /\ map      = [k \in Keys |-> None]
    /\ stale    = {}
    /\ writer   = None
    /\ guard    = [s \in Sessions |-> None]
    /\ request  = [r \in Requests |-> "idle"]
    /\ conv     = [r \in Requests |-> None]
    /\ reset    = [c \in Resets |-> "idle"]
    /\ reaper   = "idle"
    /\ dropping = {}
    /\ rows    \in [Keys -> Sessions \union {None}]
    /\ \A k, l \in Keys : rows[k] = rows[l] /\ rows[k] # None => k = l
    /\ jobs     = {}
    /\ loading  = {}
    /\ used     = {rows[k] : k \in Keys} \ {None}
    /\ lapsed   = {}
    /\ unsure   = {}
    /\ crashes  = 0

-----------------------------------------------------------------------------
(* A request, up to the end of its turn.                                   *)

Step(r, from, to) ==
    /\ phase = "up"
    /\ request[r] = from
    /\ request' = [request EXCEPT ![r] = to]

\* check_conversation_mode: what the map may hold for the request to go on.
ModeAllows(r) ==
    \/ ModeOf[r] = "auto"
    \/ ModeOf[r] = "new" /\ map[KeyOf[r]] = None
    \/ ModeOf[r] = "continue" /\ map[KeyOf[r]] # None

\* Variant: a missing conversation is created in every mode.
CheckModeLoosely(r) ==
    /\ Step(r, "idle", IF ModeOf[r] = "new" /\ map[KeyOf[r]] # None
                       THEN "refused" ELSE "checked")
    /\ ModeOf[r] = "auto" \/ Unlocked
    /\ UNCHANGED <<lockVars, conv, guard, dropVars, dbVars, lifeVars, used>>

CheckMode(r) ==
    /\ Step(r, "idle", IF ModeAllows(r) THEN "checked" ELSE "refused")
    /\ ModeOf[r] = "auto" \/ Unlocked
    /\ UNCHANGED <<lockVars, conv, guard, dropVars, dbVars, lifeVars, used>>

\* get_or_create finds an entry, under either lock.
Hit(r, from) ==
    /\ Step(r, from, "found")
    /\ Unlocked
    /\ map[KeyOf[r]] # None
    /\ conv' = [conv EXCEPT ![r] = map[KeyOf[r]]]
    /\ stale' = stale \ {KeyOf[r]}
    /\ UNCHANGED <<map, writer, lapsed, guard, dropVars, dbVars, lifeVars, used>>

\* The read lock shows no entry.
Miss(r) ==
    /\ Step(r, "checked", "missed")
    /\ Unlocked
    /\ map[KeyOf[r]] = None
    /\ UNCHANGED <<lockVars, conv, guard, dropVars, dbVars, lifeVars, used>>

\* Variant: under the write lock only the room beside the other conversations
\* is looked at, not whether there is an entry by now.
BeginSpawnUnchecked(r) ==
    /\ Step(r, "missed", "spawning")
    /\ Unlocked
    /\ Cardinality(Active \ {KeyOf[r]}) < MaxActive
    /\ writer' = r
    /\ UNCHANGED <<map, stale, lapsed, conv, guard, dropVars, dbVars, lifeVars, used>>

\* The write lock shows no entry either, and there is room: session/new is
\* awaited with the lock held.
BeginSpawn(r) ==
    /\ Step(r, "missed", "spawning")
    /\ Unlocked
    /\ map[KeyOf[r]] = None
    /\ Cardinality(Active) < MaxActive
    /\ writer' = r
    /\ UNCHANGED <<map, stale, lapsed, conv, guard, dropVars, dbVars, lifeVars, used>>

\* NewError::LimitReached.
RefuseLimit(r) ==
    /\ Step(r, "missed", "refused")
    /\ Unlocked
    /\ map[KeyOf[r]] = None
    /\ Cardinality(Active) >= MaxActive
    /\ UNCHANGED <<lockVars, conv, guard, dropVars, dbVars, lifeVars, used>>

\* session/new returns: the entry is inserted, the lock released, and the row
\* asked for.
Spawned(r, s) ==
    /\ Step(r, "spawning", "inserting")
    /\ s \notin used
    /\ used' = used \union {s}
    /\ map' = [map EXCEPT ![KeyOf[r]] = s]
    /\ stale' = stale \ {KeyOf[r]}
    /\ writer' = None
    /\ conv' = [conv EXCEPT ![r] = s]
    /\ jobs' = jobs \union
                 {[op |-> "insert", key |-> KeyOf[r], session |-> s, by |-> r]}
    /\ unsure' = IF Pending(KeyOf[r]) THEN unsure \union {KeyOf[r]}
                 ELSE unsure \ {KeyOf[r]}
    /\ UNCHANGED <<lapsed, guard, dropVars, rows, lifeVars>>

\* NewError::Spawn.
SpawnFails(r) ==
    /\ Step(r, "spawning", "refused")
    /\ writer' = None
    /\ UNCHANGED <<map, stale, lapsed, conv, guard, dropVars, dbVars, lifeVars, used>>

RowWritten(r) ==
    /\ Step(r, "inserting", "found")
    /\ ~Waits(r)
    /\ UNCHANGED <<lockVars, conv, guard, dropVars, dbVars, lifeVars, used>>

\* Variant: the guard is not looked at.
AcquireRegardless(r) ==
    LET k == KeyOf[r]
    IN  /\ Step(r, "found", "serving")
        /\ Unlocked
        /\ map[k] # None
        /\ guard' = [guard EXCEPT ![map[k]] = r]
        /\ UNCHANGED <<lockVars, conv, dropVars, dbVars, lifeVars, used>>

\* acquire_in_flight looks the key up again, and takes the guard of whatever
\* conversation it finds; the turn then runs on the session in conv.
Acquire(r) ==
    LET k == KeyOf[r]
    IN  /\ Step(r, "found", "serving")
        /\ Unlocked
        /\ map[k] # None
        /\ guard[map[k]] = None
        /\ guard' = [guard EXCEPT ![map[k]] = r]
        /\ UNCHANGED <<lockVars, conv, dropVars, dbVars, lifeVars, used>>

\* AcquireError::Busy and AcquireError::NotFound.
AcquireFails(r) ==
    LET k == KeyOf[r]
    IN  /\ Step(r, "found", IF map[k] = None THEN "failed" ELSE "busy")
        /\ Unlocked
        /\ map[k] # None => guard[map[k]] # None
        /\ UNCHANGED <<lockVars, conv, guard, dropVars, dbVars, lifeVars, used>>

\* Dropping the guards r holds.
Released(r) == [s \in Sessions |-> IF guard[s] = r THEN None ELSE guard[s]]

\* Variant: the guard to be dropped is looked up by key.
EndTurnByKey(r) ==
    /\ Step(r, "serving", "done")
    /\ guard' = [s \in Sessions |-> IF s = map[KeyOf[r]] THEN None ELSE guard[s]]
    /\ UNCHANGED <<lockVars, conv, dropVars, dbVars, lifeVars, used>>

\* The turn ends, one way or another, and the guard is dropped.
EndTurn(r) ==
    /\ Step(r, "serving", "done")
    /\ guard' = Released(r)
    /\ UNCHANGED <<lockVars, conv, dropVars, dbVars, lifeVars, used>>

\* Variant: the lock is not released with the handler.
DisconnectKeepsLock(r) ==
    /\ \E from \in {"checked", "missed", "spawning", "inserting", "found"} :
            Step(r, from, "gone")
    /\ UNCHANGED <<lockVars, conv, guard, dropVars, dbVars, lifeVars, used>>

\* The client leaves: the handler is dropped where it waits, with the write
\* lock if it holds it.  A row it waits for is written all the same.
Disconnect(r) ==
    /\ \E from \in {"checked", "missed", "spawning", "inserting", "found"} :
            Step(r, from, "gone")
    /\ writer' = IF writer = r THEN None ELSE writer
    /\ UNCHANGED <<map, stale, lapsed, conv, guard, dropVars, dbVars, lifeVars, used>>

-----------------------------------------------------------------------------
(* _shim/conversation/reset: handle_conversation_reset.                    *)

ResetStep(c, from, to) ==
    /\ phase = "up"
    /\ reset[c] = from
    /\ reset' = [reset EXCEPT ![c] = to]

\* The conversation is looked up; without one there is nothing to clear.  The
\* Tasks of the conversation are canceled, and session/cancel is awaited.
ResetBegins(c) ==
    /\ ResetStep(c, "idle", IF map[KeyOf[c]] = None THEN "replied" ELSE "canceling")
    /\ Unlocked
    /\ UNCHANGED <<lockVars, callVars, reaper, dropping, dbVars, lifeVars, used>>

ResetDeletesRow(c) ==
    /\ ResetStep(c, "canceling", "deleting")
    /\ jobs' = jobs \union
                 {[op |-> "delete", key |-> KeyOf[c], session |-> None, by |-> c]}
    /\ unsure' = unsure \union ({KeyOf[c]} \intersect Active)
    /\ UNCHANGED <<lockVars, callVars, reaper, dropping, rows, lifeVars, used>>

\* Variant: the time of last use outlives the entry.
ResetRemovesEntryOnly(c) ==
    /\ ResetStep(c, "deleting", "replied")
    /\ ~Waits(c)
    /\ Unlocked
    /\ map' = [map EXCEPT ![KeyOf[c]] = None]
    /\ lapsed' = lapsed \union Continuing({KeyOf[c]})
    /\ UNCHANGED <<stale, writer, callVars, reaper, dropping, dbVars, lifeVars, used>>

\* ConversationMap::remove, of whatever entry the key has by now.
ResetRemoves(c) ==
    /\ ResetStep(c, "deleting", "replied")
    /\ ~Waits(c)
    /\ Unlocked
    /\ map' = [map EXCEPT ![KeyOf[c]] = None]
    /\ stale' = stale \ {KeyOf[c]}
    /\ lapsed' = lapsed \union Continuing({KeyOf[c]})
    /\ UNCHANGED <<writer, callVars, reaper, dropping, dbVars, lifeVars, used>>

ResetDisconnect(c) ==
    /\ \E from \in {"canceling", "deleting"} : ResetStep(c, from, "gone")
    /\ UNCHANGED <<lockVars, callVars, reaper, dropping, dbVars, lifeVars, used>>

-----------------------------------------------------------------------------
(* The idle reaper: ConversationMap::sweep_idle.                           *)

\* Time passes without a hit on the entry of k.
Ages(k) ==
    /\ phase = "up"
    /\ map[k] # None
    /\ stale' = stale \union {k}
    /\ UNCHANGED <<map, writer, lapsed, callVars, dropVars, dbVars, lifeVars, used>>

SweepCollects ==
    /\ phase = "up"
    /\ reaper = "idle"
    /\ Unlocked
    /\ stale # {}
    /\ reaper' = "collected"
    /\ dropping' = stale
    /\ UNCHANGED <<lockVars, callVars, reset, dbVars, lifeVars, used>>

\* The keys collected are removed, whatever has become of their entries.
SweepRemoves ==
    /\ phase = "up"
    /\ reaper = "collected"
    /\ Unlocked
    /\ reaper' = "deleting"
    /\ map' = [k \in Keys |-> IF k \in dropping THEN None ELSE map[k]]
    /\ stale' = stale \ dropping
    /\ lapsed' = lapsed \union Continuing(dropping)
    /\ UNCHANGED <<writer, callVars, reset, dropping, dbVars, lifeVars, used>>

\* One row after the other is deleted, and each deletion awaited.
SweepDeletesRow(k) ==
    /\ phase = "up"
    /\ reaper = "deleting"
    /\ ~Waits(Reaper)
    /\ k \in dropping
    /\ dropping' = dropping \ {k}
    /\ jobs' = jobs \union
                 {[op |-> "delete", key |-> k, session |-> None, by |-> Reaper]}
    /\ unsure' = unsure \union ({k} \intersect Active)
    /\ UNCHANGED <<lockVars, callVars, reset, reaper, rows, lifeVars, used>>

SweepEnds ==
    /\ phase = "up"
    /\ reaper = "deleting"
    /\ dropping = {}
    /\ ~Waits(Reaper)
    /\ reaper' = "idle"
    /\ UNCHANGED <<lockVars, callVars, reset, dropping, dbVars, lifeVars, used>>

-----------------------------------------------------------------------------
(* The database, and the life of the process.                              *)

\* Variant: a row that exists is not replaced.
RunJobKeepsRow(j) ==
    /\ j \in jobs
    /\ jobs' = jobs \ {j}
    /\ rows' = [rows EXCEPT ![j.key] =
                    IF j.op = "insert" /\ @ # None THEN @ ELSE j.session]
    /\ UNCHANGED <<unsure, lockVars, callVars, dropVars, lifeVars, used>>

\* INSERT OR REPLACE, or DELETE, of the row of a key.
RunJob(j) ==
    /\ j \in jobs
    /\ jobs' = jobs \ {j}
    /\ rows' = [rows EXCEPT ![j.key] = j.session]
    /\ UNCHANGED <<unsure, lockVars, callVars, dropVars, lifeVars, used>>

\* A write that fails is logged, and its caller goes on as if it had not.
JobFails(j) ==
    /\ j \in jobs
    /\ jobs' = jobs \ {j}
    /\ unsure' = unsure \union {j.key}
    /\ UNCHANGED <<rows, lockVars, callVars, dropVars, lifeVars, used>>

\* The process ends, and with it everything but the database.
Crash ==
    /\ phase # "down"
    /\ crashes < MaxCrashes
    /\ crashes' = crashes + 1
    /\ phase' = "down"
    /\ map' = [k \in Keys |-> None]
    /\ stale' = {}
    /\ writer' = None
    /\ lapsed' = {}
    /\ unsure' = {}
    /\ guard' = [s \in Sessions |-> None]
    /\ request' = [r \in Requests |->
                      IF request[r] \in Decided \union {"idle"} THEN request[r] ELSE "gone"]
    /\ reset' = [c \in Resets |->
                      IF reset[c] \in {"idle", "replied"} THEN reset[c] ELSE "gone"]
    /\ reaper' = "idle"
    /\ dropping' = {}
    /\ jobs' = {}
    /\ loading' = {}
    /\ UNCHANGED <<conv, rows, used>>

\* recovery::bootstrap, before the shim listens: every row is listed, or
\* listing them fails and none is recovered ...
Restart ==
    /\ phase = "down"
    /\ phase' = "recovering"
    /\ loading' \in {{}, {k \in Keys : rows[k] # None}}
    /\ UNCHANGED <<lockVars, callVars, dropVars, dbVars, crashes, used>>

\* Variant: a loaded conversation is inserted whatever the capacity.
LoadUnbounded(k) ==
    /\ phase = "recovering"
    /\ k \in loading
    /\ loading' = loading \ {k}
    /\ map' = [map EXCEPT ![k] = rows[k]]
    /\ UNCHANGED <<stale, writer, lapsed, callVars, dropVars, dbVars, phase, crashes, used>>

\* ... session/load is accepted, and insert_loaded has room or has not ...
Load(k) ==
    /\ phase = "recovering"
    /\ k \in loading
    /\ loading' = loading \ {k}
    /\ map' = IF Cardinality(Active) < MaxActive
              THEN [map EXCEPT ![k] = rows[k]] ELSE map
    /\ UNCHANGED <<stale, writer, lapsed, callVars, dropVars, dbVars, phase, crashes, used>>

\* ... or session/load is rejected, and the row deleted if that succeeds.
LoadRejected(k) ==
    /\ phase = "recovering"
    /\ k \in loading
    /\ loading' = loading \ {k}
    /\ rows' \in {rows, [rows EXCEPT ![k] = None]}
    /\ UNCHANGED <<lockVars, callVars, dropVars, jobs, unsure, phase, crashes, used>>

Listen ==
    /\ phase = "recovering"
    /\ loading = {}
    /\ phase' = "up"
    /\ UNCHANGED <<lockVars, callVars, dropVars, dbVars, loading, crashes, used>>

-----------------------------------------------------------------------------
GetOrCreate(r) ==
    \/ Hit(r, "checked")
    \/ Hit(r, "missed")
    \/ Miss(r)
    \/ BeginSpawn(r)
    \/ RefuseLimit(r)
    \/ SpawnFails(r)
    \/ \E s \in Sessions : Spawned(r, s)
    \/ RowWritten(r)

AcquireInFlight(r) == Acquire(r) \/ AcquireFails(r)

ResetCall(c) == ResetDeletesRow(c) \/ ResetRemoves(c)

Sweep == SweepRemoves \/ SweepEnds \/ \E k \in Keys : SweepDeletesRow(k)

Recover == Restart \/ Listen \/ \E k \in Keys : Load(k) \/ LoadRejected(k)

Next ==
    \/ \E r \in Requests :
           CheckMode(r) \/ GetOrCreate(r) \/ AcquireInFlight(r) \/ EndTurn(r) \/ Disconnect(r)
    \/ \E c \in Resets : ResetBegins(c) \/ ResetCall(c) \/ ResetDisconnect(c)
    \/ \E k \in Keys : Ages(k)
    \/ SweepCollects
    \/ Sweep
    \/ \E j \in jobs : RunJob(j) \/ JobFails(j)
    \/ Crash
    \/ Recover

Spec == Init /\ [][Next]_vars

-----------------------------------------------------------------------------
(* Properties.                                                              *)

\* Type invariant: the values the code gives each variable.
TypeOK ==
    /\ phase \in {"up", "down", "recovering"}
    /\ map \in [Keys -> Sessions \union {None}]
    /\ stale \subseteq Active
    /\ writer \in Requests \union {None}
    /\ guard \in [Sessions -> Requests \union {None}]
    /\ request \in [Requests -> RequestState]
    /\ conv \in [Requests -> Sessions \union {None}]
    /\ reset \in [Resets -> ResetState]
    /\ reaper \in ReaperState
    /\ dropping \subseteq Keys
    /\ rows \in [Keys -> Sessions \union {None}]
    /\ jobs \subseteq Job
    /\ loading \subseteq Keys
    /\ used \subseteq Sessions
    /\ lapsed \subseteq Requests
    /\ unsure \subseteq Keys
    /\ crashes \in 0 .. MaxCrashes

Spawning(k) == \E r \in Requests : request[r] = "spawning" /\ KeyOf[r] = k

\* The capacity holds at every moment, for entries and for the one a session
\* is being spawned for, however requests interleave and whatever a restart
\* finds in the database.
CapacityKept == Cardinality({k \in Keys : map[k] # None \/ Spawning(k)}) <= MaxActive

\* The spawn closure of get_or_create runs once per conversation: no entry is
\* ever replaced by another, only removed.
EntryNeverReplaced ==
    [][\A k \in Keys : map[k] # None => map'[k] \in {map[k], None}]_vars

\* A restart finds every conversation as it is: once its writes are done, the
\* row of a conversation names the session in use, unless a write failed since
\* it was created, writes of the key's last conversation were still pending
\* then, or its row was deleted under it.
RowNamesSession ==
    \A k \in Active \ unsure : phase = "up" /\ ~Pending(k) => rows[k] = map[k]

\* The turn runs on the conversation the map has for its key: no reset or
\* sweep has removed it meanwhile.
Current(r) == request[r] = "serving" /\ map[KeyOf[r]] = conv[r]

\* H1 for a conversation as long as it is in the map: one turn at a time.
OneTurnPerKey ==
    \A r, q \in Requests : Current(r) /\ Current(q) /\ KeyOf[r] = KeyOf[q] => r = q

\* A turn that runs on a conversation in the map holds the guard of that very
\* conversation, although it looked the conversation up twice, and whatever
\* was removed and created anew in between.
TurnIsGuarded == \A r \in Requests : Current(r) => guard[conv[r]] = r

\* mode = "continue" never starts a conversation afresh, unless a reset or a
\* sweep removed the conversation after the mode was checked.
ContinueKeepsContext ==
    \A r \in Requests :
        ModeOf[r] = "continue" /\ request[r] \in {"spawning", "inserting"}
            => r \in lapsed

\* The write lock is held across an await by one request only, and never
\* outlives it: neither an answered nor a dropped handler leaves it locked.
LockNotLeaked == \A r \in Requests : writer = r <=> request[r] = "spawning"

\* H1 as documented: at most one prompt in flight per conversation, sweeps or
\* no sweeps.
OneTurnPerConversation ==
    \A r, q \in Requests :
        request[r] = "serving" /\ request[q] = "serving" /\ KeyOf[r] = KeyOf[q] => r = q
=============================================================================
