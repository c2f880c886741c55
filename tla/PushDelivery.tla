---------------------------- MODULE PushDelivery ----------------------------
(***************************************************************************)
(* Push notifications of the Serve Shim: the calls that create and delete  *)
(* push configs, the registry's lists in memory and the rows they are      *)
(* written through to, the jobs enqueued when a SendMessage call answers   *)
(* with a Task in a terminal state, and the workers that deliver them,     *)
(* retry them, and delete a config that is rejected too often.             *)
(*                                                                         *)
(* A config carries the name of the call that creates it, which fixes its  *)
(* id and its Task; ids may be used again, for the same Task or another.   *)
(* A database write is a job on the blocking pool, which runs although its *)
(* caller is gone.  A row goes with the conversation of its Task.  Jobs    *)
(* are queued as a set: which of them are taken when, by a pool of         *)
(* workers, matters to no property, so any order is allowed.               *)
(***************************************************************************)
EXTENDS Naturals, FiniteSets

CONSTANTS
    Creates,        \* CreateTaskPushNotificationConfig calls
    Deletes,        \* DeleteTaskPushNotificationConfig calls
    Workers,        \* the worker pool
    Tasks,          \* Tasks served by SendMessage
    Ids,            \* config ids
    IdOf,           \* the config id a call names, or is given
    TaskOf,         \* the Task a config is for
    MaxAttempts,    \* RetryPolicy::max_attempts
    Threshold,      \* permanent_failure_threshold
    MaxCrashes,     \* bound: how often the shim is restarted
    None            \* "no config"

ASSUME PushAssumption ==
    /\ Creates \intersect Deletes = {} /\ Workers \intersect (Creates \union Deletes) = {}
    /\ IdOf \in [Creates \union Deletes -> Ids]
    /\ TaskOf \in [Creates -> Tasks]
    /\ MaxAttempts \in Nat \ {0}
    /\ Threshold \in Nat \ {0}
    /\ MaxCrashes \in Nat
    /\ None \notin Creates

VARIABLES
    call,       \* where each create and delete call stands
    lists,      \* PushConfigRegistry::inner: the configs of each Task
    rows,       \* push_notification_configs: the config of each id, or None
    writes,     \* callers, workers included, whose write has not run yet
    forgotten,  \* history: Tasks whose row went with that of their conversation
    over,       \* Tasks that have ended, or that a restart has forgotten
    queue,      \* delivery jobs no worker has taken
    worker,     \* what each worker does
    job,        \* the config each worker delivers to, or None
    attempt,    \* the attempt a worker is at
    failures,   \* PushConfigRegistry::failure_counts
    deleting,   \* history: ids a deletion has been started for
    clean,      \* history: deletions no creation of that id overlapped or followed
    crashes     \* how often the shim has crashed

callVars == <<call, deleting, clean>>
storeVars == <<lists, rows, writes, forgotten>>
poolVars == <<queue, worker, job, attempt>>
vars == <<callVars, storeVars, over, poolVars, failures, crashes>>

-----------------------------------------------------------------------------
Calls == Creates \union Deletes

CallState   == {"idle", "writing", "done", "failed", "gone"}
WorkerState == {"idle", "posting", "deleting"}

\* The id a caller's write is about.
IdFor(x) == IF x \in Workers THEN IdOf[job[x]] ELSE IdOf[x]

\* PushConfigRegistry::delete, of every config of an id.
Without(id) == [t \in Tasks |-> {c \in lists[t] : IdOf[c] # id}]

Init ==
    /\ call = [x \in Calls |-> "idle"]
    /\ lists = [t \in Tasks |-> {}]
    /\ rows = [i \in Ids |-> None]
    /\ writes = {}
    /\ forgotten = {}
    /\ over = {}
    /\ queue = {}
    /\ worker = [w \in Workers |-> "idle"]
    /\ job = [w \in Workers |-> None]
    /\ attempt = [w \in Workers |-> 0]
    /\ failures = [i \in Ids |-> 0]
    /\ deleting = {}
    /\ clean = {}
    /\ crashes = 0

-----------------------------------------------------------------------------
(* The calls: the row first, the list in memory once it is written.        *)

Underway(c) == call[c] = "writing" \/ c \in writes

CreateStarts(c) ==
    /\ call[c] = "idle"
    /\ call' = [call EXCEPT ![c] = "writing"]
    /\ writes' = writes \union {c}
    /\ clean' = {d \in clean : IdOf[d] # IdOf[c]}
    /\ UNCHANGED <<deleting, lists, rows, forgotten, over, poolVars, failures, crashes>>

DeleteStarts(d) ==
    /\ call[d] = "idle"
    /\ call' = [call EXCEPT ![d] = "writing"]
    /\ writes' = writes \union {d}
    /\ deleting' = deleting \union {IdOf[d]}
    /\ clean' = clean \union
                  {x \in {d} : \A c \in Creates : IdOf[c] = IdOf[d] => ~Underway(c)}
    /\ UNCHANGED <<lists, rows, forgotten, over, poolVars, failures, crashes>>

\* INSERT OR REPLACE, or DELETE, of the row of an id.  A config's row refers
\* to the row of its Task; a Task that lost its row may have it written again.
RunWrite(x) ==
    /\ x \in writes
    /\ writes' = writes \ {x}
    /\ rows' = [rows EXCEPT ![IdFor(x)] = IF x \in Creates THEN x ELSE None]
    /\ UNCHANGED <<callVars, lists, forgotten, over, poolVars, failures, crashes>>

\* The row of a Task's conversation is deleted or replaced: the rows of
\* its configs go with it, their entries in the lists do not.
ForgetTask(t) ==
    /\ forgotten' = forgotten \union {t}
    /\ rows' = [i \in Ids |-> IF rows[i] \in {c \in Creates : TaskOf[c] = t}
                              THEN None ELSE rows[i]]
    /\ UNCHANGED <<callVars, lists, writes, over, poolVars, failures, crashes>>

\* A write that fails, for want of the Task's row or for any other reason,
\* fails its call, and a worker gives up its deletion.
WriteFails(x) ==
    /\ x \in writes
    /\ writes' = writes \ {x}
    /\ IF x \in Workers
       THEN /\ worker' = [worker EXCEPT ![x] = "idle"]
            /\ job' = [job EXCEPT ![x] = None]
            /\ attempt' = [attempt EXCEPT ![x] = 0]
            /\ UNCHANGED call
       ELSE /\ call' = [call EXCEPT ![x] = IF @ = "writing" THEN "failed" ELSE @]
            /\ UNCHANGED <<worker, job, attempt>>
    /\ UNCHANGED <<deleting, clean, lists, rows, forgotten, over, queue, failures, crashes>>

\* Variant: the call does not wait for its write.
CreateReturnsAtOnce(c) ==
    /\ call[c] = "writing"
    /\ call' = [call EXCEPT ![c] = "done"]
    /\ lists' = [lists EXCEPT ![TaskOf[c]] = {x \in @ : IdOf[x] # IdOf[c]} \union {c}]
    /\ UNCHANGED <<deleting, clean, rows, writes, forgotten, over, poolVars, failures, crashes>>

\* The list of the Task takes the config in place of any other of that id;
\* the lists of other Tasks, and the failures counted so far, stay.
CreateReturns(c) ==
    /\ call[c] = "writing"
    /\ c \notin writes
    /\ call' = [call EXCEPT ![c] = "done"]
    /\ lists' = [lists EXCEPT ![TaskOf[c]] = {x \in @ : IdOf[x] # IdOf[c]} \union {c}]
    /\ UNCHANGED <<deleting, clean, rows, writes, forgotten, over, poolVars, failures, crashes>>

\* Variant: one list only forgets the config.
DeleteReturnsFromOne(d) ==
    /\ call[d] = "writing"
    /\ d \notin writes
    /\ call' = [call EXCEPT ![d] = "done"]
    /\ \E t \in Tasks : lists' = [lists EXCEPT ![t] = Without(IdOf[d])[t]]
    /\ failures' = [failures EXCEPT ![IdOf[d]] = 0]
    /\ UNCHANGED <<deleting, clean, rows, writes, forgotten, over, poolVars, crashes>>

DeleteReturns(d) ==
    /\ call[d] = "writing"
    /\ d \notin writes
    /\ call' = [call EXCEPT ![d] = "done"]
    /\ lists' = Without(IdOf[d])
    /\ failures' = [failures EXCEPT ![IdOf[d]] = 0]
    /\ UNCHANGED <<deleting, clean, rows, writes, forgotten, over, poolVars, crashes>>

\* The client leaves; the write runs all the same.
Disconnect(x) ==
    /\ call[x] = "writing"
    /\ call' = [call EXCEPT ![x] = "gone"]
    /\ UNCHANGED <<deleting, clean, storeVars, over, poolVars, failures, crashes>>

-----------------------------------------------------------------------------
(* Delivery.                                                               *)

\* enqueue_push_for_terminal: a job for every config the Task has by then.
TaskEnds(t) ==
    /\ t \notin over
    /\ over' = over \union {t}
    /\ queue' = queue \union lists[t]
    /\ UNCHANGED <<callVars, storeVars, worker, job, attempt, failures, crashes>>

WorkerStep(w, from, to) ==
    /\ worker[w] = from
    /\ worker' = [worker EXCEPT ![w] = to]

Idles(w) ==
    /\ job' = [job EXCEPT ![w] = None]
    /\ attempt' = [attempt EXCEPT ![w] = 0]

TakeJob(w, c) ==
    /\ WorkerStep(w, "idle", "posting")
    /\ c \in queue
    /\ queue' = queue \ {c}
    /\ job' = [job EXCEPT ![w] = c]
    /\ attempt' = [attempt EXCEPT ![w] = 1]
    /\ UNCHANGED <<callVars, storeVars, over, failures, crashes>>

\* 2xx or 3xx.
Accepted(w) ==
    /\ WorkerStep(w, "posting", "idle")
    /\ failures' = [failures EXCEPT ![IdFor(w)] = 0]
    /\ Idles(w)
    /\ UNCHANGED <<callVars, storeVars, over, queue, crashes>>

\* Variant: the attempts start over instead of ending.
RetriesForEver(w) ==
    /\ WorkerStep(w, "posting", "posting")
    /\ attempt' = [attempt EXCEPT ![w] = IF @ < MaxAttempts THEN @ + 1 ELSE 1]
    /\ UNCHANGED <<callVars, storeVars, over, queue, job, failures, crashes>>

\* Variant: one attempt too many.
RetriesOnceMore(w) ==
    /\ WorkerStep(w, "posting", "posting")
    /\ attempt[w] <= MaxAttempts
    /\ attempt' = [attempt EXCEPT ![w] = @ + 1]
    /\ UNCHANGED <<callVars, storeVars, over, queue, job, failures, crashes>>

\* 5xx, 408, 429, or no answer in time: the worker waits and tries again ...
Retries(w) ==
    /\ WorkerStep(w, "posting", "posting")
    /\ attempt[w] < MaxAttempts
    /\ attempt' = [attempt EXCEPT ![w] = @ + 1]
    /\ UNCHANGED <<callVars, storeVars, over, queue, job, failures, crashes>>

\* ... but for the last attempt.
Dropped(w) ==
    /\ WorkerStep(w, "posting", "idle")
    /\ attempt[w] >= MaxAttempts
    /\ Idles(w)
    /\ UNCHANGED <<callVars, storeVars, over, queue, failures, crashes>>

\* record_permanent_failure.
Failures(w) == failures[IdFor(w)] + 1

\* Any other status: the failure is counted under the id of the config ...
Rejected(w) ==
    /\ WorkerStep(w, "posting", "idle")
    /\ Failures(w) < Threshold
    /\ failures' = [failures EXCEPT ![IdFor(w)] = Failures(w)]
    /\ Idles(w)
    /\ UNCHANGED <<callVars, storeVars, over, queue, crashes>>

\* ... and at the threshold the worker deletes whatever has that id.
RejectedTooOften(w) ==
    /\ WorkerStep(w, "posting", "deleting")
    /\ Failures(w) >= Threshold
    /\ failures' = [failures EXCEPT ![IdFor(w)] = Failures(w)]
    /\ writes' = writes \union {w}
    /\ deleting' = deleting \union {IdFor(w)}
    /\ UNCHANGED <<call, clean, lists, rows, forgotten, over, queue, job, attempt, crashes>>

WorkerDeletes(w) ==
    /\ WorkerStep(w, "deleting", "idle")
    /\ w \notin writes
    /\ lists' = Without(IdFor(w))
    /\ failures' = [failures EXCEPT ![IdFor(w)] = 0]
    /\ Idles(w)
    /\ UNCHANGED <<callVars, rows, writes, forgotten, over, queue, crashes>>

-----------------------------------------------------------------------------
\* The process is restarted.  The lists are not read back from the rows; the
\* Tasks are not there any more.
Crash ==
    /\ crashes < MaxCrashes
    /\ crashes' = crashes + 1
    /\ call' = [x \in Calls |-> IF call[x] = "writing" THEN "gone" ELSE call[x]]
    /\ lists' = [t \in Tasks |-> {}]
    /\ writes' = {}
    /\ over' = Tasks
    /\ queue' = {}
    /\ worker' = [w \in Workers |-> "idle"]
    /\ job' = [w \in Workers |-> None]
    /\ attempt' = [w \in Workers |-> 0]
    /\ failures' = [i \in Ids |-> 0]
    /\ UNCHANGED <<rows, forgotten, deleting, clean>>

Returns(x) ==
    \/ x \in Creates /\ CreateReturns(x)
    \/ x \in Deletes /\ DeleteReturns(x)

Deliver(w) ==
    \/ \E c \in queue : TakeJob(w, c)
    \/ Accepted(w) \/ Retries(w) \/ Dropped(w)
    \/ Rejected(w) \/ RejectedTooOften(w) \/ WorkerDeletes(w)

Next ==
    \/ \E c \in Creates : CreateStarts(c)
    \/ \E d \in Deletes : DeleteStarts(d)
    \/ \E x \in Calls : Returns(x) \/ Disconnect(x)
    \/ \E x \in writes : RunWrite(x) \/ WriteFails(x)
    \/ \E t \in Tasks : TaskEnds(t) \/ ForgetTask(t)
    \/ \E w \in Workers : Deliver(w)
    \/ Crash

Spec == Init /\ [][Next]_vars

\* Workers and writes are scheduled, and every request to a webhook ends: the
\* HTTP client has a timeout.
FairSpec ==
    /\ Spec
    /\ \A w \in Workers : WF_vars(Deliver(w)) /\ WF_vars(RunWrite(w) \/ WriteFails(w))

-----------------------------------------------------------------------------
(* Properties.                                                             *)

\* Type invariant: the values the code gives each variable.
TypeOK ==
    /\ call \in [Calls -> CallState]
    /\ lists \in [Tasks -> SUBSET Creates]
    /\ rows \in [Ids -> Creates \union {None}]
    /\ writes \subseteq Calls \union Workers
    /\ forgotten \subseteq Tasks
    /\ over \subseteq Tasks
    /\ queue \subseteq Creates
    /\ worker \in [Workers -> WorkerState]
    /\ job \in [Workers -> Creates \union {None}]
    /\ attempt \in [Workers -> 0 .. MaxAttempts]
    /\ failures \in [Ids -> Nat]
    /\ deleting \subseteq Ids
    /\ clean \subseteq Deletes
    /\ crashes \in 0 .. MaxCrashes

\* What GetTaskPushNotificationConfig may answer for an id: a config of some
\* list, or the row if no list has one.
Found(id) ==
    LET listed == {c \in UNION {lists[t] : t \in Tasks} : IdOf[c] = id}
    IN  IF listed # {} THEN listed ELSE {rows[id]} \ {None}

\* A config whose creation was acknowledged is found, restarts or not, until
\* somebody sets out to delete one of its id, or a Task that shares the id is
\* forgotten together with the row.
AcknowledgedIsFound ==
    \A c \in Creates :
        /\ call[c] = "done"
        /\ IdOf[c] \notin deleting
        /\ \A x \in Creates : IdOf[x] = IdOf[c] => TaskOf[x] \notin forgotten
        => Found(IdOf[c]) # {}

\* Once a deletion is acknowledged that no creation of the id overlapped,
\* nothing of that id is found until somebody creates it again, however many
\* Tasks it was registered for.
DeletedIsGone ==
    \A d \in clean : call[d] = "done" => Found(IdOf[d]) = {}

\* Every delivery job is decided in the end: delivered, rejected or dropped,
\* or lost in a restart.
EveryJobDecided ==
    \A c \in Creates :
        c \in queue ~> (c \notin queue /\ \A w \in Workers : job[w] # c)
=============================================================================
