-------------------------- MODULE PushDeliveryProofs --------------------------
(***************************************************************************)
(* Proofs about PushDelivery.                                              *)
(***************************************************************************)
EXTENDS PushDelivery, TLAPS

\* A worker has a job exactly while it works on one, and waits for a write
\* only when it deletes.
Busy ==
    \A w \in Workers :
        /\ worker[w] # "idle" <=> job[w] \in Creates
        /\ w \in writes => worker[w] = "deleting"

\* While a deletion that no creation overlaps is pending, nothing of its id is
\* being created; once its write has run the row is gone, and once it is
\* acknowledged the entries of every list are.
Cleaning ==
    \A d \in clean :
        /\ \A c \in Creates : IdOf[c] = IdOf[d] => ~Underway(c)
        /\ call[d] = "writing" /\ d \notin writes => rows[IdOf[d]] = None
        /\ call[d] = "done" =>
               /\ rows[IdOf[d]] = None
               /\ \A t \in Tasks : \A c \in lists[t] : IdOf[c] # IdOf[d]

\* The ids that nobody set out to delete and no forgotten Task shares.
Safe(id) ==
    /\ id \notin deleting
    /\ \A x \in Creates : IdOf[x] = id => TaskOf[x] \notin forgotten

\* A row names a config of its id; the writes that delete are of ids somebody
\* set out to delete; and the row of a safe id is there once it was written.
Stored ==
    /\ \A i \in Ids : rows[i] # None => IdOf[rows[i]] = i
    /\ \A x \in writes : x \notin Creates => IdFor(x) \in deleting
    /\ \A c \in Creates :
           /\ Safe(IdOf[c])
           /\ call[c] = "done" \/ (call[c] = "writing" /\ c \notin writes)
           => rows[IdOf[c]] # None

-----------------------------------------------------------------------------
\* The steps of the shim.
LEMMA Steps ==
    ASSUME Next
    PROVE  \/ \E c \in Creates : CreateStarts(c) \/ CreateReturns(c)
           \/ \E d \in Deletes : DeleteStarts(d) \/ DeleteReturns(d)
           \/ \E x \in Calls : Disconnect(x)
           \/ \E x \in writes : RunWrite(x) \/ WriteFails(x)
           \/ \E t \in Tasks : TaskEnds(t) \/ ForgetTask(t)
           \/ \E w \in Workers : \E c \in queue : TakeJob(w, c)
           \/ \E w \in Workers : Accepted(w) \/ Retries(w) \/ Dropped(w) \/ Rejected(w)
           \/ \E w \in Workers : RejectedTooOften(w) \/ WorkerDeletes(w)
           \/ Crash
  BY DEF Next, Returns, Deliver

\* Every variable keeps the type the code gives it; in particular a worker
\* that deletes knows which config.
THEOREM TypeCorrect == Spec => [](TypeOK /\ Busy)
<1> USE PushAssumption DEF Calls
<1>1. Init => TypeOK /\ Busy
  BY DEF Init, TypeOK, Busy, CallState, WorkerState
<1>2. TypeOK /\ Busy /\ [Next]_vars => TypeOK' /\ Busy'
  <2> SUFFICES ASSUME TypeOK, Busy, [Next]_vars
               PROVE  TypeOK' /\ Busy'
    OBVIOUS
  <2> USE DEF TypeOK, Busy, callVars, storeVars, poolVars
  <2>1. ASSUME NEW c \in Creates, CreateStarts(c)
        PROVE  TypeOK' /\ Busy'
    BY <2>1 DEF CreateStarts, CallState
  <2>2. ASSUME NEW c \in Creates, CreateReturns(c)
        PROVE  TypeOK' /\ Busy'
    BY <2>2 DEF CreateReturns, CallState
  <2>3. ASSUME NEW d \in Deletes, DeleteStarts(d)
        PROVE  TypeOK' /\ Busy'
    BY <2>3 DEF DeleteStarts, CallState
  <2>4. ASSUME NEW d \in Deletes, DeleteReturns(d)
        PROVE  TypeOK' /\ Busy'
    BY <2>4 DEF DeleteReturns, Without, CallState
  <2>5. ASSUME NEW x \in Calls, Disconnect(x)
        PROVE  TypeOK' /\ Busy'
    BY <2>5 DEF Disconnect, CallState
  <2>6. ASSUME NEW x \in writes, RunWrite(x)
        PROVE  TypeOK' /\ Busy'
    <3>1. IdFor(x) \in Ids
      BY DEF IdFor
    <3> QED
      BY <2>6, <3>1 DEF RunWrite
  <2>7. ASSUME NEW x \in writes, WriteFails(x)
        PROVE  TypeOK' /\ Busy'
    <3>1. CASE x \in Workers
      BY <2>7, <3>1 DEF WriteFails, WorkerState
    <3>2. CASE x \notin Workers
      BY <2>7, <3>2 DEF WriteFails, CallState
    <3> QED
      BY <3>1, <3>2
  <2>8. ASSUME NEW t \in Tasks, TaskEnds(t) \/ ForgetTask(t)
        PROVE  TypeOK' /\ Busy'
    BY <2>8 DEF TaskEnds, ForgetTask
  <2>9. ASSUME NEW w \in Workers, NEW c \in queue, TakeJob(w, c)
        PROVE  TypeOK' /\ Busy'
    BY <2>9 DEF TakeJob, WorkerStep, WorkerState
  <2>10. ASSUME NEW w \in Workers, Accepted(w) \/ Dropped(w) \/ Rejected(w)
         PROVE  TypeOK' /\ Busy'
    <3>1. job[w] \in Creates /\ IdFor(w) \in Ids /\ Failures(w) \in Nat
      BY <2>10 DEF Accepted, Dropped, Rejected, WorkerStep, IdFor, Failures
    <3>2. failures' \in [Ids -> Nat]
      BY <2>10, <3>1 DEF Accepted, Dropped, Rejected
    <3>3. /\ worker' = [worker EXCEPT ![w] = "idle"] /\ worker[w] = "posting"
          /\ job' = [job EXCEPT ![w] = None] /\ attempt' = [attempt EXCEPT ![w] = 0]
          /\ UNCHANGED <<callVars, storeVars, over, queue, crashes>>
      BY <2>10 DEF Accepted, Dropped, Rejected, WorkerStep, Idles
    <3> QED
      BY <3>2, <3>3 DEF WorkerState
  <2>11. ASSUME NEW w \in Workers, Retries(w)
         PROVE  TypeOK' /\ Busy'
    BY <2>11 DEF Retries, WorkerStep, WorkerState
  <2>12. ASSUME NEW w \in Workers, RejectedTooOften(w)
         PROVE  TypeOK' /\ Busy'
    <3>1. job[w] \in Creates /\ IdFor(w) \in Ids /\ Failures(w) \in Nat
      BY <2>12 DEF RejectedTooOften, WorkerStep, IdFor, Failures
    <3> QED
      BY <2>12, <3>1 DEF RejectedTooOften, WorkerStep, WorkerState
  <2>13. ASSUME NEW w \in Workers, WorkerDeletes(w)
         PROVE  TypeOK' /\ Busy'
    <3>1. lists' \in [Tasks -> SUBSET Creates] /\ failures' \in [Ids -> Nat]
      BY <2>13 DEF WorkerDeletes, Without
    <3> QED
      BY <2>13, <3>1 DEF WorkerDeletes, WorkerStep, Idles, WorkerState
  <2>14. CASE Crash
    BY <2>14 DEF Crash, CallState, WorkerState
  <2>15. CASE UNCHANGED vars
    BY <2>15 DEF vars
  <2> QED
    BY <2>1, <2>2, <2>3, <2>4, <2>5, <2>6, <2>7, <2>8, <2>9, <2>10, <2>11, <2>12, <2>13,
       <2>14, <2>15, Steps
<1> QED
  BY <1>1, <1>2, PTL DEF Spec

-----------------------------------------------------------------------------
\* Once a deletion is acknowledged that no creation of its id overlapped, the
\* id is not found: its row went before its entries, and neither comes back.
THEOREM DeletionsHold == Spec => []DeletedIsGone
<1> USE PushAssumption DEF Calls
<1>1. Init => Cleaning
  BY DEF Init, Cleaning
<1>2. TypeOK /\ Busy /\ Cleaning /\ [Next]_vars => Cleaning'
  <2> SUFFICES ASSUME TypeOK, Busy, Cleaning, [Next]_vars
               PROVE  Cleaning'
    OBVIOUS
  <2> USE DEF TypeOK, Busy, Cleaning, Underway, callVars, storeVars, poolVars
  <2>1. ASSUME NEW c \in Creates, CreateStarts(c)
        PROVE  Cleaning'
    BY <2>1 DEF CreateStarts
  <2>2. ASSUME NEW c \in Creates, CreateReturns(c)
        PROVE  Cleaning'
    <3>1. \A d \in clean : IdOf[c] # IdOf[d]
      BY <2>2 DEF CreateReturns
    <3>2. \A t \in Tasks : lists'[t] \subseteq lists[t] \union {c}
      BY <2>2 DEF CreateReturns
    <3>3. /\ call' = [call EXCEPT ![c] = "done"]
          /\ UNCHANGED <<clean, writes, rows>>
      BY <2>2 DEF CreateReturns
    <3> QED
      BY <3>1, <3>2, <3>3
  <2>3. ASSUME NEW d \in Deletes, DeleteStarts(d)
        PROVE  Cleaning'
    <3>1. /\ call[d] = "idle" /\ call' = [call EXCEPT ![d] = "writing"]
          /\ writes' = writes \union {d} /\ UNCHANGED <<lists, rows>>
          /\ \A x \in clean' : x \in clean \/
                 (x = d /\ \A c \in Creates : IdOf[c] = IdOf[d] => ~Underway(c))
      BY <2>3 DEF DeleteStarts
    <3> QED
      BY <3>1
  <2>4. ASSUME NEW d \in Deletes, DeleteReturns(d)
        PROVE  Cleaning'
    <3>1. /\ call[d] = "writing" /\ d \notin writes /\ call' = [call EXCEPT ![d] = "done"]
          /\ UNCHANGED <<clean, writes, rows>>
          /\ \A t \in Tasks : lists'[t] = {c \in lists[t] : IdOf[c] # IdOf[d]}
      BY <2>4 DEF DeleteReturns, Without
    <3> QED
      BY <3>1
  <2>5. ASSUME NEW x \in Calls, Disconnect(x)
        PROVE  Cleaning'
    BY <2>5 DEF Disconnect
  <2>6. ASSUME NEW x \in writes, RunWrite(x)
        PROVE  Cleaning'
    <3>1. /\ writes' = writes \ {x} /\ UNCHANGED <<call, clean, lists>>
          /\ rows' = [rows EXCEPT ![IdFor(x)] = IF x \in Creates THEN x ELSE None]
      BY <2>6 DEF RunWrite
    <3>2. \A d \in clean : rows'[IdOf[d]] \in {rows[IdOf[d]], None}
      BY <3>1 DEF IdFor
    <3>3. \A d \in clean : d = x => rows'[IdOf[d]] = None
      BY <3>1 DEF IdFor
    <3> QED
      BY <3>1, <3>2, <3>3
  <2>7. ASSUME NEW x \in writes, WriteFails(x)
        PROVE  Cleaning'
    <3>1. CASE x \in Workers
      <4>1. writes' = writes \ {x} /\ UNCHANGED <<call, clean, lists, rows>>
        BY <2>7, <3>1 DEF WriteFails
      <4> QED
        BY <3>1, <4>1
    <3>2. CASE x \notin Workers
      <4>1. /\ writes' = writes \ {x} /\ UNCHANGED <<clean, lists, rows>>
            /\ call' = [call EXCEPT ![x] = IF @ = "writing" THEN "failed" ELSE @]
        BY <2>7, <3>2 DEF WriteFails
      <4> QED
        BY <3>2, <4>1
    <3> QED
      BY <3>1, <3>2
  <2>8. ASSUME NEW t \in Tasks, TaskEnds(t) \/ ForgetTask(t)
        PROVE  Cleaning'
    BY <2>8 DEF TaskEnds, ForgetTask
  <2>9. ASSUME NEW w \in Workers, NEW c \in queue, TakeJob(w, c)
        PROVE  Cleaning'
    BY <2>9 DEF TakeJob
  <2>10. ASSUME NEW w \in Workers, Accepted(w) \/ Retries(w) \/ Dropped(w) \/ Rejected(w)
         PROVE  Cleaning'
    BY <2>10 DEF Accepted, Retries, Dropped, Rejected
  <2>11. ASSUME NEW w \in Workers, RejectedTooOften(w)
         PROVE  Cleaning'
    BY <2>11 DEF RejectedTooOften
  <2>12. ASSUME NEW w \in Workers, WorkerDeletes(w)
         PROVE  Cleaning'
    BY <2>12 DEF WorkerDeletes, Without
  <2>13. CASE Crash
    BY <2>13 DEF Crash
  <2>14. CASE UNCHANGED vars
    BY <2>14 DEF vars
  <2> QED
    BY <2>1, <2>2, <2>3, <2>4, <2>5, <2>6, <2>7, <2>8, <2>9, <2>10, <2>11, <2>12, <2>13,
       <2>14, Steps
<1>3. Cleaning => DeletedIsGone
  BY DEF Cleaning, DeletedIsGone, Found
<1> QED
  BY <1>1, <1>2, <1>3, TypeCorrect, PTL DEF Spec

-----------------------------------------------------------------------------
\* A config whose creation was acknowledged is found, by its row if not by an
\* entry, as long as nobody sets out to delete its id and its Task is known.
THEOREM CreationsHold == Spec => []AcknowledgedIsFound
<1> USE PushAssumption DEF Calls
<1>1. Init => Stored
  BY DEF Init, Stored
<1>2. TypeOK /\ Busy /\ Stored /\ [Next]_vars => Stored'
  <2> SUFFICES ASSUME TypeOK, Busy, Stored, [Next]_vars
               PROVE  Stored'
    OBVIOUS
  <2> USE DEF TypeOK, Busy, Stored, Safe, IdFor, callVars, storeVars, poolVars
  <2>1. ASSUME NEW c \in Creates, CreateStarts(c)
        PROVE  Stored'
    BY <2>1 DEF CreateStarts
  <2>2. ASSUME NEW c \in Creates, CreateReturns(c)
        PROVE  Stored'
    BY <2>2 DEF CreateReturns
  <2>3. ASSUME NEW d \in Deletes, DeleteStarts(d)
        PROVE  Stored'
    BY <2>3 DEF DeleteStarts
  <2>4. ASSUME NEW d \in Deletes, DeleteReturns(d)
        PROVE  Stored'
    BY <2>4 DEF DeleteReturns
  <2>5. ASSUME NEW x \in Calls, Disconnect(x)
        PROVE  Stored'
    BY <2>5 DEF Disconnect
  <2>6. ASSUME NEW x \in writes, RunWrite(x)
        PROVE  Stored'
    <3>1. /\ writes' = writes \ {x} /\ UNCHANGED <<call, deleting, forgotten, job>>
          /\ rows' = [rows EXCEPT ![IdFor(x)] = IF x \in Creates THEN x ELSE None]
      BY <2>6 DEF RunWrite
    <3>2. CASE x \in Creates
      <4>1. rows' = [rows EXCEPT ![IdOf[x]] = x] /\ x # None
        BY <3>1, <3>2
      <4> QED
        BY <3>1, <3>2, <4>1
    <3>3. CASE x \notin Creates
      <4>1. rows' = [rows EXCEPT ![IdFor(x)] = None] /\ IdFor(x) \in deleting
        BY <3>1, <3>3
      <4> QED
        BY <3>1, <3>3, <4>1
    <3> QED
      BY <3>2, <3>3
  <2>7. ASSUME NEW x \in writes, WriteFails(x)
        PROVE  Stored'
    <3>1. CASE x \in Workers
      <4>1. /\ writes' = writes \ {x} /\ job' = [job EXCEPT ![x] = None]
            /\ UNCHANGED <<call, deleting, forgotten, rows>>
        BY <2>7, <3>1 DEF WriteFails
      <4> QED
        BY <3>1, <4>1
    <3>2. CASE x \notin Workers
      <4>1. /\ writes' = writes \ {x} /\ UNCHANGED <<deleting, forgotten, rows, job>>
            /\ call' = [call EXCEPT ![x] = IF @ = "writing" THEN "failed" ELSE @]
        BY <2>7, <3>2 DEF WriteFails
      <4> QED
        BY <3>2, <4>1
    <3> QED
      BY <3>1, <3>2
  <2>8. ASSUME NEW t \in Tasks, TaskEnds(t)
        PROVE  Stored'
    BY <2>8 DEF TaskEnds
  <2>9. ASSUME NEW t \in Tasks, ForgetTask(t)
        PROVE  Stored'
    <3>1. /\ forgotten' = forgotten \union {t} /\ UNCHANGED <<call, deleting, writes, job>>
          /\ \A i \in Ids : \/ rows'[i] = rows[i]
                            \/ rows'[i] = None /\ rows[i] \in Creates /\ TaskOf[rows[i]] = t
      BY <2>9 DEF ForgetTask
    <3>2. ASSUME NEW c \in Creates, Safe(IdOf[c])', rows[IdOf[c]] # None
          PROVE  rows'[IdOf[c]] # None
      BY <3>1, <3>2
    <3>3. \A c \in Creates : Safe(IdOf[c])' => Safe(IdOf[c])
      BY <3>1
    <3> QED
      BY <3>1, <3>2, <3>3
  <2>10. ASSUME NEW w \in Workers, NEW c \in queue, TakeJob(w, c)
         PROVE  Stored'
    BY <2>10 DEF TakeJob, WorkerStep
  <2>11. ASSUME NEW w \in Workers, Accepted(w) \/ Retries(w) \/ Dropped(w) \/ Rejected(w)
         PROVE  Stored'
    <3>1. worker[w] = "posting" /\ job' \in {job, [job EXCEPT ![w] = None]}
      BY <2>11 DEF Accepted, Retries, Dropped, Rejected, WorkerStep, Idles
    <3>2. w \notin writes
      BY <3>1
    <3>3. UNCHANGED <<call, deleting, forgotten, rows, writes>>
      BY <2>11 DEF Accepted, Retries, Dropped, Rejected
    <3> QED
      BY <3>1, <3>2, <3>3
  <2>12. ASSUME NEW w \in Workers, RejectedTooOften(w)
         PROVE  Stored'
    BY <2>12 DEF RejectedTooOften
  <2>13. ASSUME NEW w \in Workers, WorkerDeletes(w)
         PROVE  Stored'
    BY <2>13 DEF WorkerDeletes, Idles
  <2>14. CASE Crash
    BY <2>14 DEF Crash
  <2>15. CASE UNCHANGED vars
    BY <2>15 DEF vars
  <2> QED
    BY <2>1, <2>2, <2>3, <2>4, <2>5, <2>6, <2>7, <2>8, <2>9, <2>10, <2>11, <2>12, <2>13,
       <2>14, <2>15, Steps
<1>3. Stored => AcknowledgedIsFound
  BY DEF Stored, Safe, AcknowledgedIsFound, Found
<1> QED
  BY <1>1, <1>2, <1>3, TypeCorrect, PTL DEF Spec
=============================================================================
