----------------------------- MODULE ApiKeyStore -----------------------------
(***************************************************************************)
(* The API keys of api_keys.py.  Administration runs in the event loop and *)
(* flushes before it answers; a worker thread flushes what usage has       *)
(* changed every five seconds; requests record their usage from the thread *)
(* pool.  A flush notes which records there are under the lock, and reads  *)
(* the records themselves, which are shared, without it, field by field.   *)
(***************************************************************************)
EXTENDS Integers, FiniteSets

CONSTANTS
    Keys,           \* ids a key may get
    Nobody,         \* no key: no administration call is under way
    WritesFail,     \* whether reading and writing the file may fail
    MaxSecrets,     \* bound of the model, by key: secrets issued
    MaxUses,        \* bound of the model, by key: uses recorded
    MaxStreams      \* streams open at once, by key: the gate's capacity

ASSUME StoreAssumption == /\ IsFiniteSet(Keys) /\ Nobody \notin Keys
                          /\ WritesFail \in BOOLEAN
                          /\ {MaxSecrets, MaxUses, MaxStreams} \subseteq [Keys -> Nat]

VARIABLES
    phase,      \* "up", "closing", "closed", "aborted" (close raised) or "crashed"
    records,    \* _records
    managed,    \* _managed_authentication
    dirty,      \* _dirty
    file,       \* what the file holds
    admin,      \* the key whose administration call is about to flush, or Nobody
    loop,       \* _flush_task: "asleep", "flushing", "dead" or "cancelled"
    dump,       \* what the worker's flush has read of each record
    open,       \* streams open, by key
    acked,      \* history: what the last answered administration call left, by key
    unread      \* history: the file could not be read at start, and is as it was

memory == <<records, managed, dirty>>
worker == <<loop, dump>>
history == <<acked, unread>>
vars == <<phase, memory, file, admin, worker, open, history>>

Stamps == {"rotated_at", "revoked_at"}
Record(k) == [secret : 1..MaxSecrets[k], uses : 0..MaxUses[k], sessions : 0..MaxStreams[k],
              enabled : BOOLEAN, stamps : SUBSET Stamps]
Image == [managed |-> managed, keys |-> records]
NoKeys == [k \in {} |-> 0]
NotRead == [done |-> FALSE, secret |-> 0, uses |-> 0, sessions |-> 0, size |-> 0]
Exists(k) == k \in DOMAIN records
Dumping == DOMAIN dump # {}     \* the worker holds _flush_lock

Init ==
    /\ phase = "up" /\ records = NoKeys /\ managed = FALSE /\ dirty = FALSE
    /\ file = [managed |-> FALSE, keys |-> NoKeys]
    /\ admin = Nobody /\ loop = "asleep" /\ dump = NoKeys
    /\ open = [k \in Keys |-> 0]
    /\ acked = NoKeys /\ unread = FALSE

-----------------------------------------------------------------------------
(* Administration: the record is changed under the lock, then flushed.  The  *)
(* event loop does nothing else until the flush is over.                     *)

EventLoop == phase = "up" /\ admin = Nobody

Changed(k, record) ==
    /\ records' = [j \in DOMAIN records \cup {k} |-> IF j = k THEN record ELSE records[j]]
    /\ dirty' = TRUE
    /\ admin' = k
    /\ UNCHANGED <<phase, file, worker, open, history>>

Create(k) ==
    /\ EventLoop /\ ~Exists(k) /\ k \notin DOMAIN file.keys
    /\ MaxSecrets[k] > 0
    /\ managed' = TRUE
    /\ Changed(k, [secret |-> 1, uses |-> 0, sessions |-> 0, enabled |-> TRUE, stamps |-> {}])

Rotate(k) ==
    /\ EventLoop /\ Exists(k) /\ records[k].secret < MaxSecrets[k]
    /\ Changed(k, [records[k] EXCEPT !.secret = @ + 1, !.enabled = TRUE,
                                     !.stamps = @ \cup {"rotated_at"}])
    /\ UNCHANGED managed

Revoke(k) ==
    /\ EventLoop /\ Exists(k)
    /\ Changed(k, [records[k] EXCEPT !.enabled = FALSE, !.sessions = 0,
                                     !.stamps = @ \cup {"revoked_at"}])
    /\ UNCHANGED managed

Answer(ok) ==
    /\ admin' = Nobody
    /\ acked' = [j \in IF ok THEN DOMAIN acked \cup {admin} ELSE DOMAIN acked \ {admin} |->
                    IF j = admin THEN records[j] ELSE acked[j]]

\* Fault: a flush that finds the lock taken leaves the work to its holder.
FlushUnlessBusy ==
    /\ phase = "up" /\ admin # Nobody
    /\ Answer(TRUE)
    /\ IF Dumping
       THEN UNCHANGED <<file, dirty, unread>>
       ELSE file' = Image /\ dirty' = FALSE /\ unread' = FALSE
    /\ UNCHANGED <<phase, records, managed, worker, open>>

\* The call's own flush: it waits for the worker's, writes if there is still something
\* to write, and the call is answered; or the write fails and the call with it.
Flush ==
    /\ phase = "up" /\ admin # Nobody /\ ~Dumping
    /\ \/ /\ Answer(TRUE)
          /\ IF dirty
             THEN file' = Image /\ dirty' = FALSE /\ unread' = FALSE
             ELSE UNCHANGED <<file, dirty, unread>>
       \/ /\ WritesFail /\ dirty
          /\ Answer(FALSE)
          /\ UNCHANGED <<file, dirty, unread>>
    /\ UNCHANGED <<phase, records, managed, worker, open>>

-----------------------------------------------------------------------------
(* Usage, recorded under the lock and never flushed by who records it.       *)

\* Fault: usage is not marked for the next flush.
UseUnmarked(k) ==
    /\ phase = "up" /\ Exists(k) /\ records[k].uses < MaxUses[k]
    /\ records' = [records EXCEPT ![k].uses = @ + 1]
    /\ UNCHANGED <<phase, managed, dirty, file, admin, worker, open, history>>

\* record_request of the thread pool, record_audio: the key may have been revoked.
Use(k) ==
    /\ phase = "up" /\ Exists(k) /\ records[k].uses < MaxUses[k]
    /\ records' = [records EXCEPT ![k].uses = @ + 1]
    /\ dirty' = TRUE
    /\ UNCHANGED <<phase, managed, file, admin, worker, open, history>>

\* A stream is authenticated and counted in one turn of the event loop.
StreamOpened(k) ==
    /\ EventLoop /\ Exists(k) /\ records[k].enabled
    /\ open[k] < MaxStreams[k] /\ \A j \in Keys \ {k} : open[j] = 0
    /\ open' = [open EXCEPT ![k] = @ + 1]
    /\ records' = [records EXCEPT ![k].sessions = @ + 1]
    /\ dirty' = TRUE
    /\ UNCHANGED <<phase, managed, file, admin, worker, history>>

\* The count was put to 0 if the key was revoked meanwhile.
StreamClosed(k) ==
    /\ EventLoop /\ open[k] > 0 /\ Exists(k)
    /\ open' = [open EXCEPT ![k] = @ - 1]
    /\ records' = [records EXCEPT ![k].sessions = IF @ > 0 THEN @ - 1 ELSE 0]
    /\ dirty' = TRUE
    /\ UNCHANGED <<phase, managed, file, admin, worker, history>>

-----------------------------------------------------------------------------
(* The worker's flush.                                                       *)

\* Five seconds are over and something is dirty: it no longer is from here on.
WorkerStarts ==
    /\ phase \in {"up", "closing"} /\ loop = "asleep" /\ dirty /\ ~Dumping
    /\ DOMAIN records # {}
    /\ loop' = "flushing"
    /\ dirty' = FALSE
    /\ dump' = [k \in DOMAIN records |-> NotRead]
    /\ UNCHANGED <<phase, records, managed, file, admin, open, history>>

\* json.dump has written a record as far as its counters.
WorkerReads(k) ==
    /\ phase # "crashed" /\ Dumping
    /\ k \in DOMAIN dump /\ dump[k] = NotRead
    /\ dump' = [dump EXCEPT ![k] = [done |-> FALSE, secret |-> records[k].secret,
                                    uses |-> records[k].uses, sessions |-> records[k].sessions,
                                    size |-> Cardinality(records[k].stamps)]]
    /\ UNCHANGED <<phase, memory, file, admin, loop, open, history>>

Unchanged(k) == dump[k].size = Cardinality(records[k].stamps)

\* The rest of it: whether the key is enabled, and when it was rotated or revoked.
WorkerReadsRest(k) ==
    /\ phase # "crashed" /\ Dumping
    /\ k \in DOMAIN dump /\ dump[k].secret > 0 /\ ~dump[k].done
    /\ Unchanged(k)
    /\ dump' = [dump EXCEPT ![k] = [done |-> TRUE, secret |-> @.secret, uses |-> @.uses,
                                    sessions |-> @.sessions, enabled |-> records[k].enabled,
                                    stamps |-> records[k].stamps]]
    /\ UNCHANGED <<phase, memory, file, admin, loop, open, history>>

\* A flush that raises ends the task that flushes, for good.
LoopAfterRaise == IF loop = "cancelled" THEN loop ELSE "dead"

\* A stamp was added to the record while it was being written: RuntimeError.
WorkerRaises(k) ==
    /\ phase # "crashed" /\ Dumping
    /\ k \in DOMAIN dump /\ dump[k].secret > 0 /\ ~dump[k].done
    /\ ~Unchanged(k)
    /\ dump' = NoKeys /\ loop' = LoopAfterRaise
    /\ UNCHANGED <<phase, memory, file, admin, open, history>>

DumpedKeys ==
    [k \in DOMAIN dump |-> [secret |-> dump[k].secret, uses |-> dump[k].uses,
                            sessions |-> dump[k].sessions, enabled |-> dump[k].enabled,
                            stamps |-> dump[k].stamps]]

\* Fault: the flag is cleared when the file has been written.
WorkerWritesClean ==
    /\ phase # "crashed" /\ Dumping
    /\ \A k \in DOMAIN dump : dump[k].done
    /\ dump' = NoKeys
    /\ file' = [managed |-> TRUE, keys |-> DumpedKeys]
    /\ loop' = IF loop = "cancelled" THEN loop ELSE "asleep"
    /\ unread' = FALSE /\ dirty' = FALSE
    /\ UNCHANGED <<phase, records, managed, admin, open, acked>>

\* The temporary file takes the file's place; or OSError, and dirty again.
WorkerWrites ==
    /\ phase # "crashed" /\ Dumping
    /\ \A k \in DOMAIN dump : dump[k].done
    /\ dump' = NoKeys
    /\ \/ /\ file' = [managed |-> TRUE, keys |-> DumpedKeys]
          /\ loop' = IF loop = "cancelled" THEN loop ELSE "asleep"
          /\ unread' = FALSE
          /\ UNCHANGED dirty
       \/ /\ WritesFail
          /\ dirty' = TRUE
          /\ loop' = LoopAfterRaise
          /\ UNCHANGED <<file, unread>>
    /\ UNCHANGED <<phase, records, managed, admin, open, acked>>

-----------------------------------------------------------------------------
(* Shutdown, crash and start.                                                *)

\* Fault: close leaves the rest to the task it has cancelled.
CloseBeginsNoFlush ==
    /\ EventLoop /\ \A k \in Keys : open[k] = 0
    /\ IF loop = "dead"
       THEN phase' = "aborted" /\ UNCHANGED loop
       ELSE phase' = "closed" /\ loop' = "cancelled"
    /\ UNCHANGED <<memory, file, admin, dump, open, history>>

\* close cancels the flush task and awaits it: the exception of a task that has died
\* comes out here.  A worker thread in the middle of a flush goes on.
CloseBegins ==
    /\ EventLoop /\ \A k \in Keys : open[k] = 0
    /\ IF loop = "dead"
       THEN phase' = "aborted" /\ UNCHANGED loop
       ELSE phase' = "closing" /\ loop' = "cancelled"
    /\ UNCHANGED <<memory, file, admin, dump, open, history>>

\* The last flush of close.
CloseFlushes ==
    /\ phase = "closing" /\ ~Dumping
    /\ \/ /\ phase' = "closed"
          /\ dirty' = FALSE
          /\ file' = IF dirty THEN Image ELSE file
          /\ unread' = IF dirty THEN FALSE ELSE unread
       \/ /\ WritesFail /\ dirty
          /\ phase' = "aborted"
          /\ UNCHANGED <<dirty, file, unread>>
    /\ UNCHANGED <<records, managed, admin, worker, open, acked>>

Crash ==
    /\ phase \in {"up", "closing"}
    /\ phase' = "crashed"
    /\ UNCHANGED <<memory, file, admin, worker, open, history>>

Fresh ==
    /\ phase \in {"closed", "aborted", "crashed"}
    /\ phase' = "up"
    /\ admin' = Nobody /\ loop' = "asleep" /\ dump' = NoKeys
    /\ open' = [k \in Keys |-> 0]
    /\ file' = file

\* Fault: the sessions of the last run are counted on.
LoadKeepsSessions ==
    /\ Fresh
    /\ records' = file.keys /\ managed' = file.managed /\ dirty' = FALSE
    /\ acked' = [k \in DOMAIN acked \ {admin} |-> acked[k]]
    /\ unread' = FALSE

\* _load: the sessions of the last run are over.  A call that was never answered has
\* promised nothing.
Load ==
    /\ Fresh
    /\ records' = [k \in DOMAIN file.keys |-> [file.keys[k] EXCEPT !.sessions = 0]]
    /\ managed' = file.managed
    /\ dirty' = \E k \in DOMAIN file.keys : file.keys[k].sessions > 0
    /\ acked' = [k \in DOMAIN acked \ {admin} |-> acked[k]]
    /\ unread' = FALSE

\* _fail_closed: a file that cannot be read admits nobody, and is not touched.
LoadFails ==
    /\ WritesFail /\ Fresh
    /\ records' = NoKeys /\ managed' = TRUE /\ dirty' = FALSE
    /\ acked' = NoKeys
    /\ unread' = TRUE

Administration == \E k \in Keys : Create(k) \/ Rotate(k) \/ Revoke(k)
Usage == \E k \in Keys : Use(k) \/ StreamOpened(k) \/ StreamClosed(k)
Worker ==
    \/ WorkerStarts
    \/ \E k \in Keys : WorkerReads(k) \/ WorkerReadsRest(k) \/ WorkerRaises(k)
    \/ WorkerWrites

Next ==
    \/ Administration
    \/ Flush
    \/ Usage
    \/ Worker
    \/ CloseBegins
    \/ CloseFlushes
    \/ Crash
    \/ Load
    \/ LoadFails

Spec == Init /\ [][Next]_vars

\* The event loop is not blocked for ever: the worker thread gets through its flush.
Fairness ==
    /\ WF_vars(Flush)
    /\ WF_vars(WorkerStarts)
    /\ \A k \in Keys : WF_vars(WorkerReads(k) \/ WorkerReadsRest(k) \/ WorkerRaises(k))
    /\ WF_vars(WorkerWrites)

LiveSpec == Spec /\ Fairness

-----------------------------------------------------------------------------
(* Properties.                                                               *)

\* Every variable of the store keeps its type; a count of sessions is never negative.
TypeOK ==
    /\ phase \in {"up", "closing", "closed", "aborted", "crashed"}
    /\ DOMAIN records \subseteq Keys /\ \A k \in DOMAIN records : records[k] \in Record(k)
    /\ managed \in BOOLEAN /\ dirty \in BOOLEAN /\ unread \in BOOLEAN
    /\ file.managed \in BOOLEAN /\ DOMAIN file.keys \subseteq Keys
    /\ \A k \in DOMAIN file.keys : file.keys[k] \in Record(k)
    /\ admin \in Keys \cup {Nobody}
    /\ loop \in {"asleep", "flushing", "dead", "cancelled"}
    /\ loop = "flushing" => Dumping
    /\ Dumping => loop \in {"flushing", "cancelled"}
    /\ \A k \in Keys : open[k] \in 0..MaxStreams[k]
    /\ DOMAIN acked \subseteq Keys

\* A key created, rotated or revoked is so in the file once the call has been answered,
\* and stays so through crashes, restarts and flushes of the worker that began before
\* the call; and no restart reopens the service to callers without a key.  A start that
\* cannot read the file begins anew: what was answered before it is not counted on.
AckedIsDurable ==
    \A k \in DOMAIN acked \ {admin} :
        /\ file.managed /\ k \in DOMAIN file.keys
        /\ file.keys[k].secret = acked[k].secret
        /\ file.keys[k].enabled = acked[k].enabled

\* What is not dirty is in the file, however usage, administration and the worker's
\* reading of the records overlap.
CleanIsWritten ==
    phase \in {"up", "closing"} /\ ~dirty /\ ~Dumping /\ ~unread => file = Image

\* A close that does not raise leaves nothing unwritten, even when it cancels the flush
\* task in the middle of a flush.
ClosedIsWritten == phase = "closed" /\ ~unread => file = Image

\* The sessions shown for a key are never more than the streams it has open, through
\* revocations and restarts (they may be fewer: a revoked key counts none).
SessionsNotOvercounted ==
    phase = "up" => \A k \in DOMAIN records : records[k].sessions <= open[k]

\* Usage reaches the file while the flush task lives; one that has died of a flush that
\* raised is not started again, and its usage waits for another call.
UsageReachesFile ==
    \A k \in Keys : \A n \in 1..MaxUses[k] :
        (phase = "up" /\ k \in DOMAIN records /\ records[k].uses = n)
            ~> \/ k \in DOMAIN file.keys /\ file.keys[k].uses >= n
               \/ loop = "dead"
               \/ phase # "up"
=============================================================================
