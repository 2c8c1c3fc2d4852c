------------------------------ MODULE AuditQueue ------------------------------
(***************************************************************************)
(* The path of an audit entry from the request that emits it to the        *)
(* audit_logs table, through the buffered channel and its worker, and the  *)
(* orderly shutdown of the process.  An entry is named by the goroutine    *)
(* that emits it: an HTTP request, or the hourly clean-up (Purge), which   *)
(* the shutdown tells to stop but does not wait for.                       *)
(***************************************************************************)
EXTENDS Naturals, Sequences

CONSTANTS Requests, Purge,  \* the goroutines that emit an entry
          Buffer,           \* auditBufferSize
          NoEntry

ASSUME BufferAssumption == Buffer \in Nat
ASSUME EmitterAssumption == Purge \notin Requests /\ NoEntry \notin Requests \cup {Purge}

Emitters == Requests \cup {Purge}

VARIABLES
    pc,             \* per emitter
    queue, closed,  \* the channel logCh
    writing,        \* the entry the worker is persisting
    workerDone,     \* the channel done is closed
    stored,         \* rows of audit_logs, in insertion order
    reported,       \* entries whose write returned an error, which was logged
    fallbackCount, droppedCount,
    dbOpen,
    main            \* how far the process has come

vars == <<pc, queue, closed, writing, workerDone, stored, reported,
          fallbackCount, droppedCount, dbOpen, main>>

Ended == {"exited", "forced", "panicked"}
Running == main \notin Ended

\* A write by the store: it succeeds, fails, or fails after the row was committed,
\* as when the deadline passes while COMMIT is under way.
Create(e, failed) ==
    /\ ~dbOpen => failed
    /\ \/ stored' = Append(stored, e) /\ dbOpen
       \/ failed /\ UNCHANGED stored
    /\ reported' = IF failed THEN reported \cup {e} ELSE reported

---------------------------------------------------------------------------
(* Emitters. *)

\* The server accepts a request until Shutdown closes its listener.
Accept(r) ==
    /\ pc[r] = "idle" /\ main = "serving"
    /\ pc' = [pc EXCEPT ![r] = "working"]
    /\ UNCHANGED <<queue, closed, writing, workerDone, stored, reported,
                   fallbackCount, droppedCount, dbOpen, main>>

\* The clean-up's ticker fires; a tick that is due may still win the select against
\* the stop signal.
Tick ==
    /\ pc[Purge] = "idle"
    /\ pc' = [pc EXCEPT ![Purge] = "working"]
    /\ UNCHANGED <<queue, closed, writing, workerDone, stored, reported,
                   fallbackCount, droppedCount, dbOpen, main>>

\* Nothing to audit: the request only reads, or no log rows were old enough.
Quiet(e) ==
    /\ pc[e] = "working"
    /\ pc' = [pc EXCEPT ![e] = "quiet"]
    /\ UNCHANGED <<queue, closed, writing, workerDone, stored, reported,
                   fallbackCount, droppedCount, dbOpen, main>>

StopPurge ==
    /\ pc[Purge] = "idle" /\ main \in {"closeQueue", "await", "closeDB", "exiting"}
    /\ pc' = [pc EXCEPT ![Purge] = "quiet"]
    /\ UNCHANGED <<queue, closed, writing, workerDone, stored, reported,
                   fallbackCount, droppedCount, dbOpen, main>>

\* Mutant: a full buffer drops the entry.
LossyLog(e) ==
    /\ pc[e] = "working"
    /\ pc' = [pc EXCEPT ![e] = "logged"]
    /\ queue' = IF Len(queue) < Buffer THEN Append(queue, e) ELSE queue
    /\ UNCHANGED <<closed, writing, workerDone, stored, reported, fallbackCount,
                   droppedCount, dbOpen, main>>

\* Mutant: the fallback is not counted.
UncountedLog(e) ==
    /\ pc[e] = "working"
    /\ pc' = [pc EXCEPT ![e] = IF Len(queue) < Buffer THEN "logged" ELSE "fallback"]
    /\ queue' = IF Len(queue) < Buffer THEN Append(queue, e) ELSE queue
    /\ UNCHANGED <<closed, writing, workerDone, stored, reported, fallbackCount,
                   droppedCount, dbOpen, main>>

\* The select of log: send if the buffer has room, else write synchronously.  A
\* send on the closed channel panics, which ends the process.
Log(e) ==
    /\ pc[e] = "working"
    /\ IF closed
       THEN main' = "panicked" /\ UNCHANGED <<pc, queue, fallbackCount>>
       ELSE IF Len(queue) < Buffer
       THEN /\ pc' = [pc EXCEPT ![e] = "logged"]
            /\ queue' = Append(queue, e) /\ UNCHANGED <<fallbackCount, main>>
       ELSE /\ pc' = [pc EXCEPT ![e] = "fallback"]
            /\ fallbackCount' = fallbackCount + 1 /\ UNCHANGED <<queue, main>>
    /\ UNCHANGED <<closed, writing, workerDone, stored, reported, droppedCount, dbOpen>>

Fallback(e) ==
    /\ pc[e] = "fallback"
    /\ pc' = [pc EXCEPT ![e] = "logged"]
    /\ \E failed \in BOOLEAN :
         /\ Create(e, failed)
         /\ droppedCount' = IF failed THEN droppedCount + 1 ELSE droppedCount
    /\ UNCHANGED <<queue, closed, writing, workerDone, fallbackCount, dbOpen, main>>

---------------------------------------------------------------------------
(* The worker. *)

Take ==
    /\ writing = NoEntry /\ queue # <<>> /\ ~workerDone
    /\ writing' = Head(queue) /\ queue' = Tail(queue)
    /\ UNCHANGED <<pc, closed, workerDone, stored, reported, fallbackCount,
                   droppedCount, dbOpen, main>>

\* Mutant: an entry whose write failed is tried again.
RetryingPersist ==
    /\ writing # NoEntry
    /\ \E failed \in BOOLEAN :
         /\ Create(writing, failed)
         /\ writing' = IF failed THEN writing ELSE NoEntry
    /\ UNCHANGED <<pc, queue, closed, workerDone, fallbackCount, droppedCount, dbOpen, main>>

\* Mutant: the worker gives up on the first error.
QuittingPersist ==
    /\ writing # NoEntry
    /\ \E failed \in BOOLEAN : Create(writing, failed) /\ workerDone' = failed
    /\ writing' = NoEntry
    /\ UNCHANGED <<pc, queue, closed, fallbackCount, droppedCount, dbOpen, main>>

\* An error is logged and the entry given up; only the fallback counts it.
Persist ==
    /\ writing # NoEntry
    /\ \E failed \in BOOLEAN : Create(writing, failed)
    /\ writing' = NoEntry
    /\ UNCHANGED <<pc, queue, closed, workerDone, fallbackCount, droppedCount, dbOpen, main>>

\* Mutant: the worker leaves as soon as the channel is closed.
HastyStop ==
    /\ closed /\ writing = NoEntry /\ ~workerDone /\ workerDone' = TRUE
    /\ UNCHANGED <<pc, queue, closed, writing, stored, reported, fallbackCount,
                   droppedCount, dbOpen, main>>

\* The range loop ends once the channel is closed and empty.
Stop ==
    /\ closed /\ queue = <<>> /\ writing = NoEntry /\ ~workerDone
    /\ workerDone' = TRUE
    /\ UNCHANGED <<pc, queue, closed, writing, stored, reported, fallbackCount,
                   droppedCount, dbOpen, main>>

---------------------------------------------------------------------------
(* The shutdown. *)

Proceed(from, to) ==
    /\ main = from /\ main' = to
    /\ UNCHANGED <<pc, queue, writing, workerDone, stored, reported, fallbackCount, droppedCount>>

Signal == Proceed("serving", "draining") /\ UNCHANGED <<closed, dbOpen>>

\* srv.Shutdown returns once no request is being handled ...
HTTPDrained ==
    /\ \A r \in Requests : pc[r] \notin {"working", "fallback"}
    /\ Proceed("draining", "stopCleanup") /\ UNCHANGED <<closed, dbOpen>>

\* ... or after 30 seconds with an error, and os.Exit(1) follows.
HTTPTimeout ==
    /\ \E r \in Requests : pc[r] \in {"working", "fallback"}
    /\ Proceed("draining", "forced") /\ UNCHANGED <<closed, dbOpen>>

\* close(sessionCleanupDone) and the rate limiters' Stop: signals, not waited for.
StopCleanup == Proceed("stopCleanup", "closeQueue") /\ UNCHANGED <<closed, dbOpen>>

\* Mutant: Shutdown waits without closing the channel.
UnclosedQueue == Proceed("closeQueue", "await") /\ UNCHANGED <<closed, dbOpen>>

CloseQueue == Proceed("closeQueue", "await") /\ closed' = TRUE /\ UNCHANGED dbOpen

\* Mutant: Shutdown does not wait for the worker.
UnawaitedWorker == Proceed("await", "closeDB") /\ UNCHANGED <<closed, dbOpen>>

AwaitWorker == workerDone /\ Proceed("await", "closeDB") /\ UNCHANGED <<closed, dbOpen>>

CloseDB == Proceed("closeDB", "exiting") /\ dbOpen' = FALSE /\ UNCHANGED closed

Exit == Proceed("exiting", "exited") /\ UNCHANGED <<closed, dbOpen>>

---------------------------------------------------------------------------

Init ==
    /\ pc = [e \in Emitters |-> "idle"]
    /\ queue = <<>> /\ closed = FALSE /\ writing = NoEntry /\ workerDone = FALSE
    /\ stored = <<>> /\ reported = {}
    /\ fallbackCount = 0 /\ droppedCount = 0
    /\ dbOpen = TRUE /\ main = "serving"

Handle(e) == Running /\ (Quiet(e) \/ Log(e) \/ Fallback(e))
Worker == Running /\ (Take \/ Persist \/ Stop)
Shutdown == Running /\ (HTTPDrained \/ HTTPTimeout \/ StopCleanup \/ CloseQueue
                        \/ AwaitWorker \/ CloseDB \/ Exit)

Finished == ~Running /\ UNCHANGED vars

Next ==
    \/ Running /\ ((\E r \in Requests : Accept(r)) \/ Tick \/ StopPurge \/ Signal)
    \/ \E e \in Emitters : Handle(e)
    \/ Worker \/ Shutdown \/ Finished

Spec == Init /\ [][Next]_vars

\* Handlers and the worker get to run, every database call returns by its deadline,
\* and so does srv.Shutdown.  Nothing makes a request or the signal arrive.
FairSpec == Spec /\ WF_vars(Worker) /\ WF_vars(Shutdown)

---------------------------------------------------------------------------
(* Properties. *)

\* Types, the buffer's limit, and no fallback without its count.
TypeOK ==
    /\ pc \in [Emitters -> {"idle", "working", "fallback", "logged", "quiet"}]
    /\ queue \in Seq(Emitters) /\ Len(queue) <= Buffer
    /\ stored \in Seq(Emitters) /\ reported \subseteq Emitters
    /\ writing \in Emitters \cup {NoEntry}
    /\ fallbackCount \in Nat /\ droppedCount \in 0..fallbackCount
    /\ {closed, workerDone, dbOpen} \subseteq BOOLEAN

Among(s) == {s[i] : i \in 1..Len(s)}

\* An entry that log has taken over is waiting, being written, in the table, or its
\* loss has been reported: a full buffer, a failing database and a shutdown that
\* races with the request lose none of them silently.
NothingVanishes ==
    \A e \in Emitters : pc[e] = "logged" =>
        e \in Among(queue) \cup {writing} \cup Among(stored) \cup reported

\* No entry gets two rows, although a write that failed may have left one.
StoredOnce == \A i, j \in 1..Len(stored) : stored[i] = stored[j] => i = j

\* The order of the shutdown: while a request or the worker may still write, the
\* channel they write through and the database under it are open.
NoWriteAfterClose ==
    /\ closed => \A r \in Requests : pc[r] \notin {"working", "fallback"}
    /\ ~dbOpen => queue = <<>> /\ writing = NoEntry

\* A graceful exit leaves no entry of a request behind.
DrainedOnExit ==
    main \in {"closeDB", "exiting", "exited"} =>
        /\ queue = <<>> /\ writing = NoEntry
        /\ \A r \in Requests : pc[r] = "logged" => r \in Among(stored) \cup reported

\* A process that was told to stop stops, however full the buffer is.
ShutdownTerminates == main = "draining" ~> ~Running

\* An entry in the buffer gets its row or its error report unless the process dies.
EntriesSettle ==
    \A e \in Emitters :
        e \in Among(queue) ~> (e \in Among(stored) \cup reported \/ main \in {"forced", "panicked"})

\* The comment on Shutdown: it closes the channel and waits for the worker to drain
\* it, so a process that got that far ends with an empty buffer.
ShutdownDrains == ~Running /\ closed => queue = <<>> /\ writing = NoEntry
=============================================================================
