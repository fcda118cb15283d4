----------------------------- MODULE AsyncLogger -----------------------------
(***************************************************************************)
(* AsyncLogger (AsyncLogger.cc) as the output of Logger (Logger.cc): any   *)
(* thread appends records to buffer_, full buffers go to buffers_, and the *)
(* thread of backend() swaps them out and writes them through a Logging.   *)
(* An owner calls start() and stop(); a FATAL record ends the process.     *)
(*                                                                         *)
(* The unique_lock of backend() lives until the end of an iteration, so    *)
(* mutex_ is free only while backend() waits or is between two iterations. *)
(* running_ is read and written without it.  The records are the numbers   *)
(* 1..accepted, in the order in which append() took them; the spare        *)
(* buffers (nextBuffer_, buffer1, buffer2) only pass memory around, they   *)
(* hold no record when they are used.  No record is longer than a buffer:  *)
(* with a longer one in buffer_ the unsigned difference in append() wraps. *)
(***************************************************************************)
EXTENDS Logging, FiniteSets

CONSTANTS BufferSize,  \* kBufferSize
          MaxBuffers,  \* the 25 of backend()
          MaxRecords, MaxStarts, MaxTime  \* bounds: appends, start() calls, seconds

VARIABLES running,      \* running_
          buffer,       \* buffer_
          buffers,      \* buffers_
          bpc,          \* where backend() is
          toWrite,      \* buffersToWrite
          logging,      \* the local Logging
          opc,          \* where the owner is
          accepted,     \* how many records append() has taken
          dropped,      \* the records that backend() erased
          fatal,        \* a thread is between g_output() and abort()
          up,           \* the process lives
          starts,       \* how often start() has made a thread
          clock         \* time(NULL)

\* A round that drops buffers has two to keep.
ASSUME LoggerAssumption ==
  /\ MaxRecords \in Nat /\ MaxStarts \in Nat /\ MaxTime \in Nat \ {0}
  /\ MaxBuffers \in Nat \ {0}
  /\ \A r \in 0..MaxRecords : SizeOf(r) \in Nat

loggerVars == <<running, buffer, buffers, bpc, toWrite, logging, opc, accepted,
                dropped, fatal, up, starts, clock>>

Notice == 0  \* the record that tells of dropped ones

\* backend() holds mutex_.
Locked == bpc \in {"test", "block", "trim", "write"}

LoggerTypeOK ==
  /\ running \in BOOLEAN /\ fatal \in BOOLEAN /\ up \in BOOLEAN
  /\ buffer \in Seq(1..accepted)
  /\ buffers \in Seq(Seq(1..accepted)) /\ toWrite \in Seq(Seq(1..accepted))
  /\ bpc \in {"none", "check", "lock", "test", "block", "wait", "late", "trim",
              "write", "exit", "done"}
  /\ opc \in {"idle", "notify", "join"}
  /\ accepted \in 0..MaxRecords /\ dropped \subseteq 1..accepted
  /\ starts \in 0..MaxStarts /\ clock \in 1..MaxTime
  /\ Written(logging) \in Seq(0..accepted)

LoggerInit ==
  /\ running = FALSE /\ buffer = <<>> /\ buffers = <<>>
  /\ bpc = "none" /\ toWrite = <<>> /\ logging = Unopened
  /\ opc = "idle" /\ accepted = 0 /\ dropped = {} /\ fatal = FALSE /\ up = TRUE
  /\ starts = 0 /\ clock = 1

------------------------------------------------------------------------------
\* append(): a full buffer is passed on and announced; the notification reaches
\* backend() only if it waits.
Wake == bpc' = IF bpc = "wait" THEN "lock" ELSE bpc

\* Mutant: the record that finds no room goes before the others.
FrontAppendOvertakes(r) ==
  IF BufferSize - TotalSize(buffer) > SizeOf(r)
  THEN buffer' = Append(buffer, r) /\ UNCHANGED <<buffers, bpc>>
  ELSE buffer' = buffer /\ buffers' = Append(buffers, <<r>>) /\ Wake

FrontAppend(r) ==
  IF BufferSize - TotalSize(buffer) > SizeOf(r)
  THEN buffer' = Append(buffer, r) /\ UNCHANGED <<buffers, bpc>>
  ELSE buffer' = <<r>> /\ buffers' = Append(buffers, buffer) /\ Wake

\* ~Logger(): the record goes to g_output, and abort() follows a FATAL one.
LogRecord(isFatal) ==
  /\ up /\ ~fatal /\ ~Locked /\ accepted < MaxRecords
  /\ FrontAppend(accepted + 1)
  /\ accepted' = accepted + 1
  /\ fatal' = isFatal
  /\ UNCHANGED <<running, toWrite, logging, opc, dropped, up, starts, clock>>

\* abort(): g_flush() flushes stdout and not this log.  What stdio holds is lost
\* but for a part that it had written already.
Abort ==
  /\ up /\ fatal /\ up' = FALSE
  /\ \E n \in 0..Len(logging.stdio) :
       logging' = [Flushed([logging EXCEPT !.stdio = SubSeq(@, 1, n)])
                     EXCEPT !.stdio = <<>>]
  /\ UNCHANGED <<running, buffer, buffers, bpc, toWrite, opc, accepted, dropped,
                 fatal, starts, clock>>

------------------------------------------------------------------------------
\* The owner.  A new backend() opens its own Logging.
Start ==
  /\ up /\ opc = "idle" /\ ~running /\ starts < MaxStarts
  /\ running' = TRUE /\ bpc' = "check" /\ starts' = starts + 1
  /\ logging' = NewLogging(logging.files, clock)
  /\ UNCHANGED <<buffer, buffers, toWrite, opc, accepted, dropped, fatal, up, clock>>

StopStores ==
  /\ up /\ opc = "idle" /\ running
  /\ running' = FALSE /\ opc' = "notify"
  /\ UNCHANGED <<buffer, buffers, bpc, toWrite, logging, accepted, dropped, fatal,
                 up, starts, clock>>

StopNotifies ==
  /\ up /\ opc = "notify" /\ opc' = "join" /\ Wake
  /\ UNCHANGED <<running, buffer, buffers, toWrite, logging, accepted, dropped,
                 fatal, up, starts, clock>>

StopJoins ==
  /\ up /\ opc = "join" /\ bpc = "done" /\ opc' = "idle" /\ bpc' = "none"
  /\ UNCHANGED <<running, buffer, buffers, toWrite, logging, accepted, dropped,
                 fatal, up, starts, clock>>

------------------------------------------------------------------------------
\* backend(): `while (running_)`, and the end of the thread.
Check ==
  /\ up /\ bpc = "check" /\ bpc' = IF running THEN "lock" ELSE "exit"
  /\ UNCHANGED <<running, buffer, buffers, toWrite, logging, opc, accepted, dropped,
                 fatal, up, starts, clock>>

Lock ==
  /\ up /\ bpc = "lock" /\ bpc' = "test"
  /\ UNCHANGED <<running, buffer, buffers, toWrite, logging, opc, accepted, dropped,
                 fatal, up, starts, clock>>

\* The front buffer is taken with the full ones, empty or not.
SwapBuffers ==
  /\ toWrite' = Append(buffers, buffer) /\ buffers' = <<>> /\ buffer' = <<>>
  /\ bpc' = "trim"

\* The predicate of wait_for().
Test ==
  /\ up /\ bpc = "test"
  /\ IF buffers # <<>> \/ ~running THEN SwapBuffers
     ELSE bpc' = "block" /\ UNCHANGED <<buffer, buffers, toWrite>>
  /\ UNCHANGED <<running, logging, opc, accepted, dropped, fatal, up, starts, clock>>

\* A notification of stop() between Test and here is lost: stop() holds no lock.
Block ==
  /\ up /\ bpc = "block" /\ bpc' = "wait"
  /\ UNCHANGED <<running, buffer, buffers, toWrite, logging, opc, accepted, dropped,
                 fatal, up, starts, clock>>

\* Mutant: wait() instead of wait_for().
TimeOutNever == up /\ bpc = "gone" /\ UNCHANGED loggerVars

TimeOut ==
  /\ up /\ bpc = "wait" /\ bpc' = "late"
  /\ UNCHANGED <<running, buffer, buffers, toWrite, logging, opc, accepted, dropped,
                 fatal, up, starts, clock>>

\* After a timeout the loop goes on, whatever the predicate says.
LateSwap ==
  /\ up /\ bpc = "late" /\ SwapBuffers
  /\ UNCHANGED <<running, logging, opc, accepted, dropped, fatal, up, starts, clock>>

\* Too many buffers in one round: all but two are erased, and a notice is written.
Trim ==
  /\ up /\ bpc = "trim" /\ bpc' = "write"
  /\ IF Len(toWrite) > MaxBuffers
     THEN /\ logging' = AppendUnlocked(logging, <<Notice>>, clock)
          /\ toWrite' = SubSeq(toWrite, 1, 2)
          /\ dropped' = dropped \cup
               UNION {ToSet(toWrite[i]) : i \in 3..Len(toWrite)}
     ELSE UNCHANGED <<logging, toWrite, dropped>>
  /\ UNCHANGED <<running, buffer, buffers, opc, accepted, fatal, up, starts, clock>>

WriteBuffer ==
  /\ up /\ bpc = "write" /\ toWrite # <<>>
  /\ logging' = AppendUnlocked(logging, Head(toWrite), clock)
  /\ toWrite' = Tail(toWrite)
  /\ UNCHANGED <<running, buffer, buffers, bpc, opc, accepted, dropped, fatal, up,
                 starts, clock>>

\* Mutant: what was written is not flushed.
EndRoundUnflushed ==
  /\ up /\ bpc = "write" /\ toWrite = <<>> /\ bpc' = "check"
  /\ UNCHANGED <<running, buffer, buffers, toWrite, logging, opc, accepted, dropped,
                 fatal, up, starts, clock>>

\* flush() and the end of the iteration, which releases mutex_.
EndRound ==
  /\ up /\ bpc = "write" /\ toWrite = <<>>
  /\ logging' = Flushed(logging) /\ bpc' = "check"
  /\ UNCHANGED <<running, buffer, buffers, toWrite, opc, accepted, dropped, fatal, up,
                 starts, clock>>

\* The last flush() and ~Logging().  There is no last swap.
Exit ==
  /\ up /\ bpc = "exit" /\ bpc' = "done" /\ logging' = Flushed(logging)
  /\ UNCHANGED <<running, buffer, buffers, toWrite, opc, accepted, dropped, fatal, up,
                 starts, clock>>

Backend == \/ Check \/ Lock \/ Test \/ Block \/ TimeOut \/ LateSwap \/ Trim
           \/ WriteBuffer \/ EndRound \/ Exit
Owner == StopNotifies \/ StopJoins

Tick ==
  /\ up /\ clock < MaxTime /\ clock' = clock + 1
  /\ UNCHANGED <<running, buffer, buffers, bpc, toWrite, logging, opc, accepted,
                 dropped, fatal, up, starts>>

LoggerNext ==
  \/ \E isFatal \in BOOLEAN : LogRecord(isFatal)
  \/ Abort \/ Start \/ StopStores \/ Owner \/ Backend \/ Tick

\* backend() and a stop() that has begun are scheduled; nobody has to log, to call
\* start() or stop(), or to abort.
LoggerFairness == WF_loggerVars(Backend) /\ WF_loggerVars(Owner)
LoggerSpec == LoggerInit /\ [][LoggerNext]_loggerVars /\ LoggerFairness
------------------------------------------------------------------------------
\* The records on their way, oldest first.
InFlight == Written(logging) \o FlattenSeq(toWrite) \o FlattenSeq(buffers) \o buffer
\* A notice has no place in the order.
Ordered(s) == \A i, j \in DOMAIN s : i < j /\ s[i] # Notice /\ s[j] # Notice => s[i] < s[j]

\* While the process lives every record is in exactly one place, the files, the
\* buffers or among the dropped ones, and the places hold the records in the order
\* of append() across swaps, rolled files and restarts (AsyncLogger.cc:72,
\* Logging.cc:127).  After abort() the files still hold them in that order.
RecordsConserved ==
  /\ up => /\ Ordered(InFlight)
           /\ (ToSet(InFlight) \ {Notice}) \cup dropped = 1..accepted
           /\ ToSet(InFlight) \cap dropped = {}
  /\ Ordered(OnDisk(logging))

\* An append that finds or leaves the file longer than roolSize_ is followed by a file
\* of the current second: nothing is added to a file that is too long after the second
\* of its name but one last append, since append_unlocked() writes before it looks at
\* the length; in that second a successor would have the same name (Logging.cc:39-41,
\* 127).
RollsWhenFull ==
  [][ /\ logging.writtenBytes > RollSize \/ logging'.writtenBytes > RollSize
      /\ Len(Written(logging')) > Len(Written(logging))
      => Last(logging'.files).name = clock ]_loggerVars

\* Every record reaches its file unless it is dropped, the logger is stopped or the
\* process dies: also one in a buffer that never fills (AsyncLogger.cc:69).
RecordsWritten ==
  \A r \in 1..MaxRecords :
    (accepted >= r) ~> (r \in ToSet(OnDisk(logging)) \cup dropped \/ ~running \/ ~up)

\* stop() returns, although its notification may come before the wait
\* (AsyncLogger.cc:34): the timeout of wait_for() makes up for it.
StopReturns == (opc # "idle") ~> (opc = "idle" \/ ~up)
==============================================================================
