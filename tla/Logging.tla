------------------------------- MODULE Logging -------------------------------
(***************************************************************************)
(* Logging (Logging.cc): a log file that is closed and replaced by a new   *)
(* one when it is too long or when a new day begins.  The class keeps no   *)
(* thread of its own: its object is a value, and its member functions are  *)
(* operators from one value and the time to the next.  AsyncLogger owns    *)
(* one; a Logging that is shared (threadSave_) does the same under mutex_. *)
(*                                                                         *)
(* A record of the log is a number and as long as SizeOf says.  Writing    *)
(* never fails (the error branch of writeToFile() drops the rest of a      *)
(* record and goes on), and the clock is read once per call where the code *)
(* reads it up to two times.                                               *)
(***************************************************************************)
EXTENDS Naturals, Sequences, SequencesExt

CONSTANTS SizeOf(_),      \* the length of a record
          RollSize,       \* roolSize_
          FlushInterval,  \* flushInterval_, in seconds
          CheckEveryN,    \* checkEveryN_
          Day             \* kRollPerSeconds_

ASSUME LoggingAssumption == RollSize \in Nat

TotalSize(records) ==
  LET total[n \in 0 .. Len(records)] ==
        IF n = 0 THEN 0 ELSE total[n - 1] + SizeOf(records[n])
  IN  total[Len(records)]

\* files: every file so far, the last one is fp_, `name` the second in its name
\* and `data` what has reached it; stdio: the buffer of fp_ (buffer_).
Unopened == [files |-> <<>>, stdio |-> <<>>, writtenBytes |-> 0, count |-> 0,
             lastRoll |-> 0, lastFlush |-> 0, startOfPeriod |-> 0]

\* fflush(fp_), and what fclose(fp_) does first.
Flushed(l) ==
  IF l.stdio = <<>> THEN l
  ELSE [l EXCEPT !.files[Len(l.files)].data = @ \o l.stdio, !.stdio = <<>>]

\* fopen(name, "ae"): a file of that name is continued.
Opened(files, now) ==
  IF files # <<>> /\ Last(files).name = now THEN files
  ELSE Append(files, [name |-> now, data |-> <<>>])

\* The second in which the day of a time began.
DayOf(now) == (now \div Day) * Day

\* The name of a file has a resolution of a second, so no file is opened before
\* the second of the last one is over.
RollFile(l, now) ==
  IF now > l.lastRoll
  THEN [Flushed(l) EXCEPT !.files = Opened(@, now), !.writtenBytes = 0,
          !.lastRoll = now, !.lastFlush = now, !.startOfPeriod = DayOf(now)]
  ELSE l

WriteToFile(l, records) ==
  [l EXCEPT !.stdio = @ \o records, !.writtenBytes = @ + TotalSize(records)]

\* Every checkEveryN_ appends: a new day rolls the file, an old flush is renewed.
Checked(l, now) ==
  IF DayOf(now) # l.startOfPeriod THEN RollFile(l, now)
  ELSE IF now - l.lastFlush > FlushInterval THEN [Flushed(l) EXCEPT !.lastFlush = now]
  ELSE l

\* Mutant: the length is looked at only with the time, every checkEveryN_ appends.
AppendUnlockedRarely(l, records, now) ==
  LET w == WriteToFile(l, records)
  IN  IF w.count + 1 < CheckEveryN THEN [w EXCEPT !.count = @ + 1]
      ELSE IF w.writtenBytes > RollSize THEN RollFile([w EXCEPT !.count = 0], now)
      ELSE Checked([w EXCEPT !.count = 0], now)

AppendUnlocked(l, records, now) ==
  LET w == WriteToFile(l, records)
  IN  IF w.writtenBytes > RollSize THEN RollFile(w, now)
      ELSE IF w.count + 1 >= CheckEveryN THEN Checked([w EXCEPT !.count = 0], now)
      ELSE [w EXCEPT !.count = @ + 1]

\* The constructor, in a directory with the files of earlier objects.
NewLogging(files, now) == RollFile([Unopened EXCEPT !.files = files], now)

\* What a reader of all the files sees, and what has been written to fp_.
OnDisk(l) == FlattenSeq([i \in DOMAIN l.files |-> l.files[i].data])
Written(l) == OnDisk(l) \o l.stdio
==============================================================================
