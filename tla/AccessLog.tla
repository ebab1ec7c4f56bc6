------------------------------ MODULE AccessLog ------------------------------
(***************************************************************************)
(* Xray's access log and the three jobs that share it without a lock:      *)
(*                                                                         *)
(*   CheckDeviceLimitJob.parseAccessLog  every 10 s reads on from where it *)
(*       stopped (check_client_ip_job.go; DeviceLimit models what it does  *)
(*       with the lines)                                                   *)
(*   CheckClientIpJob                    every 10 s reads the whole file,  *)
(*       and when a client with a limit is in it, or once an hour, copies  *)
(*       it to the persistent log and truncates it                         *)
(*   ClearLogsJob                        every day copies the persistent   *)
(*       log to the previous one and truncates it (clear_logs_job.go)      *)
(*                                                                         *)
(* Xray appends at any moment.  A line is its number; positions in a file  *)
(* count lines.                                                            *)
(***************************************************************************)
EXTENDS Naturals, Sequences

CONSTANTS
    MaxLines,    \* bound: the lines Xray writes
    MaxFaults    \* bound: failed copies and truncations, restarts of the panel

ASSUME LinesAssumption == MaxLines \in Nat /\ MaxFaults \in Nat

VARIABLES
    written,       \* how many lines Xray has written
    accessLog,     \* the access log
    reader,        \* parseAccessLog: where it is, its place in the file, lastPosition
    read,          \* the lines it has read since the panel started
    readAgain,     \* those it has read more than once
    disturbed,     \* the file was truncated, or written to between a scan and its end
    limiter,       \* where CheckClientIpJob is
    persistent,    \* the persistent log
    rotated,       \* the lines that were copied from it to the previous one
    late,          \* lines written to a file between a copy of it and its truncation
    cleaner,       \* where ClearLogsJob is
    faults         \* copies and truncations that have failed, restarts

readerVars  == <<reader, read, readAgain>>
limiterVars == <<limiter, persistent>>
cleanerVars == <<cleaner, rotated>>
logVars == <<written, accessLog, readerVars, disturbed, limiterVars, late, cleanerVars, faults>>

Lines(file) == {file[i] : i \in DOMAIN file}

Fault(failed) == faults' = faults + (IF failed THEN 1 ELSE 0) /\ faults' <= MaxFaults

LogInit ==
    /\ written = 0 /\ accessLog = <<>>
    /\ reader = [pc |-> "idle", at |-> 0, lastPosition |-> 0]
    /\ read = {} /\ readAgain = {} /\ disturbed = FALSE
    /\ limiter = "idle" /\ persistent = <<>> /\ late = {}
    /\ cleaner = "idle" /\ rotated = {} /\ faults = 0

XrayLogs ==
    /\ written < MaxLines
    /\ written' = written + 1
    /\ accessLog' = Append(accessLog, written + 1)
    /\ disturbed' = (disturbed \/ reader.pc = "end")
    /\ late' = IF limiter = "copied" THEN late \cup {written + 1} ELSE late
    /\ UNCHANGED <<readerVars, limiterVars, cleanerVars, faults>>

(*----------------------------- parseAccessLog ---------------------------*)
Seek ==
    /\ reader.pc = "idle"
    /\ reader' = [reader EXCEPT !.pc = "scan", !.at = reader.lastPosition]
    /\ UNCHANGED <<written, accessLog, read, readAgain, disturbed, limiterVars, late, cleanerVars, faults>>

\* The scanner takes what is there, in one buffer or in several.
Scan(to) ==
    /\ reader.pc = "scan" /\ reader.at < to /\ to <= Len(accessLog)
    /\ LET lines == {accessLog[i] : i \in reader.at + 1 .. to}
       IN  read' = read \cup lines /\ readAgain' = readAgain \cup (read \cap lines)
    /\ reader' = [reader EXCEPT !.at = to]
    /\ UNCHANGED <<written, accessLog, disturbed, limiterVars, late, cleanerVars, faults>>

EndOfFile_Early == \* mistake: a scan that was cut short is taken for a whole one
    /\ reader.pc = "scan"
    /\ reader' = [reader EXCEPT !.pc = "end"]
    /\ UNCHANGED <<written, accessLog, read, readAgain, disturbed, limiterVars, late, cleanerVars, faults>>
EndOfFile ==
    /\ reader.pc = "scan" /\ reader.at >= Len(accessLog)
    /\ reader' = [reader EXCEPT !.pc = "end"]
    /\ UNCHANGED <<written, accessLog, read, readAgain, disturbed, limiterVars, late, cleanerVars, faults>>

\* Mistake: the place is not kept.
SeekEnd_Forgets ==
    /\ reader.pc = "end"
    /\ reader' = [reader EXCEPT !.pc = "idle"]
    /\ UNCHANGED <<written, accessLog, read, readAgain, disturbed, limiterVars, late, cleanerVars, faults>>

\* The next pass goes on from the end of the file as it is now, or from its start
\* when it has become shorter than where this pass began.
SeekEnd ==
    /\ reader.pc = "end"
    /\ reader' = [reader EXCEPT !.pc = "idle",
                                !.lastPosition = IF Len(accessLog) < @ THEN 0 ELSE Len(accessLog)]
    /\ UNCHANGED <<written, accessLog, read, readAgain, disturbed, limiterVars, late, cleanerVars, faults>>

(*---------------------------- CheckClientIpJob --------------------------*)
\* processLogFile, when a client has a limit and Fail2Ban is there: it sees the lines
\* there are, and changes nothing here.
processLogFile ==
    /\ limiter = "idle" /\ limiter' = "counted"
    /\ UNCHANGED <<written, accessLog, readerVars, disturbed, persistent, late, cleanerVars, faults>>

\* No client with a limit was in the file, and it was cleared within the hour.
LeaveLog ==
    /\ limiter = "counted" /\ limiter' = "idle"
    /\ UNCHANGED <<written, accessLog, readerVars, disturbed, persistent, late, cleanerVars, faults>>

\* Mistake: the persistent log is opened without O_APPEND.
clearAccessLog_Overwrites(copied) ==
    /\ limiter \in {"idle", "counted"} /\ limiter' = "copied"
    /\ persistent' = SubSeq(accessLog, 1, copied)
    /\ late' = IF cleaner = "copied" THEN late \cup Lines(SubSeq(accessLog, 1, copied)) ELSE late
    /\ Fault(copied < Len(accessLog))
    /\ UNCHANGED <<written, accessLog, readerVars, disturbed, cleanerVars>>

\* clearAccessLog, after processLogFile or without it: it copies the file, or when
\* that fails nothing or a part ...
clearAccessLog(copied) ==
    /\ limiter \in {"idle", "counted"} /\ limiter' = "copied"
    /\ persistent' = persistent \o SubSeq(accessLog, 1, copied)
    /\ late' = IF cleaner = "copied" THEN late \cup Lines(SubSeq(accessLog, 1, copied)) ELSE late
    /\ Fault(copied < Len(accessLog))
    /\ UNCHANGED <<written, accessLog, readerVars, disturbed, cleanerVars>>

\* ... and truncates it all the same.
Truncate(ok) ==
    /\ limiter = "copied" /\ limiter' = "idle"
    /\ accessLog' = IF ok THEN <<>> ELSE accessLog
    /\ disturbed' = (disturbed \/ ok)
    /\ Fault(~ok)
    /\ UNCHANGED <<written, readerVars, persistent, late, cleanerVars>>

(*------------------------------ ClearLogsJob ----------------------------*)
\* When the previous log cannot be opened the persistent one is left alone.
CopyPrevious ==
    /\ cleaner = "idle" /\ cleaner' = "copied"
    /\ rotated' = rotated \cup Lines(persistent)
    /\ UNCHANGED <<written, accessLog, readerVars, disturbed, limiterVars, late, faults>>

TruncatePersistent(ok) ==
    /\ cleaner = "copied" /\ cleaner' = "idle"
    /\ persistent' = IF ok THEN <<>> ELSE persistent
    /\ Fault(~ok)
    /\ UNCHANGED <<written, accessLog, readerVars, disturbed, limiter, late, rotated>>

\* The panel restarts: the place in the file is forgotten with all that was read.
PanelRestarts ==
    /\ reader' = [pc |-> "idle", at |-> 0, lastPosition |-> 0]
    /\ read' = {} /\ readAgain' = {}
    /\ limiter' = "idle" /\ cleaner' = "idle"
    /\ Fault(TRUE)
    /\ UNCHANGED <<written, accessLog, disturbed, persistent, late, rotated>>

LogNext ==
    \/ XrayLogs \/ Seek \/ EndOfFile \/ SeekEnd
    \/ processLogFile \/ LeaveLog \/ CopyPrevious \/ PanelRestarts
    \/ \E to \in DOMAIN accessLog : Scan(to)
    \/ \E copied \in {0, Len(accessLog)} : clearAccessLog(copied)
    \/ \E ok \in BOOLEAN : Truncate(ok) \/ TruncatePersistent(ok)

LogSpec == LogInit /\ [][LogNext]_logVars

(*------------------------------- properties -----------------------------*)
\* Every variable keeps its type.
LogTypeOK ==
    /\ written \in Nat /\ accessLog \in Seq(1 .. written)
    /\ reader \in [pc : {"idle", "scan", "end"}, at : Nat, lastPosition : Nat]
    /\ read \subseteq 1 .. written /\ readAgain \subseteq read /\ disturbed \in BOOLEAN
    /\ limiter \in {"idle", "counted", "copied"} /\ persistent \in Seq(1 .. written)
    /\ rotated \subseteq 1 .. written /\ late \subseteq 1 .. written
    /\ cleaner \in {"idle", "copied"} /\ faults \in Nat

\* The device-limit job reads no line twice, although the file is truncated under
\* it at any moment and its place in the file then means nothing: an address is
\* not kept alive by a line that is long past.
ReadOnce == readAgain = {}

\* As long as nobody truncates the file, or writes to it between the end of a scan
\* and the seek, the job has read every line before its place.
ReadUpTo == ~disturbed /\ reader.pc = "idle" => \A i \in 1 .. reader.lastPosition : accessLog[i] \in read

\* No line is lost on its way from the access log to the persistent and the previous
\* one, and none is kept twice, while copies and truncations succeed; only what is
\* written to a file between its copy and its truncation may be in neither.
LinesKept ==
    faults = 0 =>
      /\ 1 .. written = Lines(accessLog) \cup Lines(persistent) \cup rotated \cup late
      /\ limiter # "copied" => Lines(accessLog) \cap (Lines(persistent) \cup rotated) = {}
      /\ \A i, j \in DOMAIN persistent : i # j => persistent[i] # persistent[j]

==============================================================================
