--------------------------- MODULE AccessLog_proofs ---------------------------
(***************************************************************************)
(* The device-limit job reads no line of the access log twice, however the *)
(* file is written to and truncated under it, and reads all that is before *)
(* its place; and no line is lost between the logs, or kept twice.         *)
(***************************************************************************)
EXTENDS AccessLog, SequenceTheorems, TLAPS

\* Where the next scan goes on.
Place == IF reader.pc = "idle" THEN reader.lastPosition ELSE reader.at

\* What the argument needs of the types.
LogTypes ==
    /\ written \in Nat /\ accessLog \in Seq(1 .. written)
    /\ reader \in [pc : {"idle", "scan", "end"}, at : Nat, lastPosition : Nat]
    /\ read \subseteq 1 .. written

\* No line is in the file twice.
Distinct == \A i, j \in DOMAIN accessLog : i # j => accessLog[i] # accessLog[j]

\* Beyond the place nothing was read; and when the file is shorter than where the
\* pass began, nothing of it was: it is a new one.
Unread ==
    /\ reader.pc # "idle" => reader.at >= reader.lastPosition
    /\ \A i \in DOMAIN accessLog : i > Place => accessLog[i] \notin read
    /\ Len(accessLog) < reader.lastPosition => \A i \in DOMAIN accessLog : accessLog[i] \notin read

ReadInv == LogTypes /\ Distinct /\ Unread /\ ReadOnce

\* Initially nothing is written and nothing read.
LEMMA InitReads == LogInit => ReadInv
  BY DEF LogInit, ReadInv, LogTypes, Distinct, Unread, Place, ReadOnce

\* A new line is a new number at the end of the file.
LEMMA XrayLogsReads == ReadInv /\ XrayLogs => ReadInv'
<1> SUFFICES ASSUME ReadInv, XrayLogs PROVE ReadInv'
  OBVIOUS
<1> USE DEF ReadInv, LogTypes
<1> DEFINE new == Append(accessLog, written + 1)
<1>1. /\ written' = written + 1 /\ accessLog' = new /\ UNCHANGED <<reader, read, readAgain>>
  BY DEF XrayLogs, readerVars
<1>2. /\ accessLog \in Seq(1 .. written + 1) /\ written + 1 \in 1 .. written + 1
      /\ \A i \in DOMAIN accessLog : accessLog[i] \in 1 .. written
  OBVIOUS
<1>3. /\ new \in Seq(1 .. written + 1) /\ Len(new) = Len(accessLog) + 1
      /\ DOMAIN new = DOMAIN accessLog \cup {Len(accessLog) + 1}
      /\ \A i \in DOMAIN accessLog : new[i] = accessLog[i]
      /\ new[Len(accessLog) + 1] = written + 1
  BY <1>2
<1>4. written + 1 \notin read /\ \A i \in DOMAIN accessLog : accessLog[i] # written + 1
  BY <1>2
<1>5. LogTypes'
  BY <1>1, <1>3
<1>6. Distinct'
  BY <1>1, <1>3, <1>4 DEF Distinct
<1>7. Unread'
  <2>1. \A i \in DOMAIN new : i > Place => new[i] \notin read
    BY <1>3, <1>4 DEF Unread
  <2>2. Len(new) < reader.lastPosition => \A i \in DOMAIN new : new[i] \notin read
    BY <1>3, <1>4 DEF Unread
  <2> QED BY <1>1, <2>1, <2>2 DEF Unread, Place
<1>8. ReadOnce'
  BY <1>1 DEF ReadOnce
<1> QED BY <1>5, <1>6, <1>7, <1>8

\* A pass begins at its place.
LEMMA SeekReads == ReadInv /\ Seek => ReadInv'
<1> SUFFICES ASSUME ReadInv, Seek PROVE ReadInv'
  OBVIOUS
<1> USE DEF ReadInv, LogTypes
<1>1. /\ UNCHANGED <<written, accessLog, read, readAgain>> /\ reader.pc = "idle"
      /\ reader' = [pc |-> "scan", at |-> reader.lastPosition, lastPosition |-> reader.lastPosition]
  BY DEF Seek
<1>2. LogTypes'
  BY <1>1
<1>3. Unread'
  BY <1>1 DEF Unread, Place
<1>4. Distinct' /\ ReadOnce'
  BY <1>1 DEF Distinct, ReadOnce
<1> QED BY <1>2, <1>3, <1>4

\* What a scan takes was not read, and what is left beyond it was not taken.
LEMMA ScanReads == ASSUME NEW to \in DOMAIN accessLog, ReadInv, Scan(to) PROVE ReadInv'
<1> USE DEF ReadInv, LogTypes
<1> DEFINE lines == {accessLog[i] : i \in reader.at + 1 .. to}
<1>1. /\ UNCHANGED <<written, accessLog>> /\ read' = read \cup lines
      /\ readAgain' = readAgain \cup (read \cap lines)
      /\ reader' = [reader EXCEPT !.at = to] /\ reader.pc = "scan" /\ reader.at < to /\ to <= Len(accessLog)
  BY DEF Scan
<1>2. \A i \in reader.at + 1 .. to : i \in DOMAIN accessLog /\ i > Place
  BY <1>1 DEF Place
<1>3. lines \cap read = {}
  BY <1>2 DEF Unread
<1>4. lines \subseteq 1 .. written
  BY <1>2
<1>5. \A j \in DOMAIN accessLog : j > to => accessLog[j] \notin lines
  BY <1>1, <1>2 DEF Distinct
<1>a. reader' = [pc |-> "scan", at |-> to, lastPosition |-> reader.lastPosition] /\ to \in Nat
  BY <1>1
<1>6. LogTypes'
  BY <1>1, <1>4, <1>a
<1>7. Unread'
  <2>1. to >= reader.lastPosition /\ Place = reader.at
    BY <1>1 DEF Unread, Place
  <2>2. \A i \in DOMAIN accessLog : i > to => accessLog[i] \notin read'
    BY <1>1, <1>5, <2>1 DEF Unread
  <2>3. ~(Len(accessLog) < reader.lastPosition)
    BY <1>1, <2>1
  <2> QED BY <1>1, <1>a, <2>1, <2>2, <2>3 DEF Unread, Place
<1>8. Distinct' /\ ReadOnce'
  BY <1>1, <1>3 DEF Distinct, ReadOnce
<1> QED BY <1>6, <1>7, <1>8

\* At the end of the file the place moves to the end, or back to the start of a file
\* of which nothing was read.
LEMMA EndReads == ReadInv /\ (EndOfFile \/ SeekEnd) => ReadInv'
<1> SUFFICES ASSUME ReadInv, EndOfFile \/ SeekEnd PROVE ReadInv'
  OBVIOUS
<1> USE DEF ReadInv, LogTypes, Distinct, Place, ReadOnce
<1>1. CASE EndOfFile
  <2>1. /\ UNCHANGED <<written, accessLog, read, readAgain>> /\ reader.pc = "scan"
        /\ reader' = [pc |-> "end", at |-> reader.at, lastPosition |-> reader.lastPosition]
    BY <1>1 DEF EndOfFile
  <2>2. Unread'
    BY <2>1 DEF Unread
  <2> QED BY <2>1, <2>2
<1>2. CASE SeekEnd
  <2> DEFINE end == IF Len(accessLog) < reader.lastPosition THEN 0 ELSE Len(accessLog)
  <2>a. end \in Nat
    OBVIOUS
  <2>b. /\ UNCHANGED <<written, accessLog, read, readAgain>> /\ reader.pc = "end"
        /\ reader' = [reader EXCEPT !.pc = "idle", !.lastPosition = end]
    BY <1>2 DEF SeekEnd
  <2>1. /\ UNCHANGED <<written, accessLog, read, readAgain>> /\ reader.pc = "end"
        /\ reader' = [pc |-> "idle", at |-> reader.at, lastPosition |-> end] /\ end \in Nat
    BY <2>a, <2>b
  <2>2. \A i \in DOMAIN accessLog : i > end => accessLog[i] \notin read
    BY <2>1 DEF Unread
  <2>3. Unread'
    BY <2>1, <2>2 DEF Unread
  <2>4. LogTypes' /\ Distinct' /\ ReadOnce'
    BY <2>1
  <2> QED BY <2>3, <2>4
<1> QED BY <1>1, <1>2

\* The other jobs leave the file and the reader alone, or empty the file.
LEMMA OthersRead ==
    ASSUME ReadInv, UNCHANGED <<written, readerVars>>, accessLog' \in {accessLog, <<>>}
    PROVE  ReadInv'
<1> USE DEF ReadInv, readerVars
<1>1. LogTypes'
  <2>1. <<>> \in Seq(1 .. written)
    OBVIOUS
  <2> QED BY <2>1 DEF LogTypes
<1>2. CASE accessLog' = accessLog
  BY <1>1, <1>2 DEF Distinct, Unread, Place, ReadOnce
<1>3. CASE accessLog' = <<>>
  <2>1. DOMAIN accessLog' = {}
    BY <1>3
  <2>2. Distinct' /\ Unread' /\ ReadOnce'
    BY <2>1 DEF Distinct, Unread, Place, ReadOnce
  <2> QED BY <1>1, <2>2
<1> QED BY <1>2, <1>3

\* A restart forgets everything that was read.
LEMMA RestartReads == ReadInv /\ PanelRestarts => ReadInv'
  BY DEF PanelRestarts, ReadInv, LogTypes, Distinct, Unread, Place, ReadOnce

\* Every step preserves the invariant.
LEMMA NextReads == ReadInv /\ [LogNext]_logVars => ReadInv'
<1> SUFFICES ASSUME ReadInv, [LogNext]_logVars PROVE ReadInv'
  OBVIOUS
<1>1. CASE processLogFile \/ LeaveLog \/ CopyPrevious
  BY <1>1, OthersRead DEF processLogFile, LeaveLog, CopyPrevious
<1>2. CASE \E copied \in {0, Len(accessLog)} : clearAccessLog(copied)
  BY <1>2, OthersRead DEF clearAccessLog
<1>3. CASE \E ok \in BOOLEAN : Truncate(ok) \/ TruncatePersistent(ok)
  BY <1>3, OthersRead DEF Truncate, TruncatePersistent
<1>4. CASE UNCHANGED logVars
  BY <1>4, OthersRead DEF logVars, readerVars
<1>5. CASE \E to \in DOMAIN accessLog : Scan(to)
  BY <1>5, ScanReads
<1> QED
  BY <1>1, <1>2, <1>3, <1>4, <1>5, XrayLogsReads, SeekReads, EndReads, RestartReads DEF LogNext

\* CheckDeviceLimitJob.parseAccessLog reads every line of the access log at most
\* once, for any number of lines, truncations and failures.
THEOREM LinesReadOnce == LogSpec => []ReadOnce
<1>1. ReadInv => ReadOnce
  BY DEF ReadInv
<1> QED BY <1>1, InitReads, NextReads, PTL DEF LogSpec

(*--------------------------------- types --------------------------------*)
\* Initially.
LEMMA InitLogTypes == LogInit => LogTypeOK
<1> SUFFICES ASSUME LogInit PROVE LogTypeOK
  OBVIOUS
<1>1. /\ written \in Nat /\ accessLog \in Seq(1 .. written) /\ persistent \in Seq(1 .. written)
      /\ reader \in [pc : {"idle", "scan", "end"}, at : Nat, lastPosition : Nat] /\ faults \in Nat
  BY EmptySeq DEF LogInit
<1> QED BY <1>1 DEF LogInit, LogTypeOK

\* A copy is made of lines that were written.
LEMMA Copied ==
    ASSUME NEW S, NEW file \in Seq(S), NEW n \in {0, Len(file)}
    PROVE  SubSeq(file, 1, n) \in Seq(S) /\ (n = Len(file) => SubSeq(file, 1, n) = file)
<1>1. \A i \in 1 .. n : file[i] \in S
  OBVIOUS
<1>2. SubSeq(file, 1, n) \in Seq(S)
  BY <1>1, SubSeqProperties
<1> QED BY <1>2

\* The lines of a file are of its type.
LEMMA LinesOf ==
    ASSUME NEW S, NEW file \in Seq(S)
    PROVE  Lines(file) \subseteq S
  BY DEF Lines

\* What failed is counted.
LEMMA Counted ==
    ASSUME faults \in Nat, NEW failed \in BOOLEAN, Fault(failed)
    PROVE  faults' \in Nat /\ (faults' = 0 => faults = 0 /\ ~failed)
<1>1. CASE failed
  BY <1>1 DEF Fault
<1>2. CASE ~failed
  BY <1>2 DEF Fault
<1> QED BY <1>1, <1>2

\* Every step keeps the types.
LEMMA NextLogTypes == LogTypeOK /\ [LogNext]_logVars => LogTypeOK'
<1> SUFFICES ASSUME LogTypeOK, [LogNext]_logVars PROVE LogTypeOK'
  OBVIOUS
<1> USE DEF LogTypeOK, readerVars, limiterVars, cleanerVars
<1>1. CASE XrayLogs
  <2>1. /\ \A f \in {accessLog, persistent} : f \in Seq(1 .. written + 1)
        /\ written + 1 \in 1 .. written + 1
    OBVIOUS
  <2>2. Append(accessLog, written + 1) \in Seq(1 .. written + 1)
    BY <2>1
  <2> QED BY <1>1, <2>1, <2>2 DEF XrayLogs
<1>2. CASE Seek \/ EndOfFile
  BY <1>2 DEF Seek, EndOfFile
<1>3. CASE SeekEnd
  <2>1. (IF Len(accessLog) < reader.lastPosition THEN 0 ELSE Len(accessLog)) \in Nat
    OBVIOUS
  <2> QED BY <1>3, <2>1 DEF SeekEnd
<1>4. ASSUME NEW to \in DOMAIN accessLog, Scan(to) PROVE LogTypeOK'
  <2>1. {accessLog[i] : i \in reader.at + 1 .. to} \subseteq 1 .. written /\ to \in Nat
    BY <1>4 DEF Scan
  <2> QED BY <1>4, <2>1 DEF Scan
<1>5. CASE processLogFile \/ LeaveLog
  BY <1>5 DEF processLogFile, LeaveLog
<1>6. ASSUME NEW copied \in {0, Len(accessLog)}, clearAccessLog(copied) PROVE LogTypeOK'
  <2>1. SubSeq(accessLog, 1, copied) \in Seq(1 .. written)
    BY Copied
  <2>2. Lines(SubSeq(accessLog, 1, copied)) \subseteq 1 .. written
    BY <2>1, LinesOf
  <2>3. persistent \o SubSeq(accessLog, 1, copied) \in Seq(1 .. written)
    BY <2>1, ConcatProperties
  <2>4. /\ persistent' \in Seq(1 .. written) /\ late' \subseteq 1 .. written
        /\ limiter' = "copied"
    BY <1>6, <2>2, <2>3 DEF clearAccessLog
  <2>6. faults' \in Nat
    <3>1. Fault(copied < Len(accessLog)) /\ (copied < Len(accessLog)) \in BOOLEAN
      BY <1>6 DEF clearAccessLog
    <3> QED BY <3>1, Counted, Zenon
  <2>5. UNCHANGED <<written, accessLog, readerVars, disturbed, cleanerVars>>
    BY <1>6 DEF clearAccessLog
  <2> QED BY <2>4, <2>5, <2>6
<1>7. ASSUME NEW ok \in BOOLEAN, Truncate(ok) \/ TruncatePersistent(ok) PROVE LogTypeOK'
  <2>1. <<>> \in Seq(1 .. written)
    BY EmptySeq
  <2>2. /\ accessLog' \in Seq(1 .. written) /\ persistent' \in Seq(1 .. written)
        /\ limiter' \in {limiter, "idle"} /\ cleaner' \in {cleaner, "idle"}
    BY <1>7, <2>1 DEF Truncate, TruncatePersistent
  <2>4. faults' \in Nat
    BY <1>7, Counted DEF Truncate, TruncatePersistent
  <2>3. disturbed' \in BOOLEAN /\ UNCHANGED <<written, readerVars, late, rotated>>
    BY <1>7 DEF Truncate, TruncatePersistent
  <2> QED BY <2>2, <2>3, <2>4
<1>8. CASE CopyPrevious
  BY <1>8, LinesOf DEF CopyPrevious
<1>9. CASE PanelRestarts
  BY <1>9 DEF PanelRestarts, Fault
<1>a. CASE UNCHANGED logVars
  BY <1>a DEF logVars
<1> QED
  BY <1>1, <1>2, <1>3, <1>4, <1>5, <1>6, <1>7, <1>8, <1>9, <1>a DEF LogNext

\* The files, the jobs and what is remembered of them keep their types.
THEOREM LogTypesKept == LogSpec => []LogTypeOK
  BY InitLogTypes, NextLogTypes, PTL DEF LogSpec

(*-------------------------- what has been read --------------------------*)
\* While nobody disturbs the reader its place is inside the file, everything before
\* it has been read, and at the end of a scan the place is the end of the file.
Followed ==
    ~disturbed =>
      /\ reader.lastPosition <= Len(accessLog)
      /\ reader.pc # "idle" => reader.lastPosition <= reader.at /\ reader.at <= Len(accessLog)
      /\ reader.pc = "end" => reader.at = Len(accessLog)
      /\ \A i \in 1 .. Place : accessLog[i] \in read

\* Every step of the reader, of Xray and of the other jobs preserves it.
LEMMA NextFollowed == LogTypeOK /\ Followed /\ [LogNext]_logVars => Followed'
<1> SUFFICES ASSUME LogTypeOK, Followed, [LogNext]_logVars, ~disturbed' PROVE Followed'
  BY DEF Followed
<1> USE DEF LogTypeOK, Followed, Place, readerVars, limiterVars, cleanerVars
<1>1. CASE XrayLogs
  <2>1. /\ Len(Append(accessLog, written + 1)) = Len(accessLog) + 1
        /\ \A i \in 1 .. Len(accessLog) : Append(accessLog, written + 1)[i] = accessLog[i]
    OBVIOUS
  <2>2. ~disturbed /\ reader.pc # "end" /\ Place <= Len(accessLog)
    BY <1>1 DEF XrayLogs
  <2> QED BY <1>1, <2>1, <2>2 DEF XrayLogs
<1>2. CASE Seek
  <2>1. reader' = [pc |-> "scan", at |-> reader.lastPosition, lastPosition |-> reader.lastPosition]
    BY <1>2 DEF Seek
  <2> QED BY <1>2, <2>1 DEF Seek
<1>9. CASE EndOfFile
  <2>1. reader' = [pc |-> "end", at |-> reader.at, lastPosition |-> reader.lastPosition]
    BY <1>9 DEF EndOfFile
  <2> QED BY <1>9, <2>1 DEF EndOfFile
<1>3. CASE SeekEnd
  <2>1. ~disturbed /\ reader.at = Len(accessLog) /\ ~(Len(accessLog) < reader.lastPosition)
    BY <1>3 DEF SeekEnd
  <2>2. reader' = [reader EXCEPT !.pc = "idle", !.lastPosition = Len(accessLog)]
    BY <1>3, <2>1 DEF SeekEnd
  <2> QED BY <1>3, <2>1, <2>2 DEF SeekEnd
<1>4. ASSUME NEW to \in DOMAIN accessLog, Scan(to) PROVE Followed'
  <2>1. reader' = [reader EXCEPT !.at = to] /\ reader.pc = "scan" /\ reader.at < to /\ ~disturbed
    BY <1>4 DEF Scan
  <2>2. \A i \in 1 .. to : accessLog[i] \in read'
    <3> SUFFICES ASSUME NEW i \in 1 .. to PROVE accessLog[i] \in read'
      OBVIOUS
    <3>1. CASE i <= reader.at
      BY <1>4, <2>1, <3>1 DEF Scan
    <3>2. CASE i > reader.at
      <4>1. i \in reader.at + 1 .. to
        BY <3>2
      <4> QED BY <1>4, <4>1 DEF Scan
    <3> QED BY <3>1, <3>2
  <2> QED BY <1>4, <2>1, <2>2 DEF Scan
<1>5. CASE processLogFile \/ LeaveLog \/ CopyPrevious \/ UNCHANGED logVars
  BY <1>5 DEF processLogFile, LeaveLog, CopyPrevious, logVars
<1>6. ASSUME NEW copied \in {0, Len(accessLog)}, clearAccessLog(copied) PROVE Followed'
  BY <1>6 DEF clearAccessLog
<1>7. ASSUME NEW ok \in BOOLEAN, Truncate(ok) \/ TruncatePersistent(ok) PROVE Followed'
  BY <1>7 DEF Truncate, TruncatePersistent
<1>8. CASE PanelRestarts
  BY <1>8 DEF PanelRestarts
<1> QED
  BY <1>1, <1>2, <1>3, <1>4, <1>5, <1>6, <1>7, <1>8, <1>9 DEF LogNext

\* Between two scans the device-limit job has read every line before its place, as
\* long as nobody truncates the file or writes to it before the seek to its end.
THEOREM LinesReadUpTo == LogSpec => []ReadUpTo
<1>1. LogInit => LogTypeOK /\ Followed
  BY InitLogTypes DEF LogInit, Followed, Place
<1>2. LogTypeOK /\ Followed => ReadUpTo
  BY DEF Followed, ReadUpTo, Place
<1> QED BY <1>1, <1>2, NextLogTypes, NextFollowed, PTL DEF LogSpec

(*---------------------------- what is kept ------------------------------*)
\* Between a copy and its truncation every line of the file that was copied is in the
\* other one as well, or counted among the late.
CopyHeld ==
    faults = 0 =>
      /\ limiter = "copied" => Lines(accessLog) \subseteq Lines(persistent) \cup rotated \cup late
      /\ cleaner = "copied" => Lines(persistent) \subseteq rotated \cup late

KeptInv == LogTypeOK /\ Distinct /\ LinesKept /\ CopyHeld

\* The lines of a file that grows by one line, or by another file.
LEMMA LinesAppend ==
    ASSUME NEW S, NEW file \in Seq(S), NEW line \in S
    PROVE  Lines(Append(file, line)) = Lines(file) \cup {line}
<1> DEFINE new == Append(file, line)
<1>1. /\ DOMAIN new = DOMAIN file \cup {Len(file) + 1} /\ new[Len(file) + 1] = line
      /\ \A i \in DOMAIN file : new[i] = file[i]
  OBVIOUS
<1> QED BY <1>1, Zenon DEF Lines

LEMMA LinesConcat ==
    ASSUME NEW S, NEW one \in Seq(S), NEW two \in Seq(S)
    PROVE  Lines(one \o two) = Lines(one) \cup Lines(two)
<1> DEFINE both == one \o two
<1>1. /\ DOMAIN both = 1 .. Len(one) + Len(two) /\ DOMAIN one = 1 .. Len(one)
      /\ DOMAIN two = 1 .. Len(two) /\ Len(one) \in Nat /\ Len(two) \in Nat
      /\ \A i \in 1 .. Len(one) + Len(two) : both[i] = IF i <= Len(one) THEN one[i] ELSE two[i - Len(one)]
  BY ConcatProperties, LenProperties
<1>2. Lines(both) \subseteq Lines(one) \cup Lines(two)
  BY <1>1 DEF Lines
<1>3. ASSUME NEW i \in DOMAIN one PROVE one[i] \in Lines(both)
  BY <1>1 DEF Lines
<1>4. ASSUME NEW i \in DOMAIN two PROVE two[i] \in Lines(both)
  <2>1. i + Len(one) \in DOMAIN both /\ both[i + Len(one)] = two[i]
    BY <1>1
  <2> QED BY <2>1 DEF Lines
<1> QED BY <1>2, <1>3, <1>4 DEF Lines

\* A line in one file and in no other stays so in the file of both.
LEMMA DistinctConcat ==
    ASSUME NEW S, NEW one \in Seq(S), NEW two \in Seq(S), Lines(one) \cap Lines(two) = {},
           \A i, j \in DOMAIN one : i # j => one[i] # one[j],
           \A i, j \in DOMAIN two : i # j => two[i] # two[j]
    PROVE  \A i, j \in DOMAIN (one \o two) : i # j => (one \o two)[i] # (one \o two)[j]
<1> DEFINE both == one \o two
<1>1. /\ DOMAIN both = 1 .. Len(one) + Len(two) /\ DOMAIN one = 1 .. Len(one)
      /\ DOMAIN two = 1 .. Len(two) /\ Len(one) \in Nat /\ Len(two) \in Nat
      /\ \A i \in 1 .. Len(one) + Len(two) : both[i] = IF i <= Len(one) THEN one[i] ELSE two[i - Len(one)]
  BY ConcatProperties, LenProperties
<1>2. \A i \in DOMAIN one, j \in DOMAIN two : one[i] # two[j]
  BY DEF Lines
<1> SUFFICES ASSUME NEW i \in DOMAIN both, NEW j \in DOMAIN both, i # j PROVE both[i] # both[j]
  OBVIOUS
<1> HIDE DEF both
<1>3. CASE i <= Len(one) /\ j <= Len(one)
  BY <1>1, <1>3
<1>4. CASE i > Len(one) /\ j > Len(one)
  <2>1. /\ i - Len(one) \in DOMAIN two /\ j - Len(one) \in DOMAIN two
        /\ i - Len(one) # j - Len(one)
    BY <1>1, <1>4
  <2>2. both[i] = two[i - Len(one)] /\ both[j] = two[j - Len(one)]
    BY <1>1, <1>4
  <2> QED BY <2>1, <2>2
<1>5. CASE i <= Len(one) /\ j > Len(one)
  BY <1>1, <1>2, <1>5
<1>6. CASE i > Len(one) /\ j <= Len(one)
  BY <1>1, <1>2, <1>6
<1> QED BY <1>1, <1>3, <1>4, <1>5, <1>6

\* Initially there is nothing to lose.
LEMMA InitKept == LogInit => KeptInv
<1> SUFFICES ASSUME LogInit PROVE KeptInv
  OBVIOUS
<1>1. Lines(<<>>) = {} /\ DOMAIN <<>> = {} /\ 1 .. 0 = {}
  BY DEF Lines
<1>2. /\ written = 0 /\ accessLog = <<>> /\ persistent = <<>> /\ rotated = {} /\ late = {}
      /\ limiter = "idle" /\ cleaner = "idle"
  BY DEF LogInit
<1>3. LinesKept
  BY <1>1, <1>2 DEF LinesKept
<1>4. Distinct /\ CopyHeld
  BY <1>1, <1>2 DEF Distinct, CopyHeld
<1> QED BY <1>3, <1>4, InitLogTypes DEF KeptInv

\* A new line is in the access log, and late when that was copied already.
LEMMA XrayLogsKeeps == KeptInv /\ XrayLogs => LinesKept' /\ CopyHeld'
<1> SUFFICES ASSUME KeptInv, XrayLogs PROVE LinesKept' /\ CopyHeld'
  OBVIOUS
<1> DEFINE line == written + 1
<1>1. /\ written \in Nat /\ written' = line /\ accessLog' = Append(accessLog, line)
      /\ late' = (IF limiter = "copied" THEN late \cup {line} ELSE late)
      /\ UNCHANGED <<limiter, persistent, cleaner, rotated, faults>>
  BY DEF KeptInv, LogTypeOK, XrayLogs, limiterVars, cleanerVars
<1>2. 1 .. line = (1 .. written) \cup {line}
  BY <1>1
<1>3. Lines(accessLog') = Lines(accessLog) \cup {line}
  <2>1. accessLog \in Seq(1 .. line) /\ line \in 1 .. line
    BY DEF KeptInv, LogTypeOK
  <2>2. Lines(Append(accessLog, line)) = Lines(accessLog) \cup {line}
    BY <2>1, LinesAppend
  <2> QED BY <1>1, <2>2
<1>4. line \notin Lines(persistent) \cup rotated
  <2>1. line \notin 1 .. written
    BY <1>1
  <2>2. Lines(persistent) \subseteq 1 .. written /\ rotated \subseteq 1 .. written
    BY LinesOf DEF KeptInv, LogTypeOK
  <2> QED BY <2>1, <2>2
<1>5. LinesKept /\ CopyHeld
  BY DEF KeptInv
<1> HIDE DEF line
<1>6. LinesKept'
  BY <1>1, <1>2, <1>3, <1>4, <1>5 DEF LinesKept
<1>7. CopyHeld'
  BY <1>1, <1>3, <1>5 DEF CopyHeld
<1> QED BY <1>6, <1>7

\* A copy that succeeds puts every line of the access log into the persistent one.
LEMMA CopyKeeps ==
    ASSUME KeptInv, NEW copied \in {0, Len(accessLog)}, clearAccessLog(copied)
    PROVE  LinesKept' /\ CopyHeld'
<1>1. /\ limiter # "copied" /\ limiter' = "copied"
      /\ UNCHANGED <<written, accessLog, cleaner, rotated>>
  BY DEF clearAccessLog, cleanerVars
<1>t. accessLog \in Seq(1 .. written) /\ persistent \in Seq(1 .. written) /\ faults \in Nat
  BY DEF KeptInv, LogTypeOK
<1>2. SUFFICES ASSUME faults' = 0 PROVE LinesKept' /\ CopyHeld'
  BY DEF LinesKept, CopyHeld
<1>3. faults = 0 /\ copied = Len(accessLog)
  <2>1. Fault(copied < Len(accessLog)) /\ (copied < Len(accessLog)) \in BOOLEAN
    BY DEF clearAccessLog
  <2>2. faults = 0 /\ ~(copied < Len(accessLog))
    BY <1>t, <1>2, <2>1, Counted, Zenon
  <2> QED BY <1>t, <2>2
<1>4. SubSeq(accessLog, 1, copied) = accessLog
  BY <1>t, <1>3, Copied
<1>5. /\ persistent' = persistent \o accessLog
      /\ late' = (IF cleaner = "copied" THEN late \cup Lines(accessLog) ELSE late)
  BY <1>4 DEF clearAccessLog
<1>6. Lines(persistent') = Lines(persistent) \cup Lines(accessLog)
  BY <1>t, <1>5, LinesConcat
<1>7. /\ 1 .. written = Lines(accessLog) \cup Lines(persistent) \cup rotated \cup late
      /\ Lines(accessLog) \cap (Lines(persistent) \cup rotated) = {}
      /\ \A i, j \in DOMAIN persistent : i # j => persistent[i] # persistent[j]
      /\ cleaner = "copied" => Lines(persistent) \subseteq rotated \cup late
      /\ \A i, j \in DOMAIN accessLog : i # j => accessLog[i] # accessLog[j]
  BY <1>1, <1>3 DEF KeptInv, LinesKept, CopyHeld, Distinct
<1>8. \A i, j \in DOMAIN persistent' : i # j => persistent'[i] # persistent'[j]
  <2>1. Lines(persistent) \cap Lines(accessLog) = {}
    BY <1>7
  <2>2. \A i, j \in DOMAIN (persistent \o accessLog) :
             i # j => (persistent \o accessLog)[i] # (persistent \o accessLog)[j]
    BY <1>t, <1>7, <2>1, DistinctConcat
  <2> QED BY <1>5, <2>2
<1>9. LinesKept'
  BY <1>1, <1>5, <1>6, <1>7, <1>8 DEF LinesKept
<1>a. CopyHeld'
  BY <1>1, <1>5, <1>6, <1>7 DEF CopyHeld
<1> QED BY <1>9, <1>a

\* What is emptied was copied before; a truncation that fails is a fault.
LEMMA TruncateKeeps ==
    ASSUME KeptInv, NEW ok \in BOOLEAN, Truncate(ok) \/ TruncatePersistent(ok)
    PROVE  LinesKept' /\ CopyHeld'
<1>1. SUFFICES ASSUME faults' = 0 PROVE LinesKept' /\ CopyHeld'
  BY DEF LinesKept, CopyHeld
<1>2. faults = 0 /\ ok
  <2>1. Fault(~ok) /\ faults \in Nat
    BY DEF KeptInv, LogTypeOK, Truncate, TruncatePersistent
  <2> QED BY <1>1, <2>1, Counted
<1>3. Lines(<<>>) = {} /\ DOMAIN <<>> = {}
  BY DEF Lines
<1>4. UNCHANGED <<written, rotated, late>>
  BY DEF Truncate, TruncatePersistent, cleanerVars
<1>5. LinesKept /\ CopyHeld
  BY DEF KeptInv
<1>6. CASE Truncate(ok)
  <2>1. limiter = "copied" /\ limiter' = "idle" /\ accessLog' = <<>> /\ UNCHANGED <<persistent, cleaner>>
    BY <1>2, <1>6 DEF Truncate, cleanerVars
  <2> QED BY <1>2, <1>3, <1>4, <1>5, <2>1 DEF LinesKept, CopyHeld
<1>7. CASE TruncatePersistent(ok)
  <2>1. cleaner = "copied" /\ cleaner' = "idle" /\ persistent' = <<>> /\ UNCHANGED <<accessLog, limiter>>
    BY <1>2, <1>7 DEF TruncatePersistent
  <2> QED BY <1>2, <1>3, <1>4, <1>5, <2>1 DEF LinesKept, CopyHeld
<1> QED BY <1>6, <1>7

\* Every step preserves the invariant.
LEMMA NextKept == ReadInv /\ KeptInv /\ [LogNext]_logVars => KeptInv'
<1> SUFFICES ASSUME ReadInv, KeptInv, [LogNext]_logVars PROVE KeptInv'
  OBVIOUS
<1> USE DEF readerVars, limiterVars, cleanerVars
<1>1. LogTypeOK' /\ Distinct'
  BY NextLogTypes, NextReads DEF KeptInv, ReadInv
<1>2. CASE Seek \/ EndOfFile \/ SeekEnd \/ UNCHANGED logVars
  BY <1>1, <1>2 DEF KeptInv, LinesKept, CopyHeld, Seek, EndOfFile, SeekEnd, logVars
<1>3. CASE \E to \in DOMAIN accessLog : Scan(to)
  BY <1>1, <1>3 DEF KeptInv, LinesKept, CopyHeld, Scan
<1>4. CASE processLogFile \/ LeaveLog
  BY <1>1, <1>4 DEF KeptInv, LinesKept, CopyHeld, processLogFile, LeaveLog
<1>5. CASE CopyPrevious
  BY <1>1, <1>5 DEF KeptInv, LinesKept, CopyHeld, CopyPrevious
<1>6. CASE PanelRestarts
  <2>1. faults' # 0
    BY <1>6, Counted DEF PanelRestarts, KeptInv, LogTypeOK
  <2> QED BY <1>1, <2>1 DEF KeptInv, LinesKept, CopyHeld
<1>7. LinesKept' /\ CopyHeld'
  BY <1>2, <1>3, <1>4, <1>5, <1>6, XrayLogsKeeps, CopyKeeps, TruncateKeeps DEF LogNext, KeptInv
<1> QED BY <1>1, <1>7 DEF KeptInv

\* No line is lost between the access log, the persistent and the previous one, and
\* none is kept twice, as long as copies and truncations succeed.
THEOREM NoLineLost == LogSpec => []LinesKept
<1>1. KeptInv => LinesKept
  BY DEF KeptInv
<1> QED BY <1>1, InitReads, NextReads, InitKept, NextKept, PTL DEF LogSpec

================================================================================
