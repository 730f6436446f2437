-------------------------------- MODULE Logd --------------------------------
(***************************************************************************)
(* logd (crates/logd/src/main.rs): a read loop turns datagrams into entries *)
(* and hands them to a writer task, which appends them to a file per day    *)
(* through tokio's buffered file.                                           *)
(* When the file has reached the maximal size the writer opens "the" file   *)
(* again: it has the same name, and grows on.                               *)
(***************************************************************************)
EXTENDS Naturals, Sequences

CONSTANTS
  MaxEntries,   \* bound: datagrams received
  MaxDays,      \* bound: days
  MaxFileSize   \* MAX_FILE_SIZE, counted in entries

ASSUME LogdAssumption ==
  MaxEntries \in Nat /\ MaxDays \in Nat \ {0} /\ MaxFileSize \in Nat \ {0}

VARIABLES
  logToday,    \* the date
  logReceived, \* entries received so far; an entry is its number
  logQueue,    \* the channel to the writer
  logOpen,     \* current_file is Some
  logDate,     \* current_date, 0 for ""
  logSize,     \* current_size
  logFlight,   \* the entry that current_file is writing, 0 for none
  logBad,      \* the last write of current_file has failed
  logLate,     \* writes of files that were replaced, not yet carried out
  logFiles,    \* date -> entries in the file of that date
  logFailed,   \* an open or a write has failed
  logKmsg      \* entries also written to the kernel's log

fileVars == <<logOpen, logDate, logSize>>
writeVars == <<logFlight, logBad, logLate, logFiles, logFailed>>
logVars == <<logToday, logReceived, logQueue, fileVars, writeVars, logKmsg>>

LogdInit ==
  /\ logToday = 1
  /\ logReceived = 0
  /\ logQueue = <<>>
  /\ logOpen = FALSE
  /\ logDate = 0
  /\ logSize = 0
  /\ logFlight = 0
  /\ logBad = FALSE
  /\ logLate = {}
  /\ logFiles = [d \in 1 .. MaxDays |-> <<>>]
  /\ logFailed = FALSE
  /\ logKmsg = {}

(* A datagram is read; one that is no LogEntry becomes one of level INFO.   *)
(* Errors go to /dev/kmsg as well.                                          *)
Receive(level) ==
  /\ logReceived < MaxEntries
  /\ logReceived' = logReceived + 1
  /\ logQueue' = Append(logQueue, logReceived + 1)
  /\ logKmsg' = IF level = "ERROR" THEN logKmsg \cup {logReceived + 1}
                                   ELSE logKmsg
  /\ UNCHANGED <<logToday, fileVars, writeVars>>

Midnight ==
  /\ logToday < MaxDays
  /\ logToday' = logToday + 1
  /\ UNCHANGED <<logReceived, logQueue, fileVars, writeVars, logKmsg>>

Rotates == logDate # logToday \/ logSize >= MaxFileSize

(* Fault: the file is truncated when it is opened.                          *)
OpenedTruncating(files) == [files EXCEPT ![logToday] = <<>>]

(* open_log_file: create and append.                                        *)
Opened(files) == files

(* The writer takes the next entry, rotates if it must and begins to write. *)
(* tokio's file carries a write out in the background: the next write of    *)
(* the same file waits for it and reports its error, which closes the file. *)
(* opens says whether the operating system lets it open the file.           *)
WriteEntry(opens) ==
  /\ logQueue # <<>>
  /\ Rotates \/ logFlight = 0
  /\ logQueue' = Tail(logQueue)
  /\ logDate' = logToday
  /\ logOpen' = IF Rotates THEN opens ELSE logOpen /\ ~logBad
  /\ logFlight' = IF logOpen' THEN Head(logQueue) ELSE 0
  /\ logSize' = (IF Rotates THEN 0 ELSE logSize) + (IF logOpen' THEN 1 ELSE 0)
  /\ logBad' = FALSE
  /\ logLate' = IF logFlight = 0 THEN logLate
                ELSE logLate \cup {[date |-> logDate, entry |-> logFlight]}
  /\ logFiles' = IF Rotates /\ opens THEN Opened(logFiles) ELSE logFiles
  /\ logFailed' = (logFailed \/ ~logOpen')
  /\ UNCHANGED <<logToday, logReceived, logKmsg>>

Lands(date, entry, ok) ==
  /\ logFiles' = IF ok THEN [logFiles EXCEPT ![date] = Append(@, entry)]
                       ELSE logFiles
  /\ logFailed' = (logFailed \/ ~ok)
  /\ UNCHANGED <<logToday, logReceived, logQueue, fileVars, logKmsg>>

WriteLands(ok) ==
  /\ logFlight # 0
  /\ logFlight' = 0
  /\ logBad' = ~ok
  /\ Lands(logDate, logFlight, ok)
  /\ UNCHANGED logLate

(* A write of a file that has been replaced; nobody sees its error.         *)
LateWriteLands(w, ok) ==
  /\ logLate' = logLate \ {w}
  /\ Lands(w.date, w.entry, ok)
  /\ UNCHANGED <<logFlight, logBad>>

LogdNext ==
  \/ \E level \in {"ERROR", "INFO"} : Receive(level)
  \/ Midnight
  \/ \E opens \in BOOLEAN : WriteEntry(opens)
  \/ \E ok \in BOOLEAN :
       WriteLands(ok) \/ \E w \in logLate : LateWriteLands(w, ok)

LogdSpec == LogdInit /\ [][LogdNext]_logVars

----------------------------------------------------------------------------
(* Properties.                                                             *)

(* The lines of the files, each by its day and its position.                *)
Lines == UNION {{d} \X DOMAIN logFiles[d] : d \in 1 .. MaxDays}
EntryAt(p) == logFiles[p[1]][p[2]]

(* Entries that are on their way into a file.                               *)
Unwritten == {w.entry : w \in logLate} \cup ({logFlight} \ {0})

(* Entries taken from the channel.                                          *)
Taken == logReceived - Len(logQueue)

(* No entry is in two lines, in a line and under way, or under way twice.   *)
OnceEach ==
  /\ \A p, q \in Lines : EntryAt(p) = EntryAt(q) => p = q
  /\ \A p \in Lines : EntryAt(p) \notin Unwritten
  /\ \A v, w \in logLate : v.entry = w.entry => v = w
  /\ \A w \in logLate : w.entry # logFlight

(* Rotation loses and repeats nothing: until an open or a write fails, what *)
(* is in the files and on its way into them is, once each, what has left    *)
(* the channel, and the channel holds the rest in order; and a day's        *)
(* entries all come before those of a later day, across midnight and full   *)
(* files.  (Inside a file, the last write before it was opened again may    *)
(* come after the first one that follows.)                                  *)
LogComplete ==
  ~logFailed =>
    /\ {EntryAt(p) : p \in Lines} \cup Unwritten = 1 .. Taken
    /\ OnceEach
    /\ \A i \in DOMAIN logQueue : logQueue[i] = Taken + i
    /\ \A p, q \in Lines : p[1] < q[1] => EntryAt(p) < EntryAt(q)
=============================================================================
