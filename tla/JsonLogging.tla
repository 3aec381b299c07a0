---------------------------- MODULE JsonLogging ----------------------------
(***************************************************************************)
(* JsonLogger, OstreamLogger, the global instance of ILogger and the LOG   *)
(* macros, used from one thread.  A line of a file is a bracket or what a  *)
(* logger writes of a message.  A client gives no path to two loggers that *)
(* exist at the same time, and uses LOG only while the global instance is  *)
(* a logger that exists: the code leaves both to its callers.              *)
(***************************************************************************)
EXTENDS Naturals, Sequences

CONSTANTS
    Loggers,        \* the JsonLogger objects
    OstreamLogger,  \* one that writes to a stream
    NoLogger,       \* nullptr
    Paths,          \* the filePaths JsonLoggers are given
    NoPath,
    Stream,         \* what the OstreamLogger writes to
    Messages,       \* the LogMessages that clients log
    MaxMessages     \* bound: on the LOG calls that reach a file or the stream

ASSUME LoggingAssumption ==
    /\ NoPath \notin Paths /\ Stream \notin Paths
    /\ NoLogger \notin Loggers /\ OstreamLogger \notin Loggers

VARIABLES
    filePath,       \* of each JsonLogger that exists; NoPath for the others
    isOpen,         \* its file_ is open
    globalInstance,
    directories,    \* that exist: one for each path
    files,          \* what is in the file of each path, and in the stream
    logged          \* ghost: the messages logged to it since it was opened

logVars == <<filePath, isOpen, globalInstance, directories, files, logged>>

\* The time stamp and the place in the source are left out.
LogMessage(severity, message) == [severity |-> severity, message |-> message]

getSeverityString(severity) ==
    CASE severity = "Debug" -> "DEBUG"
      [] severity = "Info" -> "INFO"
      [] severity = "Warning" -> "WARNING"
      [] severity = "Error" -> "ERROR"
      [] severity = "Fatal" -> "FATAL"

\* What either logger writes of a message, and the brackets of a JSON file.
Record(message) == <<getSeverityString(message.severity), message.message>>
Bracket(b) == <<b, "">>

Opening == <<Bracket("["), Record(LogMessage("Info", "started"))>>
Closing == <<Record(LogMessage("Info", "stopped")), Bracket("]")>>

Exists(l) == filePath[l] # NoPath

LogInit ==
    /\ filePath = [l \in Loggers |-> NoPath]
    /\ isOpen = [l \in Loggers |-> FALSE]
    /\ globalInstance = NoLogger
    /\ directories = {}
    /\ files = [p \in Paths \cup {Stream} |-> <<>>]
    /\ logged = [p \in Paths \cup {Stream} |-> <<>>]

createDirectoryIfNotExists(p) == directories' = directories \cup {p}

\* Mutant: what is in the file is kept.
ConstructAppending(l, p) ==
    /\ ~Exists(l) /\ \A k \in Loggers : filePath[k] # p
    /\ createDirectoryIfNotExists(p)
    /\ filePath' = [filePath EXCEPT ![l] = p]
    /\ isOpen' = [isOpen EXCEPT ![l] = TRUE]
    /\ files' = [files EXCEPT ![p] = @ \o Opening]
    /\ logged' = [logged EXCEPT ![p] = <<>>]
    /\ UNCHANGED globalInstance

\* The file can be opened, which empties it; the logger logs that it has started.
ConstructOpen(l, p) ==
    /\ ~Exists(l) /\ \A k \in Loggers : filePath[k] # p
    /\ createDirectoryIfNotExists(p)
    /\ filePath' = [filePath EXCEPT ![l] = p]
    /\ isOpen' = [isOpen EXCEPT ![l] = TRUE]
    /\ files' = [files EXCEPT ![p] = Opening]
    /\ logged' = [logged EXCEPT ![p] = <<>>]
    /\ UNCHANGED globalInstance

\* It cannot: the logger is there, without a file.
ConstructWithoutFile(l, p) ==
    /\ ~Exists(l) /\ \A k \in Loggers : filePath[k] # p
    /\ createDirectoryIfNotExists(p)
    /\ filePath' = [filePath EXCEPT ![l] = p]
    /\ UNCHANGED <<isOpen, files, logged, globalInstance>>

\* The early return of the destructor; it leaves the global instance as it is.
Destroy(l) ==
    /\ Exists(l)
    /\ files' = [files EXCEPT ![filePath[l]] =
                    IF isOpen[l] THEN @ \o Closing ELSE @]
    /\ isOpen' = [isOpen EXCEPT ![l] = FALSE]
    /\ filePath' = [filePath EXCEPT ![l] = NoPath]
    /\ UNCHANGED <<globalInstance, directories, logged>>

setGlobalInstance(instance) ==
    /\ globalInstance' = instance
    /\ UNCHANGED <<filePath, isOpen, directories, files, logged>>

\* JsonLogger::log: what is inserted into a file_ that is not open is lost.
logToFile(l, message) ==
    /\ Exists(l)
    /\ LET p == filePath[l]
       IN  IF isOpen[l]
           THEN /\ files' = [files EXCEPT ![p] = Append(@, Record(message))]
                /\ logged' = [logged EXCEPT ![p] = Append(@, message)]
           ELSE UNCHANGED <<files, logged>>

\* OstreamLogger::log.
logToStream(message) ==
    /\ files' = [files EXCEPT ![Stream] = Append(@, Record(message))]
    /\ logged' = [logged EXCEPT ![Stream] = Append(@, message)]

LOG(message) ==
    /\ \/ globalInstance \in Loggers /\ logToFile(globalInstance, message)
       \/ globalInstance = OstreamLogger /\ logToStream(message)
    /\ UNCHANGED <<filePath, isOpen, globalInstance, directories>>

LogNext ==
    \/ \E l \in Loggers, p \in Paths : ConstructOpen(l, p) \/ ConstructWithoutFile(l, p)
    \/ \E l \in Loggers : Destroy(l)
    \/ \E instance \in Loggers \cup {OstreamLogger, NoLogger} : setGlobalInstance(instance)
    \/ /\ \A p \in DOMAIN logged : Len(logged[p]) < MaxMessages
       /\ \E message \in Messages : LOG(message)

LogSpec == LogInit /\ [][LogNext]_logVars

-----------------------------------------------------------------------------
Records(messages) == [i \in DOMAIN messages |-> Record(messages[i])]

\* However loggers are made, swapped as the global instance, destroyed and made again
\* with the path of an earlier one, a file that was ever opened has the bracket and the
\* first record of one logger, the messages logged since it was opened, in order, and,
\* once that logger has been destroyed, its last record and the closing bracket; the
\* stream has exactly the messages logged while its logger was the global one.
LogsAreFramed ==
    /\ \A p \in Paths :
          \/ files[p] = <<>> /\ \A l \in Loggers : filePath[l] = p => ~isOpen[l]
          \/ files[p] = Opening \o Records(logged[p])
                        \o (IF \E l \in Loggers : filePath[l] = p /\ isOpen[l]
                            THEN <<>> ELSE Closing)
    /\ files[Stream] = Records(logged[Stream])
=============================================================================
