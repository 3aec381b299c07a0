----------------------------- MODULE TestRunner -----------------------------
(***************************************************************************)
(* run_test.py: runs the unit test suites the build has listed, saves a    *)
(* log for each next to its binary and sorts them into passed, passed with *)
(* STDERR, and failed.                                                     *)
(***************************************************************************)
EXTENDS Naturals, Sequences

CONSTANTS
    Executables,    \* what TestSuitesList.txt can name, in build/
    MaxSuites,      \* bound: lines of the file
    NoResult

ASSUME RunnerAssumption == MaxSuites \in Nat

VARIABLES
    runnerPc,
    suites,             \* one for each line of the file
    result,             \* suite['result'] of the suites that have run
    passed_suites, failed_suites, passed_with_stderr_suites,    \* indices of suites
    savedLogs           \* what is in each log file

runnerVars == <<runnerPc, suites, result, passed_suites, failed_suites,
                passed_with_stderr_suites, savedLogs>>

-----------------------------------------------------------------------------
\* SETVARS_COMPLETED is absent from the environment, or has a value.
Environments == {"None", "0", "1"}

check_environment(SETVARS_COMPLETED) == SETVARS_COMPLETED = "1"

\* The executable is what is run, and has its log next to it.
suites_list_element_to_suite(executable) ==
    [run_command |-> executable, log |-> <<executable, ".log">>]

Suites == {suites_list_element_to_suite(e) : e \in Executables}

(* A result keeps whether the suite passed, whether it wrote to stderr, if *)
(* it ran, and the type of the error.                                      *)

\* subprocess.run returns: the suite passed if its return code is 0.
Completed(returncode, stderr) ==
    [passed |-> returncode = 0, stderr |-> stderr, error_type |-> "None"]

\* There is no such file: stdout and stderr are None.
FileNotFound == [passed |-> FALSE, stderr |-> "None", error_type |-> "file_not_found"]

\* What run_suite can return.  Without check=True subprocess.run raises no
\* CalledProcessError, so that 'process_error' never occurs.
Results ==
    {Completed(returncode, stderr) : returncode \in {0, 1}, stderr \in {"", "text"}}
    \cup {FileNotFound}

get_suite_pass_fail_string(r) ==
    CASE r.passed /\ r.stderr = "" -> "PASSED"
      [] r.passed /\ r.stderr # "" -> "PASSED with STDERR"
      [] ~r.passed /\ r.error_type = "None" -> "FAILED"
      [] ~r.passed /\ r.error_type = "file_not_found" -> "FAILED Executable not found"

get_suite_log(k, r) ==
    [verdict |-> get_suite_pass_fail_string(r), hasOutput |-> r.stderr # "None",
     located_in |-> suites[k].log, to_reproduce |-> suites[k].run_command]

-----------------------------------------------------------------------------
RunnerInit ==
    /\ runnerPc = "Started"
    /\ suites = <<>> /\ result = <<>>
    /\ passed_suites = <<>> /\ failed_suites = <<>> /\ passed_with_stderr_suites = <<>>
    /\ savedLogs = [log \in {suite.log : suite \in Suites} |-> NoResult]

listVars == <<passed_suites, failed_suites, passed_with_stderr_suites>>

\* check_environment fails: main returns before it runs anything.
EnvironmentNotReady ==
    /\ runnerPc = "Started"
    /\ \E value \in Environments : ~ check_environment(value)
    /\ runnerPc' = "NotReady"
    /\ UNCHANGED <<suites, result, listVars, savedLogs>>

ReadSuites ==
    /\ runnerPc = "Started"
    /\ \E value \in Environments : check_environment(value)
    /\ runnerPc' = "Running"
    /\ suites' \in UNION {[1 .. n -> Suites] : n \in 0 .. MaxSuites}
    /\ UNCHANGED <<result, listVars, savedLogs>>

\* Mutant: whatever wrote to stderr has passed with STDERR.
SortSuiteByStderr(k, r) ==
    \/ /\ r.passed /\ r.stderr = ""
       /\ passed_suites' = Append(passed_suites, k)
       /\ UNCHANGED <<failed_suites, passed_with_stderr_suites>>
    \/ /\ r.stderr # ""
       /\ passed_with_stderr_suites' = Append(passed_with_stderr_suites, k)
       /\ UNCHANGED <<passed_suites, failed_suites>>
    \/ /\ ~r.passed /\ r.stderr = ""
       /\ failed_suites' = Append(failed_suites, k)
       /\ UNCHANGED <<passed_suites, passed_with_stderr_suites>>

SortSuite(k, r) ==
    \/ /\ r.passed /\ r.stderr = ""
       /\ passed_suites' = Append(passed_suites, k)
       /\ UNCHANGED <<failed_suites, passed_with_stderr_suites>>
    \/ /\ r.passed /\ r.stderr # ""
       /\ passed_with_stderr_suites' = Append(passed_with_stderr_suites, k)
       /\ UNCHANGED <<passed_suites, failed_suites>>
    \/ /\ ~r.passed
       /\ failed_suites' = Append(failed_suites, k)
       /\ UNCHANGED <<passed_suites, passed_with_stderr_suites>>

\* A turn of the loop.  With 'save_passed' set every log is saved, over that of an
\* earlier line with the same executable.
RunNextSuite ==
    LET k == Len(result) + 1
    IN  /\ runnerPc = "Running" /\ k <= Len(suites)
        /\ \E r \in Results :
              /\ result' = Append(result, r)
              /\ SortSuite(k, r)
              /\ savedLogs' = [savedLogs EXCEPT ![suites[k].log] = get_suite_log(k, r)]
        /\ UNCHANGED <<runnerPc, suites>>

\* Anything else subprocess.run raises (a file that cannot be executed, output that
\* cannot be decoded) is not caught, and ends the program.
SuiteRaises ==
    /\ runnerPc = "Running" /\ Len(result) < Len(suites)
    /\ runnerPc' = "Raised"
    /\ UNCHANGED <<suites, result, listVars, savedLogs>>

print_summary ==
    /\ runnerPc = "Running" /\ Len(result) = Len(suites)
    /\ runnerPc' = "Summarised"
    /\ UNCHANGED <<suites, result, listVars, savedLogs>>

RunnerEnded == runnerPc \in {"NotReady", "Raised", "Summarised"}

RunnerNext ==
    EnvironmentNotReady \/ ReadSuites \/ RunNextSuite \/ SuiteRaises \/ print_summary

RunnerSpec == RunnerInit /\ [][RunnerNext]_runnerVars

-----------------------------------------------------------------------------
Listed(list) == {list[i] : i \in DOMAIN list}

\* InstallBuildRun.md: "The script runs all suites, saves log for each suite next to
\* its binary, and generates a summary of the test results."  Of the lines that have
\* run each is in one list, once; a suite that is missing, or that ended with another
\* code than 0, is in the list of those that failed, whatever it wrote; and the log
\* next to a binary tells how its last run ended, and what to run.  A summary has all the lines.
SuitesAreAccountedFor ==
    /\ Len(passed_suites) + Len(failed_suites) + Len(passed_with_stderr_suites) = Len(result)
    /\ Listed(passed_suites) \cup Listed(failed_suites) \cup Listed(passed_with_stderr_suites)
          = DOMAIN result
    /\ Listed(failed_suites) = {k \in DOMAIN result : ~result[k].passed}
    /\ \A k \in DOMAIN result :
          (\A j \in DOMAIN result : j > k => suites[j] # suites[k]) =>
              LET saved == savedLogs[suites[k].log]
              IN  /\ saved.verdict = get_suite_pass_fail_string(result[k])
                  /\ saved.to_reproduce = suites[k].run_command
    /\ runnerPc = "Summarised" => Len(result) = Len(suites)
=============================================================================
