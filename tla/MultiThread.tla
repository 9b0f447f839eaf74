----------------------------- MODULE MultiThread ------------------------------
(***************************************************************************)
(* utils::MultiThread (utils/detail/MultiThread.cpp, utils/src/            *)
(* MultiThread.cpp): one thread per job that runs the job whenever the     *)
(* dispatcher raises the job's flag, and lowers the flag afterwards.       *)
(*                                                                         *)
(* The flags are the bits of a std::vector<bool>, so all of them share a   *)
(* word: to write one flag is to read the word and to write it back with   *)
(* one bit changed.  Each flag has a mutex of its own, which excludes only *)
(* threads that use the same flag.  terminate() is called by nobody and is *)
(* left out, as is the affinity of the threads.                            *)
(***************************************************************************)
EXTENDS Integers, Sequences

CONSTANTS NJobs,    \* number_of_jobs() when all have been added
          Racy      \* may writes of the word overlap? If not, only the runs in
                    \* which no two of them do are considered.

ASSUME FlagsAssumption == NJobs \in Nat \ {0} /\ Racy \in BOOLEAN

Jobs == 1 .. NJobs
Dispatcher == 0

VARIABLES word,     \* the flags
          njobs,    \* _njobs
          copy,     \* the word as a thread that is writing a flag has read it
          jpc,      \* where the thread of each job is
          writing   \* the flag the dispatcher is writing, 0 if none

flagVars == <<word, njobs, copy, jpc, writing>>

FlagsInit ==
    /\ word = [j \in Jobs |-> FALSE]
    /\ njobs = 0
    /\ copy = [p \in Jobs \cup {Dispatcher} |-> word]
    /\ jpc = [j \in Jobs |-> "none"]
    /\ writing = 0

\* Who is between its read and its write of the word; each holds the mutex of
\* the flag it writes.
Writers == {j \in Jobs : jpc[j] = "write"} \cup {p \in {Dispatcher} : writing # 0}
MutexFree(j) == jpc[j] # "write" /\ writing # j
MayRead(j) == MutexFree(j) /\ (Racy \/ Writers = {})

\* add_job(): a thread, and a flag that is down.
AddJob ==
    /\ jpc' = [jpc EXCEPT ![njobs + 1] = "wait"]
    /\ word' = [word EXCEPT ![njobs + 1] = FALSE]
    /\ njobs' = njobs + 1
    /\ UNCHANGED <<copy, writing>>

\* ready(j), in two steps
ReadyRead(j) ==
    /\ writing = 0 /\ MayRead(j)
    /\ copy' = [copy EXCEPT ![Dispatcher] = word]
    /\ writing' = j
    /\ UNCHANGED <<word, njobs, jpc>>

ReadyWrite ==
    /\ writing # 0
    /\ word' = [copy[Dispatcher] EXCEPT ![writing] = TRUE]
    /\ writing' = 0
    /\ UNCHANGED <<njobs, copy, jpc>>

\* A slip in Finished: the flag is not waited for.
NotAwaited(j) == MutexFree(j)

\* finish(j) and wait(j) poll the flag.
Finished(j) == MutexFree(j) /\ ~word[j]

Wake(j) ==
    /\ jpc[j] = "wait" /\ MutexFree(j) /\ word[j]
    /\ jpc' = [jpc EXCEPT ![j] = "run"]
    /\ UNCHANGED <<word, njobs, copy, writing>>

JobDone(j) ==
    /\ jpc[j] = "run"
    /\ jpc' = [jpc EXCEPT ![j] = "reset"]
    /\ UNCHANGED <<word, njobs, copy, writing>>

\* reset(j), in two steps
ResetRead(j) ==
    /\ jpc[j] = "reset" /\ MayRead(j)
    /\ jpc' = [jpc EXCEPT ![j] = "write"]
    /\ copy' = [copy EXCEPT ![j] = word]
    /\ UNCHANGED <<word, njobs, writing>>

ResetWrite(j) ==
    /\ jpc[j] = "write"
    /\ jpc' = [jpc EXCEPT ![j] = "wait"]
    /\ word' = [copy[j] EXCEPT ![j] = FALSE]
    /\ UNCHANGED <<njobs, copy, writing>>

FlagsOK ==
    /\ word \in [Jobs -> BOOLEAN]
    /\ njobs \in Jobs \cup {0}
    /\ copy \in [Jobs \cup {Dispatcher} -> [Jobs -> BOOLEAN]]
    /\ jpc \in [Jobs -> {"none", "wait", "run", "reset", "write"}]
    /\ writing \in Jobs \cup {0}
===============================================================================
