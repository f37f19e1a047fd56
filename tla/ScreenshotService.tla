--------------------------- MODULE ScreenshotService ---------------------------
(***************************************************************************)
(* A screenshot is written by a thread, which tells the result object its  *)
(* status through an event descriptor.  The main thread reads it in the    *)
(* event loop, or waits for it in waitForFinished().                       *)
(***************************************************************************)
EXTENDS Naturals

CONSTANT MaxShots  \* bound on the screenshots

VARIABLES
  results,    \* m_status of each result, "none" for one not made, "gone" if deleted
  deleting,   \* results with a pending deleteLater()
  eventFd,    \* the status in the event descriptor, "empty" without one
  writer,     \* "none", "queued", "saved" or "failed": the writer and what it did
  activated,  \* results whose notifier is about to be activated
  finished,   \* how often finished() or error() was emitted
  waitingFor  \* the result that the main thread is waiting for, 0 for none

shotVars == <<results, deleting, eventFd, writer, activated, finished, waitingFor>>

None == 0
Shots == 1 .. MaxShots

MainThread == waitingFor = None

Made(i) == i \in Shots /\ results[i] \notin {"none", "gone"}

SaveScreenshot(i, hasPath) ==
    /\ MainThread
    /\ results[i] = "none" /\ \A j \in Shots : j < i => results[j] # "none"
    /\ results' = [results EXCEPT ![i] = "Writing"]
    /\ eventFd' = [eventFd EXCEPT ![i] = IF hasPath THEN "empty" ELSE "Error"]
    /\ writer' = [writer EXCEPT ![i] = IF hasPath THEN "queued" ELSE "failed"]
    /\ UNCHANGED <<deleting, activated, finished, waitingFor>>

(* ScreenshotWriter::run() in a thread of the pool.                        *)
Run(i) ==
    /\ writer[i] = "queued"
    /\ writer' \in {[writer EXCEPT ![i] = outcome] : outcome \in {"saved", "failed"}}
    /\ eventFd' = [eventFd EXCEPT ![i] = IF writer'[i] = "saved" THEN "Finished" ELSE "Error"]
    /\ UNCHANGED <<results, deleting, activated, finished, waitingFor>>

(* The event loop has seen that the descriptor can be read.                *)
Poll(i) ==
    /\ MainThread
    /\ Made(i) /\ eventFd[i] # "empty" /\ i \notin activated
    /\ activated' = activated \cup {i}
    /\ UNCHANGED <<results, deleting, eventFd, writer, finished, waitingFor>>

(* Reading an empty descriptor blocks the main thread.                     *)
ReadStatus(i) ==
    IF eventFd[i] = "empty" THEN waitingFor' = i /\ UNCHANGED <<results, deleting, eventFd>>
    ELSE /\ results' = [results EXCEPT ![i] = eventFd[i]]
         /\ eventFd' = [eventFd EXCEPT ![i] = "empty"]
         /\ deleting' = deleting \cup {i}
         /\ waitingFor' = None

(* Mutation: the notifier reads whether or not the status has been read.   *)
NotifierReads(i) ==
    /\ MainThread
    /\ i \in activated /\ activated' = activated \ {i}
    /\ ReadStatus(i)
    /\ finished' = [finished EXCEPT ![i] = @ + 1]
    /\ UNCHANGED writer

(* The notifier is activated; waitForFinished() may have been faster.      *)
NotifierActivated(i) ==
    /\ MainThread
    /\ i \in activated /\ activated' = activated \ {i}
    /\ IF Made(i) /\ results[i] = "Writing"
       THEN ReadStatus(i) /\ finished' = [finished EXCEPT ![i] = @ + 1]
       ELSE UNCHANGED <<results, deleting, eventFd, finished, waitingFor>>
    /\ UNCHANGED writer

(* waitForFinished() of a result that has not been reported.               *)
WaitForFinished(i) ==
    /\ MainThread
    /\ results[i] = "Writing"
    /\ ReadStatus(i)
    /\ UNCHANGED <<writer, activated, finished>>

Woken ==
    /\ waitingFor # None /\ eventFd[waitingFor] # "empty"
    /\ ReadStatus(waitingFor)
    /\ UNCHANGED <<writer, activated, finished>>

(* The result goes, with its notifier, and closes its descriptor.          *)
Deleted(i) ==
    /\ MainThread
    /\ i \in deleting /\ deleting' = deleting \ {i}
    /\ results' = [results EXCEPT ![i] = "gone"]
    /\ activated' = activated \ {i}
    /\ UNCHANGED <<eventFd, writer, finished, waitingFor>>

-----------------------------------------------------------------------------

Init ==
    /\ results = [i \in Shots |-> "none"] /\ eventFd = [i \in Shots |-> "empty"]
    /\ writer = [i \in Shots |-> "none"] /\ finished = [i \in Shots |-> 0]
    /\ deleting = {} /\ activated = {} /\ waitingFor = None

Next ==
    \/ Woken
    \/ \E i \in Shots :
          \/ SaveScreenshot(i, TRUE) \/ SaveScreenshot(i, FALSE)
          \/ Run(i) \/ Poll(i) \/ NotifierActivated(i) \/ WaitForFinished(i) \/ Deleted(i)

-----------------------------------------------------------------------------
(* Properties *)

(* A result reports what its own writer did, and reports it once.          *)
StatusOfWriter ==
    \A i \in Shots : /\ results[i] = "Finished" => writer[i] = "saved"
                     /\ results[i] = "Error" => writer[i] = "failed"
                     /\ finished[i] <= 1

(* The main thread never blocks on a descriptor that nobody will write.    *)
WriterComes ==
    waitingFor # None => eventFd[waitingFor] # "empty" \/ writer[waitingFor] = "queued"

(* Every result is reported to whoever waits and deleted.                  *)
ResultsEnd == \A i \in Shots : (results[i] # "none") ~> (results[i] = "gone")
=============================================================================
