----------------------------- MODULE MCRecorder -----------------------------
(* The recorder and its worker, driven with consecutive request ids. *)
EXTENDS Recordings

CONSTANT Backlog    \* how many operations may wait for the worker

Used == ToSet(wire) \cup {recorder.id}
          \cup {files[f].path : f \in DOMAIN files}
          \cup {recorder.sections[s].stop : s \in DOMAIN recorder.sections}

Fresh == Max(Used \cup {0}) + 1

\* The session is over and the worker thread has returned.
Stopping == Quiet /\ UNCHANGED <<recorderVars, baseVars>>

MCNext ==
    \/ /\ Fresh < LastId
       /\ \/ \E kind \in RecordKinds, pending \in BOOLEAN :
                CallControl(Fresh, kind, pending)
          \/ CallSend(Fresh, "game")
          \/ CallSendFailed(Fresh, "game")
    \/ CallSend(LastId, "shutdown")
    \/ \E id \in active, outcome \in Answers : CallTerminal(id, outcome)
    \/ PollReply
    \/ CallEnd
    \/ Work /\ UNCHANGED baseVars
    \/ Stopping

MCSpec == RecorderInit /\ [][MCNext]_<<recorderVars, baseVars>>

BacklogBound == Len(recorder.operations) <= Backlog
=============================================================================
