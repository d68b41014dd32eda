-------------------------------- MODULE Repl --------------------------------
(***************************************************************************)
(* The REPL (cli/repl): a terminal that queues what is entered, and a      *)
(* network thread that connects again whenever the connection breaks,      *)
(* submits one input in each turn, and follows the activity from where it  *)
(* was.  What the thread says is shown in its order; the queue between the *)
(* two for that, which gives way when the REPL is left, is left out.       *)
(***************************************************************************)
EXTENDS Remote

CONSTANT InputCap   \* 16

ASSUME InputCapAssumption == InputCap \in Nat \ {0}

VARIABLES
    entered,    \* how much of setting.typed was entered
    input,      \* what the thread did not take yet
    replPc,     \* connect, backoff, turn, submit, poll, gap, ended
    hand,       \* the input whose snapshot was taken
    replCursor, \* << >> before the first snapshot
    ownShutdown,\* shutdown was accepted from here
    left,       \* quit, or the end of the input: the thread is to stop
    said,       \* what was said about each input
    printed,    \* the first snapshot and the entries and gaps that were shown
    result      \* none, ok or error

replVars ==
    <<entered, input, replPc, hand, replCursor, ownShutdown, left, said, printed, result>>

typed == setting.typed
Inputs == DOMAIN typed

\* A gap tells the position from which on the entries follow.
Shown(position, isGap) == [position |-> position, isGap |-> isGap]

ReplInit ==
    /\ entered = 0 /\ input = << >> /\ hand = 0
    /\ replPc = (IF typed = << >> THEN "ended" ELSE "connect")
    /\ replCursor = << >> /\ ownShutdown = FALSE /\ left = FALSE
    /\ said = [index \in Inputs |-> << >>]
    /\ printed = << >> /\ result = "none"

-----------------------------------------------------------------------------
(* The terminal *)

EnterInput ==
    /\ replPc # "ended" /\ ~left /\ entered < Len(typed)
    /\ entered' = entered + 1
    /\ IF Len(input) < InputCap
       THEN input' = Append(input, entered + 1) /\ UNCHANGED said
       ELSE said' = [said EXCEPT ![entered + 1] = Append(@, "queueFull")] /\ UNCHANGED input
    /\ UNCHANGED <<replPc, hand, replCursor, ownShutdown, left, printed, result, remoteVars>>

\* quit, Ctrl-C or the end of the terminal; the socket is closed as well.
Quit ==
    /\ replPc # "ended" /\ ~left
    /\ left' = TRUE
    /\ UNCHANGED <<entered, input, replPc, hand, replCursor, ownShutdown, said, printed,
                   result, remoteVars>>

-----------------------------------------------------------------------------
(* The network thread *)

TerminalOnly == UNCHANGED <<entered, left>>

Ends(how) == replPc' = "ended" /\ result' = how /\ hand' = 0

Breaks == May("loss") \/ left

\* "not sent" for whatever is in the queue.
Drained ==
    /\ said' = [index \in Inputs |->
                   IF index \in Range(input) THEN Append(said[index], "notSent")
                   ELSE said[index]]
    /\ input' = << >>

\* While it runs, the flag is looked at before each turn.
Stops ==
    /\ replPc \in {"connect", "backoff", "turn"} /\ left
    /\ Ends("ok")
    /\ UNCHANGED <<input, replCursor, ownShutdown, said, printed, remoteVars>> /\ TerminalOnly

\* Where the activity is read on: where it was left, or the first snapshot.
Resumed == IF replCursor = << >> THEN store.position ELSE replCursor[1]

Connect ==
    /\ replPc = "connect" /\ ~left
    /\ replCursor' = <<Resumed>>
    /\ printed' = IF replCursor = << >> THEN <<Shown(Resumed, TRUE)>> ELSE printed
    /\ IF replCursor = << >> /\ life # "Ready"
       THEN Ends("error")
       ELSE replPc' = "turn" /\ UNCHANGED <<result, hand>>
    /\ UNCHANGED <<input, ownShutdown, said, remoteVars>> /\ TerminalOnly

ConnectFails ==
    /\ replPc = "connect" /\ Breaks
    /\ replPc' = "backoff" /\ Drained
    /\ UNCHANGED <<hand, replCursor, ownShutdown, printed, result, remoteVars>> /\ TerminalOnly

\* A binding that is refused or not understood, and a poll that is refused, are the end.
TurnedAway ==
    /\ replPc \in {"connect", "poll"} /\ May("loss")
    /\ Ends("error")
    /\ UNCHANGED <<input, replCursor, ownShutdown, said, printed, remoteVars>> /\ TerminalOnly

\* For half a second it drains the queue every 20 ms.
Backoff ==
    /\ replPc = "backoff"
    /\ \/ Drained /\ UNCHANGED replPc
       \/ ~left /\ replPc' = "connect" /\ UNCHANGED <<input, said>>
    /\ UNCHANGED <<hand, replCursor, ownShutdown, printed, result, remoteVars>> /\ TerminalOnly

\* The input is settled with what was said, and the turn goes on.
Says(index, word) == said' = [said EXCEPT ![index] = Append(@, word)]

NoInput ==
    /\ replPc = "turn" /\ ~left /\ input = << >>
    /\ replPc' = "poll"
    /\ UNCHANGED <<input, hand, replCursor, ownShutdown, said, printed, result, remoteVars>>
    /\ TerminalOnly

\* What the snapshot before a submission says about the input.
TakeInput ==
    /\ replPc = "turn" /\ ~left /\ input # << >>
    /\ LET index == Head(input) IN
       CASE typed[index] = "pending" ->
              replPc' = "poll" /\ Says(index, "listed") /\ UNCHANGED hand
         [] IsOpen("replayStart") /\ typed[index] \notin {"pending", "replayStop"} ->
              replPc' = "poll" /\ Says(index, "replayInProgress") /\ UNCHANGED hand
         [] OTHER -> replPc' = "submit" /\ hand' = index /\ UNCHANGED said
    /\ input' = Tail(input)
    /\ UNCHANGED <<replCursor, ownShutdown, printed, result, remoteVars>> /\ TerminalOnly

\* The snapshot breaks: its input and the others are not sent.
SnapshotFails ==
    /\ replPc = "turn" /\ input # << >> /\ Breaks
    /\ replPc' = "connect" /\ Drained
    /\ UNCHANGED <<hand, replCursor, ownShutdown, printed, result, remoteVars>> /\ TerminalOnly

ReplAccepted ==
    /\ replPc = "submit"
    /\ Submitted("repl", hand, typed[hand])
    /\ Says(hand, "pending")
    /\ ownShutdown' = (ownShutdown \/ typed[hand] = "shutdown")
    /\ replPc' = "poll" /\ hand' = 0
    /\ UNCHANGED <<input, replCursor, printed, result>> /\ TerminalOnly

ReplRefused ==
    /\ replPc = "submit"
    /\ Refused(typed[hand])
    /\ Says(hand, "refused")
    /\ replPc' = "poll" /\ hand' = 0
    /\ UNCHANGED <<input, replCursor, ownShutdown, printed, result, remoteVars>> /\ TerminalOnly

\* Mutation of Kept: the input is tried again.
KeptForRetry(index) == <<index>>

\* What stays in the queue when a submission broke.
Kept(index) == << >>

ReplLost ==
    /\ replPc = "submit" /\ Breaks
    /\ LostSubmission("repl", hand, typed[hand])
    /\ said' = [index \in Inputs |->
                   said[index] \o (IF index = hand THEN <<"unknown">> ELSE << >>)
                               \o (IF index \in Range(input) THEN <<"notSent">> ELSE << >>)]
    /\ input' = Kept(hand)
    /\ replPc' = "connect" /\ hand' = 0
    /\ UNCHANGED <<replCursor, ownShutdown, printed, result>> /\ TerminalOnly

-----------------------------------------------------------------------------
(* Its poll *)

EndIn(news) == {news[i].what.kind : i \in DOMAIN news} \cap {"Ended", "Failed"}

ReplNews ==
    /\ replPc = "poll" /\ ~IsGap(store, replCursor[1])
    /\ LET news == News(store, replCursor[1]) IN
       /\ printed' = printed \o [i \in DOMAIN news |-> Shown(news[i].position, FALSE)]
       /\ IF EndIn(news) = {} THEN replPc' = "turn" /\ UNCHANGED <<result, hand>>
          ELSE Ends(IF EndIn(news) = {"Ended"} /\ ownShutdown THEN "ok" ELSE "error")
    /\ replCursor' = <<store.position>>
    /\ UNCHANGED <<input, ownShutdown, said, remoteVars>> /\ TerminalOnly

ReplGap ==
    /\ replPc = "poll" /\ IsGap(store, replCursor[1])
    /\ printed' = Append(printed, Shown(store.floor, TRUE))
    /\ replCursor' = <<store.floor>>
    /\ replPc' = "gap"
    /\ UNCHANGED <<input, hand, ownShutdown, said, result, remoteVars>> /\ TerminalOnly

\* A lifecycle entry may have been evicted as well; the queue waits.
AfterGap ==
    /\ replPc = "gap"
    /\ \/ IF life # "Ready" THEN Ends("error") ELSE replPc' = "turn" /\ UNCHANGED <<result, hand>>
       \/ Breaks /\ replPc' = "connect" /\ UNCHANGED <<result, hand>>
    /\ UNCHANGED <<input, replCursor, ownShutdown, said, printed, remoteVars>> /\ TerminalOnly

ReplPollFails ==
    /\ replPc = "poll" /\ Breaks
    /\ replPc' = "connect" /\ Drained
    /\ UNCHANGED <<hand, replCursor, ownShutdown, printed, result, remoteVars>> /\ TerminalOnly

ReplStep ==
    \/ EnterInput \/ Quit \/ Stops
    \/ Connect \/ ConnectFails \/ TurnedAway \/ Backoff \/ NoInput \/ TakeInput \/ SnapshotFails
    \/ ReplAccepted \/ ReplRefused \/ ReplLost
    \/ ReplNews \/ ReplGap \/ AfterGap \/ ReplPollFails

-----------------------------------------------------------------------------
(* Properties *)

Runs(index) ==
    {id \in DOMAIN accepted : accepted[id].client = "repl" /\ accepted[id].index = index}

\* What was announced as not done.
Denials == {"queueFull", "notSent", "replayInProgress", "refused", "listed"}

Waits(index) == index \in Range(input) \/ index = hand

(***************************************************************************)
(* Of every input one thing is said once it left the queue, and it stays   *)
(* so: what was "not sent" or refused never runs, in spite of all the      *)
(* connections that follow, what was accepted runs once, and the REPL      *)
(* ends well only after its own shutdown or when it was left.  Whatever    *)
(* breaks and is connected again, each entry is shown once, in order, and  *)
(* where some are missing a gap is (repl/network.rs:114-270).              *)
(***************************************************************************)
ReplKeepsItsWord ==
    /\ \A index \in Inputs :
          /\ Cardinality(Runs(index)) <= 1
          /\ Range(said[index]) \cap Denials # {} => Runs(index) = {}
          /\ Range(said[index]) \cap {"pending"} # {} => Runs(index) # {}
          /\ Len(said[index]) = (IF index <= entered /\ ~Waits(index) THEN 1 ELSE 0)
                \/ result # "none"
    /\ result = "ok" => left \/ (life = "Ended" /\ \E index \in Inputs :
                                    typed[index] = "shutdown" /\ Runs(index) # {})
    /\ \A i \in DOMAIN printed : i > 1 =>
          \/ printed[i].isGap /\ printed[i].position > printed[i - 1].position
          \/ ~printed[i].isGap /\ printed[i].position = printed[i - 1].position + 1
=============================================================================
