------------------------------ MODULE MCHandle ------------------------------
(* Starts of every kind; reports of the game; commands and their owner. *)
EXTENDS Handle

TwoIds == 1 .. 2

Of(tracing, layer, reports, commands, faults) ==
    [tracing |-> tracing, layer |-> layer, reports |-> reports, commands |-> commands,
     faults |-> faults]

SomeSettings ==
    {Of(tracing, layer, {}, 0, {"launch", "cancel", "ready", "damage", "crash", "eof"}) :
        tracing \in BOOLEAN, layer \in BOOLEAN}
    \cup {Of(TRUE, TRUE, {"panic", "tracing", "processExit"}, 0, {"damage", "crash"}),
          Of(FALSE, FALSE, {"panic"}, 1, {"crash", "eof"}),
          Of(FALSE, FALSE, {}, 2, {"crash"})}
=============================================================================
