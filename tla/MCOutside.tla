----------------------------- MODULE MCOutside ------------------------------
(* A script, a REPL, both beside each other, and two workers for reports. *)
EXTENDS Outside

\* Workers are the places of jobs; provider is theirs.
Of(commands, inputs, jobs, provider, occupied, faults) ==
    [script |-> commands, typed |-> inputs, jobs |-> jobs, provider |-> provider,
     occupied |-> occupied, faults |-> faults]

Clients(commands, inputs, faults) == Of(commands, inputs, << >>, << >>, {}, faults)

SomeSettings ==
    {Clients(<<"play", "recordingStart", "shutdown">>, << >>,
             {"loss", "interrupt", "crash", "force"}),
     Clients(<<"play", "play", "play">>, << >>, {"interrupt", "force", "crash"}),
     Clients(<< >>, <<"play", "shutdown", "play">>, {"loss", "crash", "force"}),
     Clients(<< >>, <<"replayStart", "play", "replayStop">>, {}),
     Clients(<<"shutdown">>, <<"play">>, {}),
     Clients(<< >>, <<"pending", "play">>, {"loss"})}
    \cup {Of(<< >>, << >>, <<<<"s", "t">>, <<"s">>>>, provider, occupied, faults) :
             provider \in {<<"local", "local">>, <<"github", "local">>, <<"github", "github">>},
             occupied \in {{}, {"s"}},
             faults \in {{"cancel"}, {"cancel", "io"}}}
    \cup {Of(<<"play">>, << >>, <<<<"s">>>>, <<"local">>, {}, {"loss"})}
=============================================================================
