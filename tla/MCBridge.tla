------------------------------ MODULE MCBridge ------------------------------
(* The bridge on a few requests of every kind. *)
EXTENDS Bridge

StartOf(n, named) == [kind |-> "start", ticks |-> n, pace |-> named]
PaceOf(named)     == [kind |-> "setPace", pace |-> named]
Shot(path)        == [kind |-> "screenshot", path |-> path]
KeyOf(name, key)  == [kind |-> name, key |-> key]
ButtonOf(name, b) == [kind |-> name, button |-> b]
MoveOf(name, p)   == [kind |-> name, position |-> p]
Plain(name)       == [kind |-> name]
TextOf(value)     == [kind |-> "text", value |-> value]

(***************************************************************************)
(* Warps and input: a key release needs its press, a button press needs a  *)
(* position, both keys that mean shift are held before one is released.    *)
(***************************************************************************)
InputRequests ==
    << {StartOf(1, ""), MoveOf("moveTo", 1), KeyOf("keyPress", "shiftLeft"), Shot("a"),
        TextOf("hi")},
       {StartOf(3, "slow"), ButtonOf("press", "left"), KeyOf("keyPress", "shiftRight"),
        Shot("a"), MoveOf("moveBy", -1), MoveOf("scroll", 1)},
       {KeyOf("keyRelease", "shiftLeft"), ButtonOf("release", "left"), PaceOf("slow"),
        Plain("stop"), Plain("inspect")},
       {StartOf(1, ""), Plain("shutdown"), Plain("stop")} >>

\* Warps and captures; then one more, or the end of the warp or of the game.
ShotRequests ==
    << {StartOf(2, "slow"), Shot("a")},
       {StartOf(2, "slow"), Shot("a"), Plain("stop"), Plain("shutdown")} >>
Resent       == {Shot("a")}
=============================================================================
