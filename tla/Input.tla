------------------------------- MODULE Input -------------------------------
(***************************************************************************)
(* Virtual input in a controlled game (session/input.rs and its pointer,   *)
(* keyboard and text devices).  A command changes only the private state   *)
(* of its device and queues an event; the events reach the game in the     *)
(* next tick.  Native input never does: the gate drops it, and keeps the   *)
(* window's other events for the next tick.                                *)
(*                                                                         *)
(* A device command is an operator that returns the device after it and    *)
(* whether it was accepted; Bridge.tla calls it.                           *)
(***************************************************************************)
EXTENDS Integers, Sequences, FiniteSets, SequencesExt

VARIABLES
    world,      \* the primary window, its width, the focus and live text fields
    pointer,    \* location (window 0: none), pressed buttons, pending events
    keyboard,   \* pressed keys and pending events
    text,       \* pending pairs of a text field and a text
    gate,       \* window events kept for the next tick
    game        \* what the game's systems have seen

inputVars == <<world, pointer, keyboard, text, gate, game>>

-----------------------------------------------------------------------------
(* Data *)

(***************************************************************************)
(* Windows are numbered; primary is 0 unless there is exactly one primary  *)
(* window.  A position is one coordinate; Infinite is one that is not      *)
(* finite.  The left and the right shift key have one logical key.         *)
(***************************************************************************)
Windows  == 1 .. 2
Infinite == 100
Buttons  == {"left", "right", "middle"}
Keys     == {"shiftLeft", "shiftRight", "a"}
Fields   == {"name", "chat"}

LogicalOf(key) == IF key = "a" THEN "a" ELSE "shift"

Down(key) == [key |-> key, down |-> TRUE]
Up(key)   == [key |-> key, down |-> FALSE]

Accept(device) == [device |-> device, ok |-> TRUE]
Reject(device) == [device |-> device, ok |-> FALSE]

-----------------------------------------------------------------------------
(* Pointer *)

InBounds(position) == 0 <= position /\ position < world.width

\* location(): known, in the primary window of now, and still inside it.
LocationKnown ==
    /\ world.primary # 0
    /\ pointer.window = world.primary
    /\ InBounds(pointer.position)

MoveOn(position) ==
    IF world.primary = 0 \/ ~InBounds(position) THEN Reject(pointer)
    ELSE Accept([pointer EXCEPT !.window = world.primary,
                                !.position = position,
                                !.pending = Append(@, [move |-> position])])

MoveTo(position) == IF position = Infinite THEN Reject(pointer) ELSE MoveOn(position)

MoveBy(delta) ==
    IF delta = Infinite \/ ~LocationKnown THEN Reject(pointer)
    ELSE MoveOn(pointer.position + delta)

Button(button, down) ==
    IF button \notin Buttons \/ ~LocationKnown \/ (button \in pointer.pressed) = down
    THEN Reject(pointer)
    ELSE Accept([pointer EXCEPT
                    !.pressed = IF down THEN @ \cup {button} ELSE @ \ {button},
                    !.pending = Append(@, [key |-> button, down |-> down])])

Scroll(delta) ==
    IF delta = Infinite \/ ~LocationKnown THEN Reject(pointer)
    ELSE Accept([pointer EXCEPT !.pending = Append(@, [scroll |-> delta])])

-----------------------------------------------------------------------------
(* Keyboard and text *)

PressKey(key, down) ==
    IF key \notin Keys \/ world.primary = 0 \/ (key \in keyboard.pressed) = down
    THEN Reject(keyboard)
    ELSE Accept([pressed |-> IF down THEN keyboard.pressed \cup {key}
                                     ELSE keyboard.pressed \ {key},
                 pending |-> Append(keyboard.pending, [key |-> key, down |-> down])])

\* The target is pinned: the focus of the moment of acceptance.
TextInput(value) ==
    IF value = "tooLarge" \/ world.primary = 0 \/ world.focus \notin world.fields
    THEN Reject(text)
    ELSE Accept(Append(text, [field |-> world.focus, value |-> value]))

-----------------------------------------------------------------------------
(* One tick *)

(***************************************************************************)
(* The game's own view of the buttons and keys after the events of a tick. *)
(* A logical key is released with the last physical key that holds it.     *)
(***************************************************************************)
Pressing(held, event) == IF event.down THEN held \cup {event.key} ELSE held \ {event.key}

\* Mutation of LogicalHeld: releasing one shift key releases the shift.
LogicalReleased(logical, held, event) ==
    IF event.down THEN logical \cup {LogicalOf(event.key)}
                  ELSE logical \ {LogicalOf(event.key)}

LogicalHeld(logical, held, event) ==
    IF event.down THEN logical \cup {LogicalOf(event.key)}
    ELSE IF \E key \in held : LogicalOf(key) = LogicalOf(event.key) THEN logical
    ELSE logical \ {LogicalOf(event.key)}

SeenKey(seen, event) ==
    LET held == Pressing(seen.keys, event) IN
    [seen EXCEPT !.keys = held, !.logical = LogicalHeld(@, held, event)]

SeenButton(seen, event) ==
    IF "down" \in DOMAIN event THEN [seen EXCEPT !.buttons = Pressing(@, event)] ELSE seen

\* A field that is gone swallows its text.
SeenText(seen, edit) ==
    IF edit.field \in world.fields THEN [seen EXCEPT !.texts[edit.field] = Append(@, edit.value)]
                                   ELSE seen

(***************************************************************************)
(* capture(): native events are cleared, window events move to the gate.   *)
(***************************************************************************)
Captured(g) == [g EXCEPT !.native = {}, !.kept = @ + g.arrived, !.arrived = 0]

(***************************************************************************)
(* The input of a tick: what the gate let through, then the pointer's, the *)
(* keyboard's and the text events, each device in the order of acceptance. *)
(***************************************************************************)
SeenInTick(g) ==
    LET native  == [game EXCEPT !.keys = @ \cup g.native]
        buttons == FoldLeft(SeenButton, native, pointer.pending)
        keys    == FoldLeft(SeenKey, buttons, keyboard.pending)
        texts   == FoldLeft(SeenText, keys, text)
    IN  [texts EXCEPT !.windowEvents = @ + g.kept]

Flush(g) ==
    /\ game' = SeenInTick(g)
    /\ pointer' = [pointer EXCEPT !.pending = << >>]
    /\ keyboard' = [keyboard EXCEPT !.pending = << >>]
    /\ text' = << >>
    /\ gate' = [g EXCEPT !.kept = 0]

-----------------------------------------------------------------------------
(* The platform: windows come, go and change, and native input arrives *)

CONSTANT PlatformCap    \* events of the platform in one behaviour

WorldChanges ==
    /\ world.changes < PlatformCap
    /\ LET next == [world EXCEPT !.changes = @ + 1] IN
       world' \in {[next EXCEPT !.primary = window] : window \in {0} \cup Windows}
                  \cup {[next EXCEPT !.width = 1]}
                  \cup {[next EXCEPT !.focus = field] : field \in Fields}
                  \cup {[next EXCEPT !.fields = @ \ {field}] : field \in Fields}
    /\ UNCHANGED <<pointer, keyboard, text, gate, game>>

NativeEvent ==
    /\ world.changes < PlatformCap
    /\ world' = [world EXCEPT !.changes = @ + 1]
    /\ \/ gate' = [gate EXCEPT !.native = @ \cup {"a"}]
       \/ gate' = [gate EXCEPT !.arrived = @ + 1, !.ever = @ + 1]
    /\ UNCHANGED <<pointer, keyboard, text, game>>

InputInit ==
    /\ world = [primary |-> 1, width |-> 2, focus |-> "name", fields |-> Fields,
                changes |-> 0]
    /\ pointer = [window |-> 0, position |-> 0, pressed |-> {}, pending |-> << >>]
    /\ keyboard = [pressed |-> {}, pending |-> << >>]
    /\ text = << >>
    /\ gate = [native |-> {}, arrived |-> 0, kept |-> 0, ever |-> 0]
    /\ game = [buttons |-> {}, keys |-> {}, logical |-> {}, windowEvents |-> 0,
               texts |-> [f \in Fields |-> << >>]]

-----------------------------------------------------------------------------
(* Properties *)

(***************************************************************************)
(* Accepted input arrives whole and nothing else does.  Once the events of *)
(* a device are flushed the game holds exactly the buttons and keys that   *)
(* the client pressed and did not release, whatever rejected commands and  *)
(* native input came in between; a logical key is down as long as one of   *)
(* the physical keys that mean it; and no window event is lost or doubled. *)
(***************************************************************************)
InputArrivesWhole ==
    /\ pointer.pending = << >> => game.buttons = pointer.pressed
    /\ keyboard.pending = << >> => game.keys = keyboard.pressed
    /\ game.logical = {LogicalOf(key) : key \in game.keys}
    /\ game.windowEvents + gate.kept + gate.arrived = gate.ever
=============================================================================
