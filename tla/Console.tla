------------------------------ MODULE Console ------------------------------
(***************************************************************************)
(* The scrollback of the text console drawn by sf2000-screen: kernel       *)
(* messages are cut into lines, the last Scrollback lines are kept in a    *)
(* ring, and the direction buttons of any input device move a view of Rows *)
(* lines over them.  The printable characters are numbered as they arrive, *)
(* so that a line is a run of numbers; a notice the console itself adds    *)
(* (an input device opened, a key without a function) is an empty line.    *)
(*                                                                         *)
(* hold_ticks is kept modulo the repeat interval once it has passed the    *)
(* repeat delay: only that remainder is ever used.                         *)
(***************************************************************************)
EXTENDS Integers, Sequences

CONSTANTS Scrollback,  \* CONSOLE_SCROLLBACK_LINES
          Rows,        \* CONSOLE_ROWS
          Cols,        \* CONSOLE_COLS
          Delay,       \* CONSOLE_REPEAT_DELAY_TICKS
          Interval,    \* CONSOLE_REPEAT_INTERVAL_TICKS
          MaxText,     \* bound: printable characters received
          MaxLines     \* bound: lines added

VARIABLES ring,     \* console_lines: slot -> [id, text]
          count,    \* console_line_count
          start,    \* console_line_start
          offset,   \* console_view_offset
          partial,  \* the line console_add_text is collecting
          held,     \* evdev_held, as a set of directions
          previous, \* previous_held
          ticks,    \* hold_ticks
          device,   \* an input device: "none", "open", or "gone" behind an open fd
          got,      \* characters received so far
          lines     \* lines added so far

view == <<ring, count, start, offset>>
vars == <<ring, count, start, offset, partial, held, previous, ticks,
          device, got, lines>>

\* The ring has a slot, the panel a row.
ConsoleAssumption ==
    Scrollback \in Nat \ {0} /\ Rows \in Nat \ {0} /\ Cols \in Nat

Directions == {"up", "down", "left", "right"}
Slots == 0 .. Scrollback - 1

----------------------------------------------------------------------------
(* The ring and the view.                                                  *)

VisibleLines(n) == IF n < Rows THEN n ELSE Rows
MaxViewOffset(n) == n - VisibleLines(n)
LineAt(logical) == ring[(start + logical) % Scrollback]
ClampView(o, n) == IF o > MaxViewOffset(n) THEN MaxViewOffset(n) ELSE o

\* The lines draw_console_screen puts on the panel, top first.
Shown ==
    LET visible == VisibleLines(count)
        last == count - visible
        first == IF ClampView(offset, count) < last
                 THEN last - ClampView(offset, count) ELSE 0
    IN  [row \in 1 .. visible |-> LineAt(first + row - 1)]

\* console_add_line slips: the view is not moved along with the text, and the
\* newest line of a full ring is written without giving up the oldest.
AddLineMovingView(text) ==
    /\ lines < MaxLines
    /\ LET full == count >= Scrollback
           slot == (start + (IF full THEN 0 ELSE count)) % Scrollback
       IN  /\ ring' = [ring EXCEPT ![slot] = [id |-> lines + 1, text |-> text]]
           /\ start' = IF full THEN (start + 1) % Scrollback ELSE start
           /\ count' = IF full THEN count ELSE count + 1
           /\ offset' = ClampView(offset, count')
    /\ lines' = lines + 1
AddLineIntoStart(text) ==
    /\ lines < MaxLines
    /\ LET full == count >= Scrollback
           slot == (start + count) % Scrollback
       IN  /\ ring' = [ring EXCEPT ![slot] = [id |-> lines + 1, text |-> text]]
           /\ start' = start
           /\ count' = IF full THEN count ELSE count + 1
           /\ offset' = ClampView(IF offset # 0 THEN offset + 1 ELSE offset, count')
    /\ lines' = lines + 1

\* console_add_line: at the limit the oldest line's slot becomes the newest;
\* a reader who has scrolled up keeps the lines in view.
AddLine(text) ==
    /\ lines < MaxLines
    /\ LET full == count >= Scrollback
           slot == (start + (IF full THEN 0 ELSE count)) % Scrollback
       IN  /\ ring' = [ring EXCEPT ![slot] = [id |-> lines + 1, text |-> text]]
           /\ start' = IF full THEN (start + 1) % Scrollback ELSE start
           /\ count' = IF full THEN count ELSE count + 1
           /\ offset' = ClampView(IF offset # 0 THEN offset + 1 ELSE offset, count')
    /\ lines' = lines + 1

----------------------------------------------------------------------------
(* Text: one character of a kernel record (console_add_kmsg_record strips  *)
(* the record's prefix first).                                             *)

\* console_add_text slip: a full line drops the character that overflowed it.
TextCharDropping(ch) ==
    IF ch = "newline" \/ Len(partial) >= Cols
    THEN AddLine(partial) /\ partial' = <<>>
         /\ got' = IF ch = "print" THEN got + 1 ELSE got
    ELSE /\ UNCHANGED <<view, lines>>
         /\ partial' = IF ch = "print" THEN Append(partial, got + 1) ELSE partial
         /\ got' = IF ch = "print" THEN got + 1 ELSE got

\* console_add_text: carriage returns and control characters vanish, a
\* newline or a full line ends the line, and the character that found the
\* line full starts the next one.
TextChar(ch) ==
    LET ends == ch # "return" /\ (ch = "newline" \/ Len(partial) >= Cols)
        rest == IF ends THEN <<>> ELSE partial
    IN  /\ IF ends THEN AddLine(partial) ELSE UNCHANGED <<view, lines>>
        /\ partial' = IF ch = "print" THEN Append(rest, got + 1) ELSE rest
        /\ got' = IF ch = "print" THEN got + 1 ELSE got

Text(ch) ==
    /\ ch = "print" => got < MaxText
    /\ TextChar(ch)
    /\ UNCHANGED <<held, previous, ticks, device>>

----------------------------------------------------------------------------
(* Buttons.                                                                *)

\* console_scroll_delta, on the offset alone.
ScrollDelta(o, delta) ==
    LET at == ClampView(o, count)
        most == MaxViewOffset(count)
    IN  CASE delta > 0 -> IF delta > most - at THEN most ELSE at + delta
          [] delta < 0 -> IF -delta > at THEN 0 ELSE at + delta
          [] OTHER -> at

\* console_handle_buttons: the four directions in the code's order.
HandleButtons(o, buttons) ==
    LET page == Rows - 3
        Step(at, b, delta) == IF b \in buttons THEN ScrollDelta(at, delta) ELSE at
    IN  Step(Step(Step(Step(o, "up", 1), "down", -1), "left", page),
             "right", -page)

\* console_handle_held_buttons, run once per tick of the loop: a button acts
\* when it goes down and, held unchanged, again after Delay ticks and then
\* every Interval ticks.
HandleHeld(now) ==
    LET pressed == now \ previous
        t == IF now = {} \/ now # previous THEN 0
             ELSE IF ticks + 1 = Delay + Interval THEN Delay ELSE ticks + 1
        pressedTo == IF pressed = {} THEN offset ELSE HandleButtons(offset, pressed)
    IN  /\ offset' = IF now # {} /\ t = Delay
                     THEN HandleButtons(pressedTo, now) ELSE pressedTo
        /\ ticks' = t
        /\ previous' = now

\* One pass of the loop over the input devices: the events queued since the
\* last pass leave `now` held.  Without any open device nothing is held; an
\* open device that is gone reports nothing more.
Tick(now) ==
    /\ \/ device = "open"
       \/ device = "gone" /\ now = held
       \/ device = "none" /\ now = {}
    /\ held' = now
    /\ HandleHeld(now)
    /\ UNCHANGED <<ring, count, start, partial, device, got, lines>>

\* A key without a function is noted in the console (console_poll_evdev_buttons).
OtherKey ==
    /\ device = "open"
    /\ AddLine(<<>>)
    /\ UNCHANGED <<partial, held, previous, ticks, device, got>>

\* console_input_refresh_fds: only devices that are not open yet are opened.
RefreshFds ==
    /\ device = "none"
    /\ device' = "open"
    /\ AddLine(<<>>)
    /\ UNCHANGED <<partial, held, previous, ticks, got>>

\* The device behind an open descriptor goes away (external).
DeviceGone ==
    /\ device = "open"
    /\ device' = "gone"
    /\ UNCHANGED <<ring, count, start, offset, partial, held, previous, ticks,
                   got, lines>>

\* console_clear and the start of the loop.
Init ==
    /\ ring = [s \in Slots |-> [id |-> 0, text |-> <<>>]]
    /\ count = 0 /\ start = 0 /\ offset = 0
    /\ partial = <<>> /\ got = 0 /\ lines = 0
    /\ held = {} /\ previous = {} /\ ticks = 0
    /\ device = "none"

Next ==
    \/ \E ch \in {"print", "newline", "return", "control"} : Text(ch)
    \/ \E now \in {{}, {"up"}, {"down"}, {"left"}, {"right"}, {"up", "right"}} :
           Tick(now)
    \/ OtherKey
    \/ RefreshFds
    \/ DeviceGone

Spec == Init /\ [][Next]_vars

----------------------------------------------------------------------------

\* How many characters came before the line that is being collected, before
\* the last one, and so on, by the lengths of the retained lines.
Begins ==
    LET at[k \in 0 .. count] ==
            IF k = 0 THEN got - Len(partial)
            ELSE at[k - 1] - Len(LineAt(count - k).text)
    IN  at

\* No character is lost, doubled or reordered when kernel messages are cut
\* into lines and the ring wraps: the retained lines and the line being
\* collected hold the most recent characters, all of them and in order.
TextIsKept ==
    /\ \A j \in 1 .. Len(partial) : partial[j] = Begins[0] + j
    /\ \A k \in 1 .. count : \A j \in 1 .. Len(LineAt(count - k).text) :
           LineAt(count - k).text[j] = Begins[k] + j
    /\ lines <= Scrollback => Begins[count] = 0

\* What draw_console_screen shows is a run of consecutive lines that ends
\* console_view_offset lines before the newest one, whatever the ring's
\* position and however lines and buttons interleaved.
ViewIsConsecutive ==
    \A row \in DOMAIN Shown :
        Shown[row].id = lines - ClampView(offset, count) - Len(Shown) + row

\* A line that arrives while the reader has scrolled up does not move the
\* text under the reader's eyes, unless the top line has left the scrollback.
ReaderKeepsPlace ==
    lines' > lines /\ offset # 0 /\ Len(Shown) = Rows
    => Shown'[1] = Shown[1] \/ Shown[1].id <= lines' - Scrollback

ReaderIsNotMoved == [][ReaderKeepsPlace]_vars
=============================================================================
