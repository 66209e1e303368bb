------------------------------ MODULE Scrolling ------------------------------
(***************************************************************************)
(* What part of a text nflow-tui shows: a spec in the pager, a task's log, *)
(* and a task's output beside the execute tree. The keys count with a      *)
(* height of their own, the drawing with the height there is; an offset is *)
(* from the top for a finished text and from the bottom for one that is    *)
(* still written. Lines and offsets are u16 in the code; wrapped lines and *)
(* markdown that makes a line into several are left out.                   *)
(***************************************************************************)
EXTENDS Integers

CONSTANTS
    MaxLen,     \* lines of a text (bound)
    Wide,       \* 2^16: total_lines and scroll_offset are below it
    Guess,      \* the height the keys assume: 20 in the pager, 40 in a log
    Heights     \* heights of the area

ASSUME ScrollingAssumption ==
    /\ MaxLen \in Nat /\ Wide \in Nat \ {0} /\ Guess \in Nat
    /\ Heights \subseteq Nat

VARIABLES
    text,       \* what shows it: "pager", "log" or "pane", or "none"
    length,     \* lines of the text
    live,       \* is_streaming
    offset,     \* scroll_offset
    height,     \* of the area, without its border
    pressed     \* the last key

scrollVars == <<text, length, live, offset, height, pressed>>

Keys == {"up", "down", "pageUp", "pageDown", "top", "bottom"}

ScrollTypeOK ==
    /\ text \in {"none", "pager", "log", "pane"}
    /\ length \in 0..MaxLen
    /\ live \in BOOLEAN /\ (live => text \in {"log", "pane"})
    /\ offset \in 0..(Wide - 1)
    /\ height \in Heights
    /\ pressed \in Keys \cup {"none"}

\* saturating_sub
Minus(a, b) == IF a > b THEN a - b ELSE 0

Least(a, b) == IF a < b THEN a ELSE b

ScrollInit ==
    /\ text = "none" /\ length = 0 /\ live = FALSE /\ offset = 0
    /\ height \in Heights
    /\ pressed = "none"

-----------------------------------------------------------------------------
Total == length % Wide

\* max_scroll, as the keys and as the drawing have it.
MaxOffset == Minus(Total, Guess)
MaxTop == Minus(Total, height)

\* The first line that is drawn.
Top == IF live THEN Minus(MaxTop, offset) ELSE Least(offset, MaxTop)

\* SpecPagerState::new, set_historical, start_streaming.
Show ==
    /\ text = "none"
    /\ \/ text' \in {"pager", "log", "pane"} /\ live' = FALSE /\ length' \in 0..MaxLen
       \/ text' \in {"log", "pane"} /\ live' = TRUE /\ length' = 0
    /\ offset' = 0 /\ pressed' = "none"
    /\ UNCHANGED height

Leave ==
    /\ text # "none"
    /\ text' = "none" /\ length' = 0 /\ live' = FALSE /\ offset' = 0 /\ pressed' = "none"
    /\ UNCHANGED height

\* append_line goes to the bottom.
AfterLine == 0

Line ==
    /\ live /\ length < MaxLen
    /\ length' = length + 1
    /\ offset' = AfterLine
    /\ pressed' = "none"
    /\ UNCHANGED <<text, live, height>>

\* stop_streaming
Stop ==
    /\ live
    /\ live' = FALSE
    /\ pressed' = "none"
    /\ UNCHANGED <<text, length, offset, height>>

Resize ==
    /\ height' \in Heights \ {height}
    /\ pressed' = "none"
    /\ UNCHANGED <<text, length, live, offset>>

\* Away from where the offset counts from, and back.
Away(n) == IF offset < MaxOffset THEN Least(offset + n, MaxOffset) ELSE offset
Back(n) == Minus(offset, n)

Half == Guess \div 2

\* Mutant of Scrolled: a log that is still written is scrolled like one that is not.
ScrolledFromTop(key) ==
    CASE key = "up" -> Back(1)
      [] key = "down" -> Away(1)
      [] key = "pageUp" -> Back(Half)
      [] key = "pageDown" -> Least(offset + Half, MaxOffset)
      [] key = "top" -> 0
      [] OTHER -> MaxOffset

InText == text \in {"pager", "log"}

\* The keys of the pager and of a log.
Scrolled(key) ==
    CASE key = "up" -> IF live THEN Away(1) ELSE Back(1)
      [] key = "down" -> IF live THEN Back(1) ELSE Away(1)
      [] key = "pageUp" -> IF live THEN Least(offset + Half, MaxOffset) ELSE Back(Half)
      [] key = "pageDown" -> IF live THEN Back(Half) ELSE Least(offset + Half, MaxOffset)
      [] key = "top" -> IF live THEN MaxOffset ELSE 0
      [] OTHER -> IF live THEN 0 ELSE MaxOffset

PressInText ==
    /\ InText
    /\ \E key \in Keys : pressed' = key /\ offset' = Scrolled(key)
    /\ UNCHANGED <<text, length, live, height>>

\* K and J in the execute view.
PressInPane ==
    /\ text = "pane"
    /\ \/ pressed' = "up" /\ offset' = Least(offset + 1, Wide - 1)
       \/ pressed' = "down" /\ offset' = Back(1)
    /\ UNCHANGED <<text, length, live, height>>

ScrollNext == Show \/ Leave \/ Line \/ Stop \/ Resize \/ PressInText \/ PressInPane

ScrollSpec == ScrollInit /\ [][ScrollNext]_scrollVars

-----------------------------------------------------------------------------
(* Properties *)

\* The pager and a log are never scrolled past what their keys take for the
\* end, so that each key in the other direction has an effect: also where a log
\* grew, was finished or has more lines than are counted.
OffsetInRange == InText => offset <= MaxOffset

\* In the pager and in a log a key moves the text in the direction it is named
\* for or not at all, at any height of the area; unless the area is lower than
\* the keys assume, g and G reach the ends.
KeysMoveAsNamed ==
    [][InText =>
          /\ pressed' \in {"up", "pageUp", "top"} => Top' <= Top
          /\ pressed' \in {"down", "pageDown", "bottom"} => Top' >= Top
          /\ pressed' = "top" => Top' = 0 \/ height < Guess
          /\ pressed' = "bottom" => Top' = MaxTop \/ height < Guess]_scrollVars

\* tui.md: G is the bottom. The lines that do not fit a lower area are out of
\* reach, and so is what is above or below the last 65536.
EndsAreReached ==
    [][InText =>
          /\ pressed' = "top" => Top' = 0
          /\ pressed' = "bottom" => Top' + height >= length]_scrollVars

\* The output of a task that has ended is scrolled against its keys.
PaneMovesAsNamed ==
    [][text = "pane" => /\ pressed' = "up" => Top' <= Top
                        /\ pressed' = "down" => Top' >= Top]_scrollVars

\* tui.md: the pane follows the latest output. When the task ends it shows the
\* first line.
EndIsFollowed == [][live /\ ~live' => Top' = Top]_scrollVars
=============================================================================
