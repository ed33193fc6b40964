----------------------------- MODULE Watermarks -----------------------------
(***************************************************************************)
(* A watermark of a module: the highest or lowest value that its history   *)
(* file holds for a trailing window.  Each new sample is held against it   *)
(* as it is written, and once in a while it is read from the file anew.    *)
(*                                                                         *)
(* Times are ages.  Rows that count (online, a number in the mark's        *)
(* column, a "when" column that is not zero) are a time unit apart, as     *)
(* the capture interval has them, and are kept longer than the window; a   *)
(* sample waits in the ring for at most WM_LAG.  Passes of the main loop   *)
(* are shorter than a time unit, and the clock never steps back.  Until     *)
(* things settle a query or a COMMIT may fail; a sample whose INSERT fails *)
(* leaves nothing behind, and is as good as none.                          *)
(***************************************************************************)
EXTENDS Integers, FiniteSets

CONSTANTS
    WM_WINDOW,   \* window_s
    WM_EVERY,    \* MF_HISTORY_MARK_EVERY_S
    WM_LAG,      \* how long a sample waits in the ring
    Values       \* the values of the column

ASSUME WmAssumption ==
    /\ WM_WINDOW \in Nat /\ WM_EVERY \in Nat /\ WM_LAG \in 0 .. WM_WINDOW
    /\ Values \subseteq Int /\ Values # {}

VARIABLES
    file,        \* the rows of the window: age -> value, or {} for no row
    mark,        \* the mark; age and value count when have is TRUE
    due,         \* time to next_mark, 0 when it has come
    slipped,     \* since the file was last read, the mark has left its window or
                 \* taken a sample that is not in the file, or the marks were
                 \* declared anew; or that reading failed
    wm_settled   \* no query and no COMMIT fails any more

wm_vars == <<file, mark, due, slipped, wm_settled>>

Ages == 0 .. WM_WINDOW
RowAges == {a \in Ages : file[a] # {}}
Beats(high, v, w) == IF high THEN v > w ELSE v < w
NoMark(high) == [high |-> high, have |-> FALSE, value |-> CHOOSE v \in Values : TRUE, age |-> 0]

----------------------------------------------------------------------------

\* Wrong variant of LeftWindow: a mark at the very start of its window is replaced.
LeftWindowEarly(mk, age) == mk.age >= age + WM_WINDOW
\* The mark is out of the window of a sample.
LeftWindow(mk, age) == mk.age > age + WM_WINDOW

feed_marks(mk, age, v) ==
    IF ~mk.have \/ LeftWindow(mk, age) \/ Beats(mk.high, v, mk.value)
    THEN [mk EXCEPT !.have = TRUE, !.value = v, !.age = age]
    ELSE mk

\* insert_sample, of a sample that counts, from the slice that writes the ring:
\* the samples of a module come in their order.  The mark takes the sample before
\* the COMMIT, whose result is not looked at.
insert_sample ==
    \E age \in 0 .. WM_LAG, v \in Values, committed \in {TRUE, wm_settled} :
        /\ \A a \in RowAges : a > age
        /\ mark.have => mark.age > age
        /\ file' = IF committed THEN [file EXCEPT ![age] = {v}] ELSE file
        /\ mark' = feed_marks(mark, age, v)
        /\ slipped' = (slipped \/ (~committed /\ mark' # mark))
        /\ UNCHANGED <<due, wm_settled>>

\* The ages of the rows that the query of read_marks may return: SQLite takes
\* any of those with the best value.
BestAges(high) ==
    {a \in RowAges : \A b \in RowAges : \A v \in file[a], w \in file[b] : ~Beats(high, w, v)}

\* read_marks.  A query that fails leaves no mark, and is not repeated sooner.
read_marks ==
    /\ \E answered \in {TRUE, wm_settled} :
          /\ IF RowAges = {} \/ ~answered THEN mark' = NoMark(mark.high)
             ELSE \E a \in BestAges(mark.high) : \E v \in file[a] :
                     mark' = [mark EXCEPT !.have = TRUE, !.value = v, !.age = a]
          /\ slipped' = ~answered
    /\ due' = WM_EVERY
    /\ UNCHANGED <<file, wm_settled>>

mf_history_watermark_slice == due = 0 /\ read_marks

\* mf_history_register of a module that is renamed or opened again: its marks are
\* declared anew, empty, and due.
parse_marks ==
    /\ mark' = NoMark(mark.high)
    /\ due' = 0
    /\ slipped' = TRUE
    /\ UNCHANGED <<file, wm_settled>>

WmSettle == ~wm_settled /\ wm_settled' = TRUE /\ UNCHANGED <<file, mark, due, slipped>>

WmTick ==
    /\ due > 0
    /\ file' = [a \in Ages |-> IF a = 0 THEN {} ELSE file[a - 1]]
    /\ mark' = IF mark.have THEN [mark EXCEPT !.age = @ + 1] ELSE mark
    /\ due' = due - 1
    /\ slipped' = (slipped \/ (mark.have /\ mark.age >= WM_WINDOW))
    /\ UNCHANGED wm_settled

WmRests(high) ==
    /\ file = [a \in Ages |-> {}]
    /\ mark = NoMark(high) /\ due = 0 /\ slipped = TRUE /\ wm_settled = FALSE
WmInit == \E high \in BOOLEAN : WmRests(high)
WmNext == insert_sample \/ mf_history_watermark_slice \/ parse_marks \/ WmSettle \/ WmTick

WmSpec == WmInit /\ [][WmNext]_wm_vars

----------------------------------------------------------------------------

WmTypeOK ==
    /\ file \in [Ages -> SUBSET Values]
    /\ mark \in [high : BOOLEAN, have : BOOLEAN, value : Values, age : Nat]
    /\ due \in 0 .. WM_EVERY
    /\ slipped \in BOOLEAN /\ wm_settled \in BOOLEAN

MarkExact ==
    IF mark.have
    THEN /\ mark.age \in RowAges /\ file[mark.age] = {mark.value}
         /\ \A a \in RowAges : \A v \in file[a] : ~Beats(mark.high, v, mark.value)
    ELSE RowAges = {}
NoneNewerBeats ==
    \A a \in RowAges : a < mark.age => \A v \in file[a] : ~Beats(mark.high, v, mark.value)

\* As long as a mark has not left its window it is what the file would say,
\* however many samples were held against it since it was read, and however many
\* that lost to it were lost themselves; afterwards, and when it took a sample that
\* was lost, it is never one that a newer row beats, nor older than its window and
\* the time between two readings (feed_marks, read_marks).
MarksTrue ==
    /\ ~slipped => MarkExact
    /\ mark.have => mark.age <= WM_WINDOW + WM_EVERY /\ NoneNewerBeats

WmAnswering == wm_settled /\ slipped
WmRead == ~slipped
=============================================================================
