----------------------------- MODULE Manchester -----------------------------
(***************************************************************************)
(* The line code of src/main/protocol_parsers.c, between the two ends that *)
(* ac.c connects by infra-red: generate_manchester makes the symbols of a  *)
(* frame, the receiver's hardware measures how long the line keeps each    *)
(* level, and parse_manchester makes bits of that again.                   *)
(*                                                                         *)
(* One step of the parser reads one run, a stretch of time over which the  *)
(* line keeps its level; two runs, low and high, are a symbol.  Each run   *)
(* is measured with an error.                                              *)
(***************************************************************************)
EXTENDS Integers, Sequences

CONSTANTS
  Bits,          \* bits of a frame (34 in generate_manchester)
  Width,         \* bits of a word (64: uint64_t)
  Repeats,       \* how often a frame is sent in a row (3 in ac.c)
  HalfPeriod,    \* microseconds, 950 in ac.c
  HeaderErrors,  \* errors of the runs of a header, in microseconds,
  Errors,        \*   and of the other runs
  None

ASSUME BitsAssumption   == Bits \in Nat \ {0}
ASSUME WidthAssumption  == Width \in Nat /\ Width >= Bits
ASSUME RepeatAssumption == Repeats \subseteq Nat \ {0}
ASSUME PeriodAssumption == HalfPeriod \in Nat /\ HalfPeriod >= 2

\* A run is off by less than half of a half period, a run of a header by less
\* than three quarters.  Beyond that it may be taken for another run.
ASSUME ErrorAssumption ==
  /\ \A e \in Errors : e \in Int /\ -(HalfPeriod - 2) <= 2 * e /\ 2 * e <= HalfPeriod - 2
  /\ \A e \in HeaderErrors :
       e \in Int /\ -(3 * HalfPeriod - 4) <= 4 * e /\ 4 * e <= 3 * HalfPeriod - 4

ASSUME NoneAssumption == None \notin 0 .. 1

VARIABLES
  value,    \* the word that is sent
  line,     \* levels of the line, one for each half period
  read,     \* half periods in the runs that are read; the first run is low
  pc,       \* what the parser reads next: "mark" or "space" of the header,
            \*   the "low" or the "high" run of a symbol; "done"
  backlog,  \* the level of a half bit that waits for its other half
  symbols,  \* symbols read after the header
  parsed,   \* parsed_value
  taken,    \* history: bits that were shifted into it
  cut,      \* history: the reception ended early
  exact,    \* history: no run was off by more than a quarter of HalfPeriod
  blurred   \* history: the run with the space of the header was

vars == <<value, line, read, pc, backlog, symbols, parsed, taken, cut, exact,
          blurred>>

-----------------------------------------------------------------------------
(* A word by its bits, the lowest is bit 0: word << 1 | bit, word >> n     *)
Words == [0 .. Width - 1 -> 0 .. 1]
Zero  == [b \in 0 .. Width - 1 |-> 0]

ShiftIn(word, bit) ==
  [b \in 0 .. Width - 1 |-> IF b = 0 THEN bit ELSE word[b - 1]]

Shifted(word, n) ==
  [b \in 0 .. Width - 1 |-> IF b + n < Width THEN word[b + n] ELSE 0]

(* ac.c asks for a header of 3 and 3, and a tail of 4 half periods.  The   *)
(* highest bit is the first; a bit is sent as itself and then its opposite.*)
FrameLen == 6 + 2 * Bits

Level(word, n) ==
  IF n <= 6 THEN (IF n <= 3 THEN 0 ELSE 1)
  ELSE LET bit == word[Bits - ((n - 5) \div 2)]
       IN  IF n % 2 = 1 THEN bit ELSE 1 - bit

generate_manchester(word, repeat) ==
  [n \in 1 .. repeat * FrameLen + 4 |->
     IF n <= repeat * FrameLen THEN Level(word, ((n - 1) % FrameLen) + 1) ELSE 0]

Frames == [value : {w \in Words : \A b \in Bits .. Width - 1 : w[b] = 0},
           repeat : Repeats]

Init ==
  /\ \E f \in Frames : /\ value = f.value
                      /\ line = generate_manchester(f.value, f.repeat)
  /\ read = 0
  /\ pc = "mark" /\ backlog = None /\ symbols = 0
  /\ parsed = Zero /\ taken = 0
  /\ cut = FALSE /\ exact = TRUE /\ blurred = FALSE

-----------------------------------------------------------------------------
\* slip: as much as half of the time is tolerated
is_within_half(d, expected) ==
  expected \div 2 <= d /\ d <= (3 * expected) \div 2

(* TIMING_TOLERANCE_PERCENT, with the limits cut to whole microseconds     *)
is_within_tolerance(d, expected) ==
  (3 * expected) \div 4 <= d /\ d <= (5 * expected) \div 4

(* The hardware tells levels apart only where they change: the next run    *)
(* has n half periods, none where the reception ended.                     *)
Run(n) ==
  IF read = Len(line) THEN n = 0
  ELSE /\ n \in 1 .. Len(line) - read
       /\ \A i \in 1 .. n : line[read + i] = line[read + 1]
       /\ read + n < Len(line) => line[read + n + 1] # line[read + 1]

(* It is measured with an error of e.  Where the reception ended in the    *)
(* middle of a symbol, the high run of that has no length.                 *)
Length(n, e) == IF n = 0 THEN 0 ELSE n * HalfPeriod + e
Small(e)     == -HalfPeriod <= 4 * e /\ 4 * e <= HalfPeriod

ReadRun(n, e) ==
  /\ Run(n)
  /\ read' = read + n
  /\ exact' = (exact /\ Small(e))
  /\ blurred' = (blurred \/ (pc = "space" /\ ~Small(e)))
  /\ UNCHANGED <<value, line, cut>>

(* There is no length with the result, and 0 stands for none.              *)
Fail == /\ pc' = "done"
        /\ parsed' = Zero /\ taken' = 0
        /\ UNCHANGED <<backlog, symbols>>

(* parse_manchester: the header                                            *)
Mark ==
  /\ pc = "mark"
  /\ \E n \in 0 .. Len(line), e \in HeaderErrors :
       /\ ReadRun(n, e)
       /\ IF is_within_tolerance(Length(n, e), 3 * HalfPeriod)
          THEN pc' = "space" /\ UNCHANGED <<backlog, symbols, parsed, taken>>
          ELSE Fail

\* slip: the backlog of the header is not verified
BacklogUnverified(d) ==
  IF is_within_tolerance(d, 4 * HalfPeriod) THEN 1 ELSE None

(* The first half of a 1 makes the space longer.                           *)
Backlog(d) ==
  IF /\ is_within_tolerance(d, 4 * HalfPeriod)
     /\ is_within_tolerance(d - 3 * HalfPeriod, HalfPeriod)
  THEN 1 ELSE None

Space ==
  /\ pc = "space"
  /\ \E n \in 0 .. Len(line), e \in HeaderErrors :
       LET d == Length(n, e) IN
       /\ ReadRun(n, e)
       /\ IF \/ is_within_tolerance(d, 4 * HalfPeriod)
             \/ is_within_tolerance(d, 3 * HalfPeriod)
          THEN /\ pc' = "low" /\ backlog' = Backlog(d)
               /\ UNCHANGED <<symbols, parsed, taken>>
          ELSE Fail

-----------------------------------------------------------------------------
(* parse_manchester_data *)

(* What a run of length d at a level makes of the half bit before it.      *)
Take(level, d) ==
  LET left == IF is_within_tolerance(d, 2 * HalfPeriod) THEN level ELSE None
  IN  IF backlog = 1 - level
      THEN /\ parsed' = ShiftIn(parsed, 1 - level) /\ taken' = taken + 1
           /\ backlog' = left
      ELSE backlog' = level /\ UNCHANGED <<parsed, taken>>

Fits(d) == \/ is_within_tolerance(d, HalfPeriod)
           \/ is_within_tolerance(d, 2 * HalfPeriod)

(* Anything else ends the frame, if a symbol of it was read.               *)
Stop == IF symbols = 0 THEN Fail
        ELSE pc' = "done" /\ UNCHANGED <<backlog, symbols, parsed, taken>>

Low ==
  /\ pc = "low" /\ read < Len(line)
  /\ \E n \in 0 .. Len(line), e \in Errors :
       LET d == Length(n, e) IN
       /\ ReadRun(n, e)
       /\ \/ Fits(d) /\ Take(0, d) /\ pc' = "high" /\ UNCHANGED symbols
          \/ ~Fits(d) /\ Stop

High ==
  /\ pc = "high"
  /\ \E n \in 0 .. Len(line), e \in Errors :
       LET d == Length(n, e) IN
       /\ ReadRun(n, e)
       /\ \/ Fits(d) /\ Take(1, d) /\ pc' = "low" /\ symbols' = symbols + 1
          \/ ~Fits(d) /\ Stop

EndOfSymbols ==
  /\ pc = "low" /\ read = Len(line)
  /\ Stop
  /\ UNCHANGED <<value, line, read, cut, exact, blurred>>

(* The reception is interrupted.  ir_task ignores what has less than 5     *)
(* symbols.                                                                *)
Interrupted ==
  /\ \/ pc = "low" /\ symbols + 1 >= 5
     \/ pc = "high" /\ symbols + 2 >= 5
  /\ read < Len(line) /\ read' = Len(line)
  /\ cut' = TRUE
  /\ UNCHANGED <<value, line, pc, backlog, symbols, parsed, taken, exact, blurred>>

Next == Mark \/ Space \/ Low \/ High \/ EndOfSymbols \/ Interrupted

Spec == Init /\ [][Next]_vars

-----------------------------------------------------------------------------
(* A frame that arrives whole and without large errors is read as it was   *)
(* sent; of one whose last bit is a 1 this is not read, for its second     *)
(* half runs into the header or the tail that follows.  (The last bit of   *)
(* airwell_t is always 0.)                                                 *)
(* [generate_manchester, parse_manchester]                                 *)
ReadAsSent == pc = "done" /\ exact /\ ~cut => parsed = Shifted(value, value[0])

(* A frame whose first bit is a 1 (the power key, in airwell_t) loses it   *)
(* with a large error in the header, and all that follows with it.         *)
Clear == value[Bits - 1] = 0 \/ ~blurred

(* Other than that, larger errors, up to the tolerance of a whole bit, and *)
(* a reception that is interrupted, only take bits off the end.  What is   *)
(* left is read as a number of its own, the frame shifted right: to        *)
(* airwell_ir_recv a frame with other settings.                            *)
(* [is_within_tolerance, parse_manchester, parse_manchester_data]          *)
OnlyShortened ==
  Clear => taken \in 0 .. Bits /\ parsed = Shifted(value, Bits - taken)

(* Such a frame never carries the power key, whose bit is the highest: a   *)
(* frame is read with it only if it was sent so, and every other bit is as *)
(* it was sent.  This holds with every error, in the header too.           *)
(* [parse_manchester, airwell_ir_recv]                                     *)
ToggledWhole == parsed[Bits - 1] = 1 => parsed = value
=============================================================================
