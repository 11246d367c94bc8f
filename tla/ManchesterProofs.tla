-------------------------- MODULE ManchesterProofs --------------------------
(***************************************************************************)
(* Proofs about Manchester, for frames of any number of bits, sent any     *)
(* number of times, with every error that its assumptions allow.           *)
(***************************************************************************)
EXTENDS Manchester, TLAPS

(* The bits in the order they are sent.                                   *)
sent == [k \in 1 .. Bits |-> value[Bits - k]]

(* The line, as far as the parser can get: a header, two halves of each    *)
(* bit, and a low level after the frame, of its tail or the next header.   *)
LineInv ==
  /\ value \in Words
  /\ \A b \in Bits .. Width - 1 : value[b] = 0
  /\ sent \in [1 .. Bits -> 0 .. 1]
  /\ line \in Seq(0 .. 1)
  /\ Len(line) >= FrameLen + 4
  /\ line[1] = 0 /\ line[2] = 0 /\ line[3] = 0
  /\ line[4] = 1 /\ line[5] = 1 /\ line[6] = 1
  /\ \A k \in 1 .. Bits : line[5 + 2 * k] = sent[k] /\ line[6 + 2 * k] = 1 - sent[k]
  /\ \A i \in 1 .. 3 : line[FrameLen + i] = 0

-----------------------------------------------------------------------------
(* Arithmetic of the position in a line.                                   *)
LEMMA Multiple ==
  ASSUME NEW r \in Nat \ {0}, NEW m \in Nat
  PROVE  r * m \in Nat /\ r * m >= m
  OBVIOUS

LEMMA Remainder ==
  ASSUME NEW m \in Nat \ {0}, NEW i \in 0 .. m - 1
  PROVE  i % m = i /\ (m + i) % m = i
  OBVIOUS

LEMMA MoreThanOne ==
  ASSUME NEW r \in Nat \ {0}, NEW m \in Nat, r # 1
  PROVE  r * m >= m + m
  OBVIOUS

LEMMA Frame == FrameLen \in Nat /\ FrameLen >= 8
  BY BitsAssumption DEF FrameLen

LEMMA LevelType ==
  ASSUME NEW word \in Words, NEW n \in 1 .. FrameLen
  PROVE  Level(word, n) \in 0 .. 1
<1>1. CASE n <= 6   BY <1>1 DEF Level
<1>2. CASE n > 6
  <2>1. (n - 5) \div 2 \in 1 .. Bits   BY <1>2, BitsAssumption DEF FrameLen
  <2>2. Bits - ((n - 5) \div 2) \in 0 .. Width - 1
    BY <2>1, BitsAssumption, WidthAssumption
  <2>3. word[Bits - ((n - 5) \div 2)] \in 0 .. 1   BY <2>2 DEF Words
  <2> QED BY <1>2, <2>3 DEF Level
<1> QED BY <1>1, <1>2, Frame

(* The halves of a bit. *)
LEMMA LevelBit ==
  ASSUME NEW word \in Words, NEW k \in 1 .. Bits
  PROVE  /\ Level(word, 5 + 2 * k) = word[Bits - k]
         /\ Level(word, 6 + 2 * k) = 1 - word[Bits - k]
<1>1. (5 + 2 * k - 5) \div 2 = k /\ (6 + 2 * k - 5) \div 2 = k   OBVIOUS
<1>2. (5 + 2 * k) % 2 = 1 /\ (6 + 2 * k) % 2 = 0   OBVIOUS
<1>3. ~(5 + 2 * k <= 6) /\ ~(6 + 2 * k <= 6)   OBVIOUS
<1> QED BY <1>1, <1>2, <1>3 DEF Level

(* The levels of the first frame, and the first three after it.            *)
LEMMA LineOf ==
  ASSUME NEW word \in Words, NEW repeat \in Nat \ {0}
  PROVE  LET ln == generate_manchester(word, repeat) IN
           /\ ln \in Seq(0 .. 1)
           /\ Len(ln) >= FrameLen + 4
           /\ \A i \in 1 .. FrameLen : ln[i] = Level(word, i)
           /\ \A i \in 1 .. 3 : ln[FrameLen + i] = 0
<1> DEFINE ln == generate_manchester(word, repeat)
           all == repeat * FrameLen
<1>1. all \in Nat /\ all >= FrameLen   BY Multiple, Frame
<1>2. \A i \in 1 .. all + 4 : ((i - 1) % FrameLen) + 1 \in 1 .. FrameLen   BY <1>1, Frame
<1>3. ln = [i \in 1 .. all + 4 |->
              IF i <= all THEN Level(word, ((i - 1) % FrameLen) + 1) ELSE 0]
  BY DEF generate_manchester
<1> HIDE DEF ln, all
<1>4. \A i \in 1 .. all + 4 : ln[i] \in 0 .. 1   BY <1>2, <1>3, LevelType
<1>5. ln \in Seq(0 .. 1) /\ Len(ln) = all + 4   BY <1>1, <1>3, <1>4
<1>6. \A p \in 1 .. all + 4 : p <= all => ln[p] = Level(word, ((p - 1) % FrameLen) + 1)
  BY <1>3
<1>7. ASSUME NEW i \in 1 .. FrameLen PROVE ln[i] = Level(word, i)
  <2>1. (i - 1) % FrameLen = i - 1   BY Remainder, Frame
  <2>2. i \in 1 .. all + 4 /\ i <= all   BY <1>1, Frame
  <2> QED BY <1>3, <2>1, <2>2
<1>8. ASSUME NEW i \in 1 .. 3 PROVE ln[FrameLen + i] = 0
  <2>1. FrameLen + i \in 1 .. all + 4   BY <1>1, Frame
  <2>2. CASE repeat = 1
    <3>1. all = FrameLen   BY <2>2, Frame DEF all
    <3> QED BY <1>3, <2>1, <3>1, Frame
  <2>3. CASE repeat # 1
    <3>1. all >= FrameLen + FrameLen   BY <2>3, MoreThanOne, Frame DEF all
    <3>2. FrameLen + i <= all   BY <1>1, <3>1, Frame
    <3>3. PICK p \in 1 .. all + 4 : p = FrameLen + i   BY <2>1
    <3>4. p <= all   BY <3>2, <3>3
    <3>5. (p - 1) % FrameLen = i - 1
      <4>1. PICK j \in 0 .. FrameLen - 1 : j = i - 1   BY Frame
      <4>2. (FrameLen + j) % FrameLen = j   BY Remainder, Frame
      <4> QED BY <3>3, <4>1, <4>2, Frame
    <3>6. ((p - 1) % FrameLen) + 1 = i   BY <3>5
    <3>7. Level(word, i) = 0   BY DEF Level
    <3>8. ln[p] = 0   BY <1>6, <3>4, <3>6, <3>7
    <3> QED BY <3>3, <3>8
  <2> QED BY <2>2, <2>3
<1>9. Len(ln) >= FrameLen + 4   BY <1>1, <1>5, Frame
<1> QED BY <1>5, <1>7, <1>8, <1>9 DEF ln

LEMMA SentType ==
  ASSUME value \in Words
  PROVE  sent \in [1 .. Bits -> 0 .. 1]
<1>1. \A k \in 1 .. Bits : Bits - k \in 0 .. Width - 1
  BY BitsAssumption, WidthAssumption
<1> QED BY <1>1 DEF sent, Words

LEMMA LineInit == Init => LineInv
<1> SUFFICES ASSUME Init PROVE LineInv   OBVIOUS
<1>1. PICK f \in Frames : value = f.value /\ line = generate_manchester(f.value, f.repeat)
  BY DEF Init
<1>2. /\ value \in Words /\ f.repeat \in Nat \ {0}
      /\ \A b \in Bits .. Width - 1 : value[b] = 0
  BY <1>1, RepeatAssumption DEF Frames
<1> DEFINE ln == generate_manchester(value, f.repeat)
<1>3. /\ ln \in Seq(0 .. 1)
      /\ Len(ln) >= FrameLen + 4
      /\ \A i \in 1 .. FrameLen : ln[i] = Level(value, i)
      /\ \A i \in 1 .. 3 : ln[FrameLen + i] = 0
  BY <1>2, LineOf
<1>4. line = ln   BY <1>1
<1> HIDE DEF ln
<1>5. \A i \in 1 .. 6 : i \in 1 .. FrameLen   BY Frame
<1>6. /\ Level(value, 1) = 0 /\ Level(value, 2) = 0 /\ Level(value, 3) = 0
      /\ Level(value, 4) = 1 /\ Level(value, 5) = 1 /\ Level(value, 6) = 1
  BY DEF Level
<1>7. /\ line[1] = 0 /\ line[2] = 0 /\ line[3] = 0
      /\ line[4] = 1 /\ line[5] = 1 /\ line[6] = 1
  BY <1>3, <1>4, <1>5, <1>6
<1>8. ASSUME NEW k \in 1 .. Bits
      PROVE  line[5 + 2 * k] = sent[k] /\ line[6 + 2 * k] = 1 - sent[k]
  <2>1. 5 + 2 * k \in 1 .. FrameLen /\ 6 + 2 * k \in 1 .. FrameLen
    BY BitsAssumption DEF FrameLen
  <2>2. sent[k] = value[Bits - k]   BY DEF sent
  <2> QED BY <1>2, <1>3, <1>4, <2>1, <2>2, LevelBit
<1>9. sent \in [1 .. Bits -> 0 .. 1]   BY <1>2, SentType
<1> QED BY <1>2, <1>3, <1>4, <1>7, <1>8, <1>9 DEF LineInv

LEMMA LineKept ==
  ASSUME LineInv, UNCHANGED <<value, line>>
  PROVE  LineInv' /\ sent' = sent
<1>1. sent' = sent   BY DEF sent
<1> QED BY <1>1 DEF LineInv

-----------------------------------------------------------------------------
(* The invariant.  The parser is at the beginning of a bit or, with a      *)
(* backlog, in the middle of it; what it read is the frame shifted right.  *)
TypeInv ==
  /\ read \in 0 .. Len(line)
  /\ pc \in {"mark", "space", "low", "high", "done"}
  /\ backlog \in {0, 1, None}
  /\ symbols \in Nat
  /\ parsed \in Words /\ taken \in Nat
  /\ cut \in BOOLEAN /\ exact \in BOOLEAN /\ blurred \in BOOLEAN

(* Between two runs, the next of which has level v.                        *)
Between(v) == line[read] = 1 - v /\ line[read + 1] = v

Placed(v) ==
  /\ Between(v)
  /\ backlog = None => read = 6 + 2 * taken
  /\ backlog # None => /\ taken < Bits
                       /\ read = 7 + 2 * taken
                       /\ backlog = sent[taken + 1]

ParsedWell == taken <= Bits /\ parsed = Shifted(value, Bits - taken)

(* After a first bit of 1 whose header was blurred the parser may be out   *)
(* of step.  Then a half bit at least is lost for good.                    *)
OutOfStep(v) ==
  /\ Between(v)
  /\ read <= FrameLen
  /\ 7 + 2 * taken + (IF backlog = None THEN 0 ELSE 1) <= read
  /\ ~Clear

HeaderInv ==
  /\ pc = "mark" => read = 0
  /\ pc = "space" => read = 3
  /\ pc \in {"mark", "space"} => /\ backlog = None /\ symbols = 0
                                 /\ parsed = Zero /\ taken = 0 /\ ~cut
  /\ pc = "low" /\ symbols = 0 => parsed = Zero /\ taken = 0
  /\ exact => ~blurred
  /\ pc \in {"mark", "space"} => ~blurred

InStep(v) == (Placed(v) /\ ParsedWell) \/ OutOfStep(v)

PlaceInv == ~cut => (pc = "low" => InStep(0)) /\ (pc = "high" => InStep(1))

(* What is read has no bits that were not taken, and is the frame or too   *)
(* short for its first bit.                                                *)
TopInv    == \A b \in 0 .. Width - 1 : b >= taken => parsed[b] = 0
ResultInv == ParsedWell \/ (taken < Bits /\ ~Clear)

CutInv == cut => pc \in {"low", "high", "done"} /\ (pc # "done" => read = Len(line))

ParseInv == /\ TypeInv /\ LineInv /\ HeaderInv /\ PlaceInv /\ CutInv
            /\ TopInv /\ ResultInv /\ ReadAsSent

-----------------------------------------------------------------------------
(* Words.                                                                  *)
LEMMA WordType ==
  ASSUME NEW word \in Words
  PROVE  /\ Zero \in Words
         /\ \A bit \in 0 .. 1 : ShiftIn(word, bit) \in Words
         /\ \A n \in Nat : Shifted(word, n) \in Words
<1>1. Zero \in Words   BY DEF Zero, Words
<1>2. ASSUME NEW bit \in 0 .. 1 PROVE ShiftIn(word, bit) \in Words
  <2>1. \A b \in 0 .. Width - 1 : b = 0 \/ b - 1 \in 0 .. Width - 1
    BY WidthAssumption
  <2> QED BY <2>1 DEF ShiftIn, Words
<1>3. ASSUME NEW n \in Nat PROVE Shifted(word, n) \in Words
  <2>1. \A b \in 0 .. Width - 1 : b + n < Width => b + n \in 0 .. Width - 1
    BY WidthAssumption
  <2> QED BY <2>1 DEF Shifted, Words
<1> QED BY <1>1, <1>2, <1>3

(* A frame shifted right by all its bits is nothing, by none itself.       *)
LEMMA ShiftedAway ==
  ASSUME NEW word \in Words, \A b \in Bits .. Width - 1 : word[b] = 0
  PROVE  Shifted(word, Bits) = Zero /\ Shifted(word, 0) = word
<1>1. ASSUME NEW b \in 0 .. Width - 1 PROVE b + Bits < Width => word[b + Bits] = 0
  <2> SUFFICES ASSUME b + Bits < Width PROVE word[b + Bits] = 0   OBVIOUS
  <2>1. PICK c \in Bits .. Width - 1 : c = b + Bits   BY BitsAssumption, WidthAssumption
  <2> QED BY <2>1
<1>2. Shifted(word, Bits) = Zero   BY <1>1, Zenon DEF Shifted, Zero
<1>3. \A b \in 0 .. Width - 1 : b + 0 < Width /\ b + 0 = b   BY WidthAssumption
<1>4. word = [b \in 0 .. Width - 1 |-> word[b]]   BY DEF Words
<1>5. Shifted(word, 0) = word   BY <1>3, <1>4 DEF Shifted
<1> QED BY <1>2, <1>5

(* The next bit that is sent takes its place behind the ones before it.    *)
LEMMA Appended ==
  ASSUME LineInv, NEW t \in Nat, t < Bits
  PROVE  ShiftIn(Shifted(value, Bits - t), sent[t + 1]) = Shifted(value, Bits - (t + 1))
<1> DEFINE m == Bits - (t + 1)
           w == Shifted(value, Bits - t)
<1>1. m \in Nat /\ m < Width /\ Bits - t = m + 1
  BY BitsAssumption, WidthAssumption
<1>2. sent[t + 1] = value[m]
  <2>1. t + 1 \in 1 .. Bits   BY BitsAssumption
  <2> QED BY <2>1 DEF sent
<1> HIDE DEF m
<1>3. w = [b \in 0 .. Width - 1 |->
             IF b + (m + 1) < Width THEN value[b + (m + 1)] ELSE 0]
  BY <1>1 DEF Shifted
<1> HIDE DEF w
<1>4. ASSUME NEW b \in 0 .. Width - 1
      PROVE  (IF b = 0 THEN value[m] ELSE w[b - 1])
               = (IF b + m < Width THEN value[b + m] ELSE 0)
  <2>1. CASE b = 0   BY <1>1, <2>1, WidthAssumption
  <2>2. CASE b # 0
    <3>1. PICK c \in 0 .. Width - 1 : c = b - 1   BY <2>2, WidthAssumption
    <3>2. c + (m + 1) = b + m   BY <1>1, <3>1
    <3>3. w[c] = IF c + (m + 1) < Width THEN value[c + (m + 1)] ELSE 0   BY <1>3
    <3> QED BY <2>2, <3>1, <3>2, <3>3
  <2> QED BY <2>1, <2>2
<1>5. ShiftIn(w, value[m]) = Shifted(value, m)   BY <1>4 DEF ShiftIn, Shifted
<1> QED BY <1>2, <1>5 DEF m, w

LEMMA TopShifted ==
  ASSUME TypeInv, TopInv, NEW bit, parsed' = ShiftIn(parsed, bit), taken' = taken + 1
  PROVE  TopInv'
<1> SUFFICES ASSUME NEW b \in 0 .. Width - 1, b >= taken + 1 PROVE ShiftIn(parsed, bit)[b] = 0
  BY DEF TopInv
<1>1. PICK c \in 0 .. Width - 1 : c = b - 1   BY WidthAssumption DEF TypeInv
<1>2. b # 0 /\ c >= taken   BY <1>1 DEF TypeInv
<1>3. parsed[c] = 0   BY <1>2 DEF TopInv
<1> QED BY <1>1, <1>2, <1>3 DEF ShiftIn

-----------------------------------------------------------------------------
(* What the tolerance makes of runs of every length.                       *)
LEMMA ErrorsAreSmall ==
  ASSUME NEW e \in Errors
  PROVE  e \in Int /\ -(HalfPeriod - 2) <= 2 * e /\ 2 * e <= HalfPeriod - 2
  BY ErrorAssumption

LEMMA HeaderErrorsAreSmall ==
  ASSUME NEW e \in HeaderErrors
  PROVE  e \in Int /\ -(3 * HalfPeriod - 4) <= 4 * e /\ 4 * e <= 3 * HalfPeriod - 4
  BY ErrorAssumption

(* One half period may fit, and does with a small error; it is never taken *)
(* for two.                                                                *)
LEMMA OneHalf ==
  ASSUME NEW e \in Errors
  PROVE  /\ ~is_within_tolerance(Length(1, e), 2 * HalfPeriod)
         /\ Small(e) => Fits(Length(1, e))
  BY ErrorsAreSmall, PeriodAssumption DEF is_within_tolerance, Length, Small, Fits

(* Two half periods are always taken for two.                              *)
LEMMA TwoHalves ==
  ASSUME NEW e \in Errors
  PROVE  is_within_tolerance(Length(2, e), 2 * HalfPeriod) /\ Fits(Length(2, e))
  BY ErrorsAreSmall, PeriodAssumption DEF is_within_tolerance, Length, Fits

(* More, or none, fit nothing.                                             *)
LEMMA ManyHalves ==
  ASSUME NEW e \in Errors, NEW n \in Nat, n = 0 \/ n >= 3
  PROVE  ~Fits(Length(n, e))
<1>1. CASE n = 0
  BY <1>1, PeriodAssumption DEF is_within_tolerance, Length, Fits
<1>2. CASE n >= 3
  <2> DEFINE w == n * HalfPeriod
  <2>1. w \in Int /\ w >= 3 * HalfPeriod   BY <1>2, PeriodAssumption
  <2>2. Length(n, e) = w + e   BY <1>2 DEF Length
  <2> HIDE DEF w
  <2> QED BY <2>1, <2>2, ErrorsAreSmall, PeriodAssumption DEF is_within_tolerance, Fits
<1> QED BY <1>1, <1>2

(* The header of a frame that starts with a 0 has no backlog, that of one  *)
(* that starts with a 1 has if it is not blurred.                          *)
LEMMA HeaderOfZero ==
  ASSUME NEW e \in HeaderErrors
  PROVE  Backlog(Length(3, e)) = None
  BY HeaderErrorsAreSmall, PeriodAssumption DEF is_within_tolerance, Length, Backlog

LEMMA HeaderOfOne ==
  ASSUME NEW e \in HeaderErrors, Small(e)
  PROVE  Backlog(Length(4, e)) = 1
  BY HeaderErrorsAreSmall, PeriodAssumption DEF is_within_tolerance, Length, Backlog, Small

(* A header without large errors is accepted.                              *)
LEMMA HeaderFits ==
  ASSUME NEW e \in HeaderErrors, NEW n \in {3, 4}, Small(e)
  PROVE  is_within_tolerance(Length(n, e), n * HalfPeriod)
<1>1. n = 3 \/ n = 4   OBVIOUS
<1>2. is_within_tolerance(Length(3, e), 3 * HalfPeriod)
  BY HeaderErrorsAreSmall, PeriodAssumption DEF is_within_tolerance, Length, Small
<1>3. is_within_tolerance(Length(4, e), 4 * HalfPeriod)
  BY HeaderErrorsAreSmall, PeriodAssumption DEF is_within_tolerance, Length, Small
<1> QED BY <1>1, <1>2, <1>3

-----------------------------------------------------------------------------
(* The length of the next run, from the levels that follow.                *)
LEMMA RunLength ==
  ASSUME TypeInv, LineInv, NEW n \in Nat, Run(n),
         NEW k \in Nat \ {0}, read + k < Len(line),
         \A i \in 1 .. k : line[read + i] = line[read + 1]
  PROVE  n >= k /\ (line[read + k + 1] # line[read + 1] => n = k)
<1>1. read \in Nat /\ Len(line) \in Nat   BY DEF TypeInv, LineInv
<1>2. /\ n \in 1 .. Len(line) - read
      /\ \A i \in 1 .. n : line[read + i] = line[read + 1]
      /\ read + n < Len(line) => line[read + n + 1] # line[read + 1]
  BY <1>1 DEF Run
<1>3. n >= k
  <2> SUFFICES ASSUME n < k PROVE FALSE   BY <1>1
  <2>1. n + 1 \in 1 .. k   BY <1>2
  <2>2. line[read + n + 1] = line[read + (n + 1)]   BY <1>1
  <2> QED BY <1>1, <1>2, <2>1, <2>2
<1>4. ASSUME line[read + k + 1] # line[read + 1] PROVE n = k
  <2> SUFFICES ASSUME n > k PROVE FALSE   BY <1>3
  <2>1. k + 1 \in 1 .. n   OBVIOUS
  <2>2. line[read + k + 1] = line[read + (k + 1)]   BY <1>1
  <2> QED BY <1>2, <1>4, <2>1, <2>2
<1> QED BY <1>3, <1>4

(* Where a run ends before the line does, the next has the other level.    *)
LEMMA RunAfter ==
  ASSUME TypeInv, LineInv, NEW n \in Nat, Run(n), n # 0, read + n < Len(line)
  PROVE  line[read + n] = line[read + 1] /\ line[read + n + 1] # line[read + 1]
<1>1. read \in Nat /\ Len(line) \in Nat   BY DEF TypeInv, LineInv
<1>2. n \in 1 .. n   OBVIOUS
<1> QED BY <1>1, <1>2 DEF Run

(* A half bit: levels of the line before and after the end of the frame.   *)
LEMMA Halves ==
  ASSUME LineInv, NEW j \in Nat, j < Bits
  PROVE  /\ sent[j + 1] \in 0 .. 1
         /\ line[7 + 2 * j] = sent[j + 1] /\ line[8 + 2 * j] = 1 - sent[j + 1]
         /\ j + 1 < Bits => /\ line[9 + 2 * j] = sent[j + 2]
                            /\ line[10 + 2 * j] = 1 - sent[j + 2]
                            /\ sent[j + 2] \in 0 .. 1
         /\ j + 1 = Bits => /\ line[9 + 2 * j] = 0 /\ line[10 + 2 * j] = 0
                            /\ line[11 + 2 * j] = 0
         /\ 11 + 2 * j < Len(line)
<1>1. j + 1 \in 1 .. Bits   BY BitsAssumption
<1>2. line[5 + 2 * (j + 1)] = sent[j + 1] /\ line[6 + 2 * (j + 1)] = 1 - sent[j + 1]
  BY <1>1, Zenon DEF LineInv
<1>3. 5 + 2 * (j + 1) = 7 + 2 * j /\ 6 + 2 * (j + 1) = 8 + 2 * j   OBVIOUS
<1>4. ASSUME j + 1 < Bits
      PROVE  line[9 + 2 * j] = sent[j + 2] /\ line[10 + 2 * j] = 1 - sent[j + 2]
  <2>1. j + 2 \in 1 .. Bits   BY <1>4, BitsAssumption
  <2>2. line[5 + 2 * (j + 2)] = sent[j + 2] /\ line[6 + 2 * (j + 2)] = 1 - sent[j + 2]
    BY <2>1, Zenon DEF LineInv
  <2>3. 5 + 2 * (j + 2) = 9 + 2 * j /\ 6 + 2 * (j + 2) = 10 + 2 * j   OBVIOUS
  <2> QED BY <2>2, <2>3
<1>5. ASSUME j + 1 = Bits
      PROVE  line[9 + 2 * j] = 0 /\ line[10 + 2 * j] = 0 /\ line[11 + 2 * j] = 0
  <2>1. FrameLen + 1 = 9 + 2 * j /\ FrameLen + 2 = 10 + 2 * j /\ FrameLen + 3 = 11 + 2 * j
    BY <1>5, BitsAssumption DEF FrameLen
  <2>2. line[FrameLen + 1] = 0 /\ line[FrameLen + 2] = 0 /\ line[FrameLen + 3] = 0
    BY DEF LineInv
  <2> QED BY <2>1, <2>2
<1>6. 11 + 2 * j < Len(line)
  BY BitsAssumption DEF LineInv, FrameLen
<1>7. sent[j + 1] \in 0 .. 1 /\ (j + 1 < Bits => sent[j + 2] \in 0 .. 1)
  BY BitsAssumption DEF LineInv
<1> QED BY <1>2, <1>3, <1>4, <1>5, <1>6, <1>7

(* What the next run can be: the first half of a bit, the second half, the *)
(* second half with the first half of the next bit, or the end.            *)
LEMMA NextRun ==
  ASSUME TypeInv, LineInv, NEW v \in {0, 1}, Placed(v), taken <= Bits,
         NEW n \in Nat, Run(n)
  PROVE  \/ /\ n = 1 /\ backlog = None
            /\ taken < Bits /\ sent[taken + 1] = v
         \/ /\ n = 1 /\ backlog = 1 - v
            /\ taken < Bits /\ sent[taken + 1] = 1 - v
         \/ /\ n = 2 /\ backlog = 1 - v
            /\ taken + 1 < Bits /\ sent[taken + 1] = 1 - v
            /\ sent[taken + 2] = v
         \/ /\ n >= 3 /\ v = 0
            /\ sent[Bits] \in 0 .. 1 /\ taken = Bits - sent[Bits]
<1> DEFINE j == taken
<1>1. j \in Nat /\ read \in Nat /\ Bits \in Nat /\ Len(line) \in Nat
  BY BitsAssumption DEF TypeInv, LineInv
<1>2. line[read] = 1 - v /\ line[read + 1] = v   BY DEF Placed, Between
<1> DEFINE Same(k) == \A i \in 1 .. k : line[read + i] = line[read + 1]
<1>3. Same(1)   OBVIOUS
<1>4. \A k \in 1 .. 3 : /\ read + k < Len(line) /\ Same(k) => n >= k
                        /\ read + k < Len(line) /\ Same(k)
                             /\ line[read + k + 1] # line[read + 1] => n = k
  BY RunLength
<1>5. CASE backlog = None
  <2>1. read = 6 + 2 * j   BY <1>5 DEF Placed
  <2>2. CASE j < Bits
    <3>1. /\ line[7 + 2 * j] = sent[j + 1] /\ line[8 + 2 * j] = 1 - sent[j + 1]
          /\ 11 + 2 * j < Len(line) /\ sent[j + 1] \in 0 .. 1
      BY <1>1, <2>2, Halves
    <3>2. read + 1 = 7 + 2 * j /\ read + 1 + 1 = 8 + 2 * j   BY <1>1, <2>1
    <3>3. sent[j + 1] = v   BY <1>2, <3>1, <3>2
    <3>4. line[read + 1 + 1] # line[read + 1]   BY <1>2, <3>1, <3>2, <3>3
    <3>5. n = 1   BY <1>1, <1>3, <1>4, <3>1, <3>2, <3>4
    <3> QED BY <1>5, <2>2, <3>3, <3>5
  <2>3. CASE j = Bits
    <3>1. PICK i \in Nat : i + 1 = Bits /\ i < Bits   BY BitsAssumption
    <3>2. /\ line[8 + 2 * i] = 1 - sent[i + 1] /\ sent[i + 1] \in 0 .. 1
          /\ line[9 + 2 * i] = 0 /\ line[10 + 2 * i] = 0 /\ line[11 + 2 * i] = 0
          /\ 11 + 2 * i < Len(line)
      BY <3>1, Halves
    <3>3. /\ read = 8 + 2 * i /\ read + 1 = 9 + 2 * i /\ read + 2 = 10 + 2 * i
          /\ read + 3 = 11 + 2 * i
      BY <1>1, <2>1, <2>3, <3>1
    <3>4. v = 0 /\ sent[Bits] = 0   BY <1>2, <3>1, <3>2, <3>3
    <3>5. Same(3)   BY <1>1, <3>2, <3>3
    <3>6. n >= 3   BY <1>4, <3>2, <3>3, <3>5
    <3> QED BY <2>3, <3>4, <3>6, <1>1
  <2> QED BY <1>1, <2>2, <2>3
<1>6. CASE backlog # None
  <2>1. read = 7 + 2 * j /\ j < Bits /\ backlog = sent[j + 1]   BY <1>6 DEF Placed
  <2>2. /\ sent[j + 1] \in 0 .. 1
        /\ line[7 + 2 * j] = sent[j + 1]
        /\ j + 1 < Bits => /\ line[9 + 2 * j] = sent[j + 2]
                           /\ line[10 + 2 * j] = 1 - sent[j + 2]
                           /\ sent[j + 2] \in 0 .. 1
        /\ j + 1 = Bits => /\ line[9 + 2 * j] = 0 /\ line[10 + 2 * j] = 0
                           /\ line[11 + 2 * j] = 0
        /\ 11 + 2 * j < Len(line)
    BY <1>1, <2>1, Halves
  <2>3. /\ read + 1 = 8 + 2 * j /\ read + 2 = 9 + 2 * j /\ read + 1 + 1 = 9 + 2 * j
        /\ read + 3 = 10 + 2 * j /\ read + 2 + 1 = 10 + 2 * j
    BY <1>1, <2>1
  <2>4. sent[j + 1] = 1 - v   BY <1>2, <2>1, <2>2
  <2>5. CASE j + 1 < Bits
    <3>1. CASE sent[j + 2] = 1 - v
      <4>1. n = 1   BY <1>1, <1>2, <1>3, <1>4, <2>2, <2>3, <2>5, <3>1
      <4> QED BY <2>1, <2>4, <4>1
    <3>2. CASE sent[j + 2] = v
      <4>1. line[read + 2] = v   BY <2>2, <2>3, <2>5, <3>2
      <4>2. Same(2)
        <5>1. \A i \in 1 .. 2 : i = 1 \/ i = 2   OBVIOUS
        <5> QED BY <1>2, <4>1, <5>1
      <4>3. n = 2   BY <1>1, <1>2, <1>4, <2>2, <2>3, <2>5, <3>2, <4>2
      <4> QED BY <2>1, <2>4, <2>5, <3>2, <4>3
    <3> QED BY <2>2, <2>5, <3>1, <3>2
  <2>6. CASE j + 1 = Bits
    <3>1. CASE v = 1
      <4>1. n = 1   BY <1>1, <1>2, <1>3, <1>4, <2>2, <2>3, <2>6, <3>1
      <4> QED BY <2>1, <2>4, <4>1
    <3>2. CASE v = 0
      <4>1. Same(3)   BY <1>1, <1>2, <2>2, <2>3, <2>6, <3>2
      <4>2. n >= 3   BY <1>1, <1>4, <2>2, <2>3, <4>1
      <4>3. sent[Bits] = 1 /\ j = Bits - 1   BY <1>1, <2>4, <2>6, <3>2
      <4> QED BY <1>1, <3>2, <4>2, <4>3
    <3> QED BY <3>1, <3>2
  <2> QED BY <1>1, <2>1, <2>5, <2>6
<1> QED BY <1>5, <1>6

-----------------------------------------------------------------------------
(* Types, the line and the header.                                         *)
LEMMA ReadRunType ==
  ASSUME TypeInv, LineInv, NEW n \in Nat, NEW e, ReadRun(n, e)
  PROVE  /\ read' \in 0 .. Len(line') /\ read' = read + n
         /\ line' = line /\ value' = value /\ cut' = cut
         /\ exact' \in BOOLEAN /\ blurred' \in BOOLEAN
         /\ exact' <=> exact /\ Small(e)
         /\ blurred' <=> (blurred \/ (pc = "space" /\ ~Small(e)))
<1>1. line' = line /\ value' = value /\ cut' = cut /\ read' = read + n   BY DEF ReadRun
<1>2. read' \in 0 .. Len(line)
  BY <1>1 DEF ReadRun, Run, TypeInv, LineInv
<1>3. exact' \in BOOLEAN /\ blurred' \in BOOLEAN
  BY Zenon DEF ReadRun
<1>4. exact' <=> exact /\ Small(e)   BY Zenon DEF ReadRun, TypeInv
<1>5. blurred' <=> (blurred \/ (pc = "space" /\ ~Small(e)))   BY Zenon DEF ReadRun, TypeInv
<1> QED BY <1>1, <1>2, <1>3, <1>4, <1>5

LEMMA TakeType ==
  ASSUME TypeInv, NEW v \in {0, 1}, NEW d, Take(v, d)
  PROVE  backlog' \in {0, 1, None} /\ parsed' \in Words /\ taken' \in Nat
<1>1. 1 - v \in 0 .. 1   OBVIOUS
<1>2. parsed \in Words /\ taken \in Nat   BY DEF TypeInv
<1>3. ShiftIn(parsed, 1 - v) \in Words   BY <1>1, <1>2, WordType
<1> QED BY <1>1, <1>2, <1>3 DEF TypeInv, Take

LEMMA StopType ==
  ASSUME TypeInv, Stop
  PROVE  /\ pc' = "done" /\ parsed' = (IF symbols = 0 THEN Zero ELSE parsed)
         /\ taken' = (IF symbols = 0 THEN 0 ELSE taken)
         /\ backlog' = backlog /\ symbols' = symbols
         /\ parsed' \in Words /\ taken' \in Nat
<1>1. parsed \in Words /\ taken \in Nat   BY DEF TypeInv
<1>2. Zero \in Words   BY <1>1, WordType
<1> QED BY <1>1, <1>2 DEF Stop, Fail

LEMMA TypeStep == TypeInv /\ LineInv /\ [Next]_vars => TypeInv' /\ LineInv'
<1> SUFFICES ASSUME TypeInv, LineInv, [Next]_vars PROVE TypeInv' /\ LineInv'
  OBVIOUS
<1>0. \A n \in 0 .. Len(line) : n \in Nat   BY DEF LineInv
<1>8. Zero \in Words   BY WordType DEF TypeInv
<1>1. CASE Mark
  <2>1. PICK n \in 0 .. Len(line), e \in HeaderErrors :
          /\ ReadRun(n, e)
          /\ IF is_within_tolerance(Length(n, e), 3 * HalfPeriod)
             THEN pc' = "space" /\ UNCHANGED <<backlog, symbols, parsed, taken>>
             ELSE Fail
    BY <1>1 DEF Mark
  <2>2. /\ read' \in 0 .. Len(line') /\ line' = line /\ value' = value /\ cut' = cut
        /\ exact' \in BOOLEAN /\ blurred' \in BOOLEAN
    BY <1>0, <2>1, ReadRunType
  <2>3. /\ pc' \in {"space", "done"} /\ parsed' \in Words /\ taken' \in Nat
        /\ backlog' = backlog /\ symbols' = symbols
    BY <1>8, <2>1 DEF Fail, TypeInv
  <2> QED BY <2>2, <2>3, LineKept DEF TypeInv
<1>2. CASE Space
  <2>1. PICK n \in 0 .. Len(line), e \in HeaderErrors :
          /\ ReadRun(n, e)
          /\ \/ /\ pc' = "low" /\ backlog' = Backlog(Length(n, e))
                /\ UNCHANGED <<symbols, parsed, taken>>
             \/ Fail
    BY <1>2 DEF Space
  <2>2. /\ read' \in 0 .. Len(line') /\ line' = line /\ value' = value /\ cut' = cut
        /\ exact' \in BOOLEAN /\ blurred' \in BOOLEAN
    BY <1>0, <2>1, ReadRunType
  <2>3. /\ pc' \in {"low", "done"} /\ parsed' \in Words /\ taken' \in Nat
        /\ backlog' \in {1, None, backlog} /\ symbols' = symbols
    BY <1>8, <2>1 DEF Fail, Backlog, TypeInv
  <2> QED BY <2>2, <2>3, LineKept DEF TypeInv
<1>3. CASE Low
  <2>1. PICK n \in 0 .. Len(line), e \in Errors :
          /\ ReadRun(n, e)
          /\ \/ Take(0, Length(n, e)) /\ pc' = "high" /\ UNCHANGED symbols
             \/ Stop
    BY <1>3 DEF Low
  <2>2. /\ read' \in 0 .. Len(line') /\ line' = line /\ value' = value /\ cut' = cut
        /\ exact' \in BOOLEAN /\ blurred' \in BOOLEAN
    BY <1>0, <2>1, ReadRunType
  <2>3. /\ pc' \in {"high", "done"} /\ parsed' \in Words /\ taken' \in Nat
        /\ backlog' \in {0, 1, None} /\ symbols' = symbols
    BY <2>1, TakeType, StopType DEF TypeInv
  <2> QED BY <2>2, <2>3, LineKept DEF TypeInv
<1>4. CASE High
  <2>1. PICK n \in 0 .. Len(line), e \in Errors :
          /\ ReadRun(n, e)
          /\ \/ Take(1, Length(n, e)) /\ pc' = "low" /\ symbols' = symbols + 1
             \/ Stop
    BY <1>4 DEF High
  <2>2. /\ read' \in 0 .. Len(line') /\ line' = line /\ value' = value /\ cut' = cut
        /\ exact' \in BOOLEAN /\ blurred' \in BOOLEAN
    BY <1>0, <2>1, ReadRunType
  <2>3. /\ pc' \in {"low", "done"} /\ parsed' \in Words /\ taken' \in Nat
        /\ backlog' \in {0, 1, None} /\ symbols' \in Nat
    BY <2>1, TakeType, StopType DEF TypeInv
  <2> QED BY <2>2, <2>3, LineKept DEF TypeInv
<1>5. CASE EndOfSymbols
  <2>1. Stop /\ UNCHANGED <<value, line, read, cut, exact, blurred>>
    BY <1>5 DEF EndOfSymbols
  <2>2. /\ pc' = "done" /\ parsed' \in Words /\ taken' \in Nat
        /\ backlog' = backlog /\ symbols' = symbols
    BY <2>1, StopType
  <2> QED BY <2>1, <2>2, LineKept DEF TypeInv
<1>6. CASE Interrupted
  <2>1. /\ read' = Len(line) /\ cut' = TRUE
        /\ UNCHANGED <<value, line, pc, backlog, symbols, parsed, taken, exact, blurred>>
    BY <1>6 DEF Interrupted
  <2>2. Len(line) \in 0 .. Len(line)   BY DEF LineInv
  <2> QED BY <2>1, <2>2, LineKept DEF TypeInv
<1>7. CASE UNCHANGED vars
  BY <1>7, LineKept DEF vars, TypeInv
<1> QED BY <1>1, <1>2, <1>3, <1>4, <1>5, <1>6, <1>7 DEF Next
-----------------------------------------------------------------------------
(* What a run makes of a place in the frame.                               *)
LEMMA FirstBit == LineInv => sent[1] = value[Bits - 1]
<1>1. 1 \in 1 .. Bits   BY BitsAssumption
<1> QED BY <1>1 DEF sent

(* The levels of the two halves that a run lies between.                   *)
LEMMA BetweenNext ==
  ASSUME TypeInv, LineInv, NEW v \in {0, 1}, Between(v), NEW n \in Nat,
         Run(n), read + n < Len(line), n # 0, line' = line, read' = read + n
  PROVE  Between(1 - v)'
<1>1. read \in Nat /\ Len(line) \in Nat   BY DEF TypeInv, LineInv
<1>2. line[read + n] = line[read + 1] /\ line[read + n + 1] # line[read + 1]
  BY RunAfter
<1>3. read + n + 1 \in 1 .. Len(line)   BY <1>1
<1>4. line[read + n + 1] \in 0 .. 1   BY <1>3 DEF LineInv
<1>5. line[read + 1] = v   BY DEF Between
<1>6. line[read + n] = 1 - (1 - v) /\ line[read + n + 1] = 1 - v   BY <1>2, <1>4, <1>5
<1> QED BY <1>6 DEF Between

LEMMA TakePlaced ==
  ASSUME TypeInv, LineInv, NEW v \in {0, 1}, Placed(v), ParsedWell,
         NEW n \in Nat, NEW e \in Errors, ReadRun(n, e),
         Fits(Length(n, e)), Take(v, Length(n, e))
  PROVE  Placed(1 - v)' /\ ParsedWell'
<1> DEFINE j == taken
           d == Length(n, e)
<1>1. Run(n) /\ line' = line /\ value' = value /\ sent' = sent /\ read' = read + n
  BY DEF ReadRun, sent
<1>2. j \in Nat /\ read \in Nat /\ Bits \in Nat /\ Len(line) \in Nat /\ j <= Bits
  BY BitsAssumption DEF TypeInv, LineInv, ParsedWell
<1>3. 1 - v # None /\ v # None /\ 1 - (1 - v) = v   BY NoneAssumption
<1>4. Between(v)   BY DEF Placed
<1>5. read + n < Len(line) /\ n # 0 => Between(1 - v)'
  BY <1>1, <1>4, BetweenNext
<1>6. CASE /\ n = 1 /\ backlog = None
           /\ j < Bits /\ sent[j + 1] = v
  <2>1. backlog' = v /\ parsed' = parsed /\ taken' = taken   BY <1>3, <1>6 DEF Take
  <2>2. read' = 7 + 2 * j   BY <1>1, <1>2, <1>6 DEF Placed
  <2>3. read + n < Len(line)   BY <1>1, <1>2, <1>6, <2>2, Halves
  <2>4. Placed(1 - v)'
    BY <1>1, <1>3, <1>5, <1>6, <2>1, <2>2, <2>3 DEF Placed
  <2> QED BY <1>1, <2>1, <2>4 DEF ParsedWell
<1>7. CASE /\ n \in {1, 2} /\ backlog = 1 - v
           /\ j < Bits /\ sent[j + 1] = 1 - v
           /\ n = 2 => j + 1 < Bits /\ sent[j + 2] = v
  <2>1. parsed' = ShiftIn(parsed, 1 - v) /\ taken' = taken + 1
        /\ backlog' = (IF is_within_tolerance(d, 2 * HalfPeriod) THEN v ELSE None)
    BY <1>7 DEF Take
  <2>2. backlog' = (IF n = 2 THEN v ELSE None)   BY <1>7, <2>1, OneHalf, TwoHalves
  <2>3. read = 7 + 2 * j   BY <1>3, <1>7 DEF Placed
  <2>4. read + n < Len(line)   BY <1>2, <1>7, <2>3, Halves
  <2>5. taken' = j + 1   BY <2>1
  <2>6. ParsedWell'
    <3>1. j + 1 <= Bits   BY <1>2, <1>7
    <3>2. parsed = Shifted(value, Bits - j)   BY DEF ParsedWell
    <3>3. parsed' = Shifted(value, Bits - (j + 1))   BY <1>2, <1>7, <2>1, <3>2, Appended
    <3> QED BY <1>1, <2>5, <3>1, <3>3 DEF ParsedWell
  <2>7. /\ backlog' = None => read' = 6 + 2 * taken'
        /\ backlog' # None => /\ taken' < Bits
                              /\ read' = 7 + 2 * taken'
                              /\ backlog' = sent'[taken' + 1]
    <3>1. CASE n = 1   BY <1>1, <1>2, <2>2, <2>3, <2>5, <3>1
    <3>2. CASE n = 2
      <4>1. backlog' = v /\ v # None   BY <1>3, <2>2, <3>2
      <4>2. taken' + 1 = j + 2 /\ taken' < Bits   BY <1>2, <1>7, <2>5, <3>2
      <4>3. read' = 7 + 2 * taken'   BY <1>1, <1>2, <2>3, <2>5, <3>2
      <4> QED BY <1>1, <1>7, <3>2, <4>1, <4>2, <4>3
    <3> QED BY <1>7, <3>1, <3>2
  <2>8. Placed(1 - v)'
    BY <1>1, <1>5, <1>7, <2>4, <2>7 DEF Placed
  <2> QED BY <2>6, <2>8
<1>8. CASE n >= 3
  BY <1>8, ManyHalves
<1>9. \/ /\ n = 1 /\ backlog = None
         /\ j < Bits /\ sent[j + 1] = v
      \/ /\ n \in {1, 2} /\ backlog = 1 - v
         /\ j < Bits /\ sent[j + 1] = 1 - v
         /\ n = 2 => j + 1 < Bits /\ sent[j + 2] = v
      \/ n >= 3
  <2>1. taken <= Bits   BY DEF ParsedWell
  <2>2. j + 1 < Bits => j < Bits   BY <1>2
  <2> QED BY <1>1, <1>2, <2>1, <2>2, NextRun
<1> QED BY <1>6, <1>7, <1>8, <1>9

(* Only the end of a frame makes the parser stop if the error is small.    *)
LEMMA StopPlaced ==
  ASSUME TypeInv, LineInv, NEW v \in {0, 1}, Placed(v), ParsedWell,
         NEW n \in Nat, NEW e \in Errors, ReadRun(n, e),
         ~Fits(Length(n, e)), Small(e)
  PROVE  v = 0 /\ sent[Bits] \in 0 .. 1 /\ taken = Bits - sent[Bits]
<1>1. Run(n)   BY DEF ReadRun
<1>2. n # 1 /\ n # 2   BY OneHalf, TwoHalves
<1> QED BY <1>1, <1>2, NextRun DEF ParsedWell

LEMMA WholeFrame ==
  ASSUME TypeInv, LineInv, ParsedWell,
         sent[Bits] \in 0 .. 1, taken = Bits - sent[Bits]
  PROVE  parsed = Shifted(value, value[0])
<1>1. Bits \in 1 .. Bits /\ Bits - Bits = 0   BY BitsAssumption
<1>2. sent[Bits] = value[0]   BY <1>1 DEF sent
<1>3. Bits - taken = value[0]   BY <1>1, <1>2, BitsAssumption
<1> QED BY <1>3 DEF ParsedWell

(* Out of step, a run of the frame takes one bit for two half periods at   *)
(* most, so what is lost is never made good.                               *)
LEMMA TakeOutOfStep ==
  ASSUME TypeInv, LineInv, NEW v \in {0, 1}, OutOfStep(v),
         NEW n \in Nat, NEW e \in Errors, ReadRun(n, e),
         Fits(Length(n, e)), Take(v, Length(n, e)), blurred' = blurred
  PROVE  OutOfStep(1 - v)'
<1> DEFINE d == Length(n, e)
<1>1. Run(n) /\ line' = line /\ value' = value /\ read' = read + n   BY DEF ReadRun
<1>2. /\ read \in Nat /\ taken \in Nat /\ Bits \in Nat /\ Len(line) \in Nat
      /\ FrameLen \in Nat /\ Len(line) >= FrameLen + 4
  BY BitsAssumption, Frame DEF TypeInv, LineInv
<1>3. 1 - v # None /\ v # None   BY NoneAssumption
<1>4. /\ Between(v) /\ read <= FrameLen /\ ~Clear
      /\ 7 + 2 * taken + (IF backlog = None THEN 0 ELSE 1) <= read
  BY DEF OutOfStep
<1>5. n = 1 \/ n = 2   BY ManyHalves
<1>6. read + n <= FrameLen
  <2>1. /\ line[FrameLen + 1] = 0 /\ line[FrameLen + 2] = 0 /\ line[FrameLen + 3] = 0
    BY DEF LineInv
  <2>2. line[read] = 1 - v /\ line[read + 1] = v   BY <1>4 DEF Between
  <2>3. CASE read = FrameLen
    <3>1. \A i \in 1 .. 3 : i = 1 \/ i = 2 \/ i = 3   OBVIOUS
    <3>2. \A i \in 1 .. 3 : line[read + i] = line[read + 1]
      BY <2>1, <2>3, <3>1
    <3>3. read + 3 < Len(line)   BY <1>2, <2>3
    <3>4. n >= 3   BY <1>1, <3>2, <3>3, RunLength
    <3> QED BY <1>5, <3>4
  <2>4. CASE read + 1 = FrameLen /\ n = 2
    <3>1. line[read + 2] = line[read + 1]
      <4>1. 2 \in 1 .. n   BY <2>4
      <4> QED BY <1>1, <1>2, <2>4, <4>1 DEF Run
    <3>2. read + 2 = FrameLen + 1 /\ read + 3 = FrameLen + 2   BY <1>2, <2>4
    <3>3. \A i \in 1 .. 3 : i = 1 \/ i = 2 \/ i = 3   OBVIOUS
    <3>4. \A i \in 1 .. 3 : line[read + i] = line[read + 1]
      BY <2>1, <3>1, <3>2, <3>3
    <3>5. read + 3 < Len(line)   BY <1>2, <2>4
    <3>6. n >= 3   BY <1>1, <3>4, <3>5, RunLength
    <3> QED BY <2>4, <3>6
  <2> QED BY <1>2, <1>4, <1>5, <2>3, <2>4
<1>7. Between(1 - v)'   BY <1>1, <1>2, <1>4, <1>5, <1>6, BetweenNext
<1>8. 7 + 2 * taken' + (IF backlog' = None THEN 0 ELSE 1) <= read'
  <2>1. CASE backlog = 1 - v
    <3>1. /\ taken' = taken + 1
          /\ backlog' = (IF is_within_tolerance(d, 2 * HalfPeriod) THEN v ELSE None)
      BY <2>1 DEF Take
    <3>2. backlog' # None => n = 2   BY <1>5, <3>1, OneHalf
    <3>3. 7 + 2 * taken + 1 <= read   BY <1>3, <1>4, <2>1
    <3> QED BY <1>1, <1>2, <1>5, <3>1, <3>2, <3>3
  <2>2. CASE backlog # 1 - v
    <3>1. taken' = taken /\ backlog' = v   BY <2>2 DEF Take
    <3> QED BY <1>1, <1>2, <1>4, <1>5, <3>1
  <2> QED BY <2>1, <2>2
<1>9. ~Clear'   BY <1>1, <1>4 DEF Clear
<1> QED BY <1>1, <1>6, <1>7, <1>8, <1>9 DEF OutOfStep

-----------------------------------------------------------------------------
(* The runs of the header.                                                 *)
LEMMA HeaderRuns ==
  ASSUME TypeInv, LineInv, NEW n \in Nat, Run(n)
  PROVE  /\ read = 0 => n = 3
         /\ read = 3 => IF sent[1] = 0 THEN n = 3 ELSE n = 4 /\ sent[1] = 1
         /\ sent[1] \in 0 .. 1
         /\ line[6] = 1 /\ line[7] = sent[1] /\ line[8] = 1 - sent[1]
<1>1. /\ line[1] = 0 /\ line[2] = 0 /\ line[3] = 0
      /\ line[4] = 1 /\ line[5] = 1 /\ line[6] = 1
      /\ Len(line) \in Nat /\ Len(line) > 8
  BY Frame DEF LineInv
<1>2. sent[1] \in 0 .. 1 /\ line[7] = sent[1] /\ line[8] = 1 - sent[1]
  <2>1. 1 \in 1 .. Bits /\ 5 + 2 * 1 = 7 /\ 6 + 2 * 1 = 8   BY BitsAssumption
  <2>2. line[5 + 2 * 1] = sent[1] /\ line[6 + 2 * 1] = 1 - sent[1]
    BY <2>1, Zenon DEF LineInv
  <2> QED BY <2>1, <2>2 DEF LineInv
<1>3. \A i \in 1 .. 3 : i = 1 \/ i = 2 \/ i = 3   OBVIOUS
<1>4. \A i \in 1 .. 4 : i = 1 \/ i = 2 \/ i = 3 \/ i = 4   OBVIOUS
<1>5. ASSUME read = 0 PROVE n = 3
  <2>1. /\ read + 1 = 1 /\ read + 2 = 2 /\ read + 3 = 3
        /\ read + 3 < Len(line) /\ read + 3 + 1 = 4
    BY <1>1, <1>5
  <2>2. \A i \in 1 .. 3 : line[read + i] = line[read + 1]   BY <1>1, <1>3, <2>1
  <2> QED BY <1>1, <2>1, <2>2, RunLength
<1>6. ASSUME read = 3, sent[1] = 0 PROVE n = 3
  <2>1. /\ read + 1 = 4 /\ read + 2 = 5 /\ read + 3 = 6
        /\ read + 3 < Len(line) /\ read + 3 + 1 = 7
    BY <1>1, <1>6
  <2>2. \A i \in 1 .. 3 : line[read + i] = line[read + 1]   BY <1>1, <1>3, <2>1
  <2>3. line[7] = 0   BY <1>2, <1>6
  <2> QED BY <1>1, <2>1, <2>2, <2>3, RunLength
<1>7. ASSUME read = 3, sent[1] = 1 PROVE n = 4
  <2>1. /\ read + 1 = 4 /\ read + 2 = 5 /\ read + 3 = 6 /\ read + 4 = 7
        /\ read + 4 < Len(line) /\ read + 4 + 1 = 8
    BY <1>1, <1>7
  <2>2. \A i \in 1 .. 4 : line[read + i] = line[read + 1]
    BY <1>1, <1>2, <1>4, <1>7, <2>1
  <2>3. line[8] = 0   BY <1>2, <1>7
  <2> QED BY <1>1, <2>1, <2>2, <2>3, RunLength
<1> QED BY <1>1, <1>2, <1>5, <1>6, <1>7
(* Where nothing was read, it is the frame shifted right by all of it.     *)
LEMMA Nothing ==
  ASSUME LineInv', parsed' = Zero, taken' = 0
  PROVE  TopInv' /\ ResultInv'
<1>1. Shifted(value', Bits) = Zero
  BY ShiftedAway DEF LineInv
<1>2. TopInv'   BY DEF TopInv, Zero
<1>3. ParsedWell'   BY <1>1, BitsAssumption DEF ParsedWell
<1> QED BY <1>2, <1>3 DEF ResultInv

LEMMA MarkStep == ParseInv /\ Mark => ParseInv'
<1> SUFFICES ASSUME ParseInv, Mark PROVE ParseInv'   OBVIOUS
<1>1. /\ TypeInv /\ LineInv /\ HeaderInv /\ PlaceInv /\ CutInv
      /\ TopInv /\ ResultInv /\ ReadAsSent
  BY DEF ParseInv
<1>2. TypeInv' /\ LineInv'   BY <1>1, TypeStep DEF Next
<1>3. PICK n \in 0 .. Len(line), e \in HeaderErrors :
        /\ ReadRun(n, e)
        /\ IF is_within_tolerance(Length(n, e), 3 * HalfPeriod)
           THEN pc' = "space" /\ UNCHANGED <<backlog, symbols, parsed, taken>>
           ELSE Fail
  BY DEF Mark
<1>4. /\ pc = "mark" /\ read = 0 /\ backlog = None /\ symbols = 0 /\ parsed = Zero
      /\ taken = 0 /\ ~cut /\ ~blurred
  BY <1>1 DEF Mark, HeaderInv
<1>5. n \in Nat   BY <1>1 DEF LineInv
<1>6. n = 3   BY <1>1, <1>3, <1>4, <1>5, HeaderRuns DEF ReadRun
<1>7. /\ read' = 3 /\ ~cut' /\ ~blurred'
      /\ exact' <=> exact /\ Small(e)
  BY <1>1, <1>3, <1>4, <1>5, <1>6, ReadRunType
<1>8. pc' \in {"space", "done"} /\ parsed' = Zero /\ taken' = 0 /\ symbols' = 0 /\ backlog' = None
  BY <1>3, <1>4 DEF Fail
<1>9. exact' => pc' = "space"
  <2>1. Small(e) => is_within_tolerance(Length(n, e), 3 * HalfPeriod)
    BY <1>6, HeaderFits
  <2> QED BY <1>3, <1>7, <2>1
<1>10. HeaderInv'   BY <1>7, <1>8 DEF HeaderInv
<1>11. PlaceInv' /\ CutInv'   BY <1>7, <1>8 DEF PlaceInv, CutInv
<1>12. TopInv' /\ ResultInv'   BY <1>2, <1>8, Nothing
<1>13. ReadAsSent'   BY <1>9 DEF ReadAsSent
<1> QED BY <1>2, <1>10, <1>11, <1>12, <1>13 DEF ParseInv

LEMMA SpaceStep == ParseInv /\ Space => ParseInv'
<1> SUFFICES ASSUME ParseInv, Space PROVE ParseInv'   OBVIOUS
<1>1. /\ TypeInv /\ LineInv /\ HeaderInv /\ PlaceInv /\ CutInv
      /\ TopInv /\ ResultInv /\ ReadAsSent
  BY DEF ParseInv
<1>2. TypeInv' /\ LineInv'   BY <1>1, TypeStep DEF Next
<1>3. PICK n \in 0 .. Len(line), e \in HeaderErrors :
        /\ ReadRun(n, e)
        /\ IF \/ is_within_tolerance(Length(n, e), 4 * HalfPeriod)
              \/ is_within_tolerance(Length(n, e), 3 * HalfPeriod)
           THEN /\ pc' = "low" /\ backlog' = Backlog(Length(n, e))
                /\ UNCHANGED <<symbols, parsed, taken>>
           ELSE Fail
  BY DEF Space
<1>4. /\ pc = "space" /\ read = 3 /\ backlog = None /\ symbols = 0 /\ parsed = Zero
      /\ taken = 0 /\ ~cut /\ ~blurred
  BY <1>1 DEF Space, HeaderInv
<1>5. n \in Nat   BY <1>1 DEF LineInv
<1>6. /\ IF sent[1] = 0 THEN n = 3 ELSE n = 4 /\ sent[1] = 1
      /\ sent[1] \in 0 .. 1
      /\ line[6] = 1 /\ line[7] = sent[1] /\ line[8] = 1 - sent[1]
  BY <1>1, <1>3, <1>4, <1>5, HeaderRuns DEF ReadRun
<1>7. /\ read' = 3 + n /\ ~cut' /\ line' = line /\ value' = value
      /\ exact' <=> exact /\ Small(e)
      /\ blurred' <=> ~Small(e)
  BY <1>1, <1>3, <1>4, <1>5, ReadRunType
<1>8. /\ pc' = "done" \/ (pc' = "low" /\ backlog' = Backlog(Length(n, e)))
      /\ parsed' = Zero /\ taken' = 0 /\ symbols' = 0
  BY <1>3, <1>4 DEF Fail
<1>9. exact' => pc' = "low"
  <2>1. Small(e) => is_within_tolerance(Length(n, e), n * HalfPeriod)
    BY <1>6, HeaderFits
  <2> QED BY <1>3, <1>6, <1>7, <2>1
<1>10. HeaderInv'   BY <1>7, <1>8 DEF HeaderInv
<1>11. PlaceInv'
  <2> SUFFICES ASSUME pc' = "low" PROVE InStep(0)'
    BY <1>8 DEF PlaceInv
  <2>1. taken' = 0 /\ sent' = sent   BY <1>7, <1>8 DEF sent
  <2>2. ParsedWell'
    <3>1. Shifted(value, Bits) = Zero   BY <1>1, ShiftedAway DEF LineInv
    <3> QED BY <1>7, <1>8, <2>1, <3>1, BitsAssumption DEF ParsedWell
  <2>3. CASE sent[1] = 0
    <3>1. read' = 6 /\ backlog' = None   BY <1>6, <1>7, <1>8, <2>3, HeaderOfZero
    <3>2. Between(0)'   BY <1>6, <1>7, <2>3, <3>1 DEF Between
    <3>3. Placed(0)'   BY <2>1, <3>1, <3>2 DEF Placed
    <3> QED BY <2>2, <3>3 DEF InStep
  <2>4. CASE sent[1] # 0
    <3>1. n = 4 /\ sent[1] = 1 /\ read' = 7   BY <1>6, <1>7, <2>4
    <3>2. 1 # None /\ Bits > 0 /\ Bits \in Nat   BY NoneAssumption, BitsAssumption
    <3>3. Between(0)'   BY <1>6, <1>7, <3>1 DEF Between
    <3>4. backlog' = 1 \/ backlog' = None   BY <1>8 DEF Backlog
    <3>5. CASE backlog' = 1
      <4>1. Placed(0)'   BY <2>1, <3>1, <3>2, <3>3, <3>5 DEF Placed
      <4> QED BY <2>2, <4>1 DEF InStep
    <3>6. CASE backlog' = None
      <4>1. ~Small(e)   BY <1>8, <3>1, <3>2, <3>6, HeaderOfOne
      <4>2. value[Bits - 1] = 1   BY <1>1, <3>1, FirstBit
      <4>3. ~Clear'   BY <1>7, <4>1, <4>2 DEF Clear
      <4>4. 7 <= FrameLen   BY Frame
      <4>5. OutOfStep(0)'   BY <2>1, <3>1, <3>3, <3>6, <4>3, <4>4 DEF OutOfStep
      <4> QED BY <4>5 DEF InStep
    <3> QED BY <3>4, <3>5, <3>6
  <2> QED BY <2>3, <2>4
<1>12. CutInv'   BY <1>7 DEF CutInv
<1>13. TopInv' /\ ResultInv'   BY <1>2, <1>8, Nothing
<1>14. ReadAsSent'   BY <1>9 DEF ReadAsSent
<1> QED BY <1>2, <1>10, <1>11, <1>12, <1>13, <1>14 DEF ParseInv

(* A result that ends here keeps what was read.                            *)
LEMMA StopWell ==
  ASSUME TypeInv, LineInv', TopInv, ResultInv, Stop, value' = value, blurred' = blurred
  PROVE  TopInv' /\ ResultInv'
<1>1. (parsed' = Zero /\ taken' = 0) \/ (parsed' = parsed /\ taken' = taken)
  BY StopType
<1>2. CASE parsed' = Zero /\ taken' = 0   BY <1>2, Nothing
<1>3. CASE parsed' = parsed /\ taken' = taken
  BY <1>3 DEF TopInv, ResultInv, ParsedWell, Clear
<1> QED BY <1>1, <1>2, <1>3

(* Half a bit that is missing is a whole one in the end.                   *)
LEMMA HalfLost ==
  ASSUME NEW t \in Nat, NEW r \in Nat, NEW h, h = 0 \/ h = 1,
         r <= 6 + 2 * Bits, 7 + 2 * t + h <= r
  PROVE  t < Bits
  BY BitsAssumption

(* Low and High are the same step, for a run of either level.              *)
LEMMA RunStep ==
  ASSUME ParseInv, NEW v \in {0, 1}, pc = (IF v = 0 THEN "low" ELSE "high"),
         NEW n \in Nat, NEW e \in Errors, ReadRun(n, e), TypeInv', LineInv',
         \/ /\ Fits(Length(n, e)) /\ Take(v, Length(n, e))
            /\ pc' = (IF v = 0 THEN "high" ELSE "low")
            /\ symbols' = symbols + v
         \/ ~Fits(Length(n, e)) /\ Stop
  PROVE  HeaderInv' /\ PlaceInv' /\ CutInv' /\ TopInv' /\ ResultInv' /\ ReadAsSent'
<1>1. /\ TypeInv /\ LineInv /\ HeaderInv /\ PlaceInv /\ CutInv
      /\ TopInv /\ ResultInv /\ ReadAsSent
  BY DEF ParseInv
<1>2. pc \in {"low", "high"} /\ pc # "space" /\ pc # "done"   OBVIOUS
<1>3. /\ read' = read + n /\ line' = line /\ value' = value /\ cut' = cut
      /\ exact' <=> exact /\ Small(e)
      /\ blurred' <=> blurred
      /\ blurred' \in BOOLEAN /\ blurred \in BOOLEAN
  BY <1>1, <1>2, ReadRunType DEF TypeInv
<1>4. blurred' = blurred   BY <1>3
<1>5. ~cut => InStep(v)
  <2>1. CASE v = 0   BY <1>1, <2>1 DEF PlaceInv
  <2>2. CASE v = 1   BY <1>1, <2>2 DEF PlaceInv
  <2> QED BY <2>1, <2>2
<1>6. exact => Clear   BY <1>1 DEF HeaderInv, Clear
<1>8. CASE /\ Fits(Length(n, e)) /\ Take(v, Length(n, e))
           /\ pc' = (IF v = 0 THEN "high" ELSE "low")
           /\ symbols' = symbols + v
  <2>1. ~cut
    <3> SUFFICES ASSUME cut PROVE FALSE   OBVIOUS
    <3>1. read = Len(line)   BY <1>1, <1>2 DEF CutInv
    <3>2. n = 0   BY <3>1 DEF ReadRun, Run
    <3> QED BY <1>8, <3>2, ManyHalves
  <2>2. InStep(1 - v)' /\ ResultInv'
    <3>1. CASE Placed(v) /\ ParsedWell
      <4>1. Placed(1 - v)' /\ ParsedWell'   BY <1>1, <1>8, <3>1, TakePlaced
      <4> QED BY <4>1 DEF InStep, ResultInv
    <3>2. CASE OutOfStep(v)
      <4>1. OutOfStep(1 - v)'   BY <1>1, <1>4, <1>8, <3>2, TakeOutOfStep
      <4>2. taken' \in Nat /\ read' \in Nat   BY <1>1, <1>3 DEF TypeInv, LineInv
      <4>3. ~Clear'   BY <4>1 DEF OutOfStep
      <4>4. read' <= 6 + 2 * Bits   BY <4>1 DEF OutOfStep, FrameLen
      <4>5. 7 + 2 * taken' + (IF backlog' = None THEN 0 ELSE 1) <= read'
        BY <4>1 DEF OutOfStep
      <4>6. taken' < Bits   BY <4>2, <4>4, <4>5, HalfLost, BitsAssumption
      <4> QED BY <4>1, <4>3, <4>6 DEF InStep, ResultInv
    <3> QED BY <1>5, <2>1, <3>1, <3>2 DEF InStep
  <2>3. PlaceInv'
    <3>1. CASE v = 0
      <4>1. 1 - v = 1 /\ pc' = "high"   BY <1>8, <3>1
      <4> QED BY <2>2, <4>1 DEF PlaceInv
    <3>2. CASE v = 1
      <4>1. 1 - v = 0 /\ pc' = "low"   BY <1>8, <3>2
      <4> QED BY <2>2, <4>1 DEF PlaceInv
    <3> QED BY <3>1, <3>2
  <2>4. HeaderInv'
    <3>1. pc' = "low" => symbols' # 0   BY <1>1, <1>8 DEF TypeInv
    <3>2. pc' \in {"low", "high"}   BY <1>8
    <3> QED BY <1>1, <1>3, <3>1, <3>2 DEF HeaderInv
  <2>5. CutInv'   BY <1>3, <2>1 DEF CutInv
  <2>6. TopInv'
    <3>1. CASE backlog = 1 - v
      <4>1. parsed' = ShiftIn(parsed, 1 - v) /\ taken' = taken + 1
        BY <1>8, <3>1 DEF Take
      <4> QED BY <1>1, <4>1, TopShifted
    <3>2. CASE backlog # 1 - v
      <4>1. parsed' = parsed /\ taken' = taken   BY <1>8, <3>2 DEF Take
      <4> QED BY <1>1, <4>1 DEF TopInv
    <3> QED BY <3>1, <3>2
  <2>7. ReadAsSent'   BY <1>8 DEF ReadAsSent
  <2> QED BY <2>2, <2>3, <2>4, <2>5, <2>6, <2>7
<1>9. CASE ~Fits(Length(n, e)) /\ Stop
  <2>1. /\ pc' = "done" /\ parsed' = (IF symbols = 0 THEN Zero ELSE parsed)
        /\ taken' = (IF symbols = 0 THEN 0 ELSE taken)
    BY <1>1, <1>9, StopType
  <2>2. TopInv' /\ ResultInv'   BY <1>1, <1>3, <1>4, <1>9, StopWell
  <2>3. HeaderInv'   BY <1>1, <1>3, <2>1 DEF HeaderInv
  <2>4. PlaceInv' /\ CutInv'   BY <2>1 DEF PlaceInv, CutInv
  <2>5. ReadAsSent'
    <3> SUFFICES ASSUME exact', ~cut' PROVE parsed' = Shifted(value', value'[0])
      BY DEF ReadAsSent
    <3>1. exact /\ Small(e) /\ ~cut   BY <1>3
    <3>2. Clear   BY <1>6, <3>1
    <3>3. Placed(v) /\ ParsedWell   BY <1>5, <3>1, <3>2 DEF InStep, OutOfStep
    <3>4. v = 0 /\ sent[Bits] \in 0 .. 1 /\ taken = Bits - sent[Bits]
      BY <1>1, <1>9, <3>1, <3>3, StopPlaced
    <3>5. parsed = Shifted(value, value[0])   BY <1>1, <3>3, <3>4, WholeFrame
    <3>6. symbols = 0 => parsed = Zero   BY <1>1, <3>4 DEF HeaderInv
    <3> QED BY <1>3, <2>1, <3>5, <3>6
  <2> QED BY <2>2, <2>3, <2>4, <2>5
<1> QED BY <1>8, <1>9

LEMMA EndStep == ParseInv /\ EndOfSymbols => ParseInv'
<1> SUFFICES ASSUME ParseInv, EndOfSymbols PROVE ParseInv'   OBVIOUS
<1>1. /\ TypeInv /\ LineInv /\ HeaderInv /\ PlaceInv /\ CutInv
      /\ TopInv /\ ResultInv /\ ReadAsSent
  BY DEF ParseInv
<1>2. TypeInv' /\ LineInv'   BY <1>1, TypeStep DEF Next
<1>3. /\ pc = "low" /\ read = Len(line) /\ Stop
      /\ UNCHANGED <<value, line, read, cut, exact, blurred>>
  BY DEF EndOfSymbols
<1>4. pc' = "done"   BY <1>1, <1>3, StopType
<1>5. TopInv' /\ ResultInv'   BY <1>1, <1>2, <1>3, StopWell
<1>6. HeaderInv'   BY <1>1, <1>3, <1>4 DEF HeaderInv
<1>7. PlaceInv' /\ CutInv'   BY <1>4 DEF PlaceInv, CutInv
<1>8. exact => cut
  <2> SUFFICES ASSUME exact, ~cut PROVE FALSE   OBVIOUS
  <2>1. Clear   BY <1>1 DEF HeaderInv, Clear
  <2>2. Placed(0) /\ ParsedWell   BY <1>1, <1>3, <2>1 DEF PlaceInv, InStep, OutOfStep
  <2>3. read <= 6 + 2 * Bits
    BY <1>1, <2>2, BitsAssumption DEF Placed, ParsedWell, TypeInv
  <2> QED BY <1>1, <1>3, <2>3, BitsAssumption DEF LineInv, FrameLen
<1>9. ReadAsSent'   BY <1>3, <1>8 DEF ReadAsSent
<1> QED BY <1>2, <1>5, <1>6, <1>7, <1>9 DEF ParseInv

LEMMA ParseStep == ParseInv /\ [Next]_vars => ParseInv'
<1> SUFFICES ASSUME ParseInv, [Next]_vars PROVE ParseInv'   OBVIOUS
<1>1. /\ TypeInv /\ LineInv /\ HeaderInv /\ PlaceInv /\ CutInv
      /\ TopInv /\ ResultInv /\ ReadAsSent
  BY DEF ParseInv
<1>2. TypeInv' /\ LineInv'   BY <1>1, TypeStep
<1>3. \A n \in 0 .. Len(line) : n \in Nat   BY <1>1 DEF LineInv
<1>4. CASE Mark   BY <1>4, MarkStep
<1>5. CASE Space   BY <1>5, SpaceStep
<1>6. CASE Low
  <2>1. PICK n \in 0 .. Len(line), e \in Errors :
          /\ ReadRun(n, e)
          /\ \/ /\ Fits(Length(n, e)) /\ Take(0, Length(n, e))
                /\ pc' = "high" /\ UNCHANGED symbols
             \/ ~Fits(Length(n, e)) /\ Stop
    BY <1>6 DEF Low
  <2>2. symbols' = symbols => symbols' = symbols + 0   BY <1>1 DEF TypeInv
  <2>3. pc = "low"   BY <1>6 DEF Low
  <2>4. HeaderInv' /\ PlaceInv' /\ CutInv' /\ TopInv' /\ ResultInv' /\ ReadAsSent'
    BY <1>2, <1>3, <2>1, <2>2, <2>3, RunStep
  <2> QED BY <1>2, <2>4 DEF ParseInv
<1>7. CASE High
  <2>1. PICK n \in 0 .. Len(line), e \in Errors :
          /\ ReadRun(n, e)
          /\ \/ /\ Fits(Length(n, e)) /\ Take(1, Length(n, e))
                /\ pc' = "low" /\ symbols' = symbols + 1
             \/ ~Fits(Length(n, e)) /\ Stop
    BY <1>7 DEF High
  <2>2. pc = "high"   BY <1>7 DEF High
  <2>3. HeaderInv' /\ PlaceInv' /\ CutInv' /\ TopInv' /\ ResultInv' /\ ReadAsSent'
    BY <1>2, <1>3, <2>1, <2>2, RunStep
  <2> QED BY <1>2, <2>3 DEF ParseInv
<1>8. CASE EndOfSymbols   BY <1>8, EndStep
<1>9. CASE Interrupted
  <2>1. /\ pc \in {"low", "high"} /\ read' = Len(line) /\ cut'
        /\ UNCHANGED <<value, line, pc, backlog, symbols, parsed, taken, exact, blurred>>
    BY <1>9 DEF Interrupted
  <2>2. HeaderInv'   BY <1>1, <2>1 DEF HeaderInv
  <2>3. PlaceInv' /\ CutInv' /\ ReadAsSent'   BY <2>1 DEF PlaceInv, CutInv, ReadAsSent
  <2>4. TopInv' /\ ResultInv'   BY <1>1, <2>1 DEF TopInv, ResultInv, ParsedWell, Clear
  <2> QED BY <1>2, <2>2, <2>3, <2>4 DEF ParseInv
<1>10. CASE UNCHANGED vars
  <2>1. UNCHANGED <<value, line, read, pc, backlog, symbols, parsed, taken, cut, exact, blurred>>
    BY <1>10 DEF vars
  <2>2. HeaderInv' /\ CutInv'   BY <1>1, <2>1 DEF HeaderInv, CutInv
  <2>3. PlaceInv'
    BY <1>1, <2>1 DEF PlaceInv, InStep, Placed, OutOfStep, Between, ParsedWell, Clear, sent
  <2>4. TopInv' /\ ResultInv' /\ ReadAsSent'
    BY <1>1, <2>1 DEF TopInv, ResultInv, ParsedWell, Clear, ReadAsSent
  <2> QED BY <1>2, <2>2, <2>3, <2>4 DEF ParseInv
<1> QED BY <1>4, <1>5, <1>6, <1>7, <1>8, <1>9, <1>10 DEF Next

LEMMA ParseInit == Init => ParseInv
<1> SUFFICES ASSUME Init PROVE ParseInv   OBVIOUS
<1>1. LineInv   BY LineInit
<1>2. /\ read = 0 /\ pc = "mark" /\ backlog = None /\ symbols = 0
      /\ parsed = Zero /\ taken = 0
      /\ cut = FALSE /\ exact = TRUE /\ blurred = FALSE
  BY DEF Init
<1>3. Zero \in Words   BY <1>1, WordType DEF LineInv
<1>4. TypeInv
  <2>1. 0 \in 0 .. Len(line)   BY <1>1 DEF LineInv
  <2> QED BY <1>2, <1>3, <2>1 DEF TypeInv
<1>5. HeaderInv /\ PlaceInv /\ CutInv /\ ReadAsSent
  BY <1>2 DEF HeaderInv, PlaceInv, CutInv, ReadAsSent
<1>6. ParsedWell
  <2>1. Shifted(value, Bits) = Zero   BY <1>1, ShiftedAway DEF LineInv
  <2> QED BY <1>2, <2>1, BitsAssumption DEF ParsedWell
<1>7. TopInv /\ ResultInv   BY <1>2, <1>6 DEF TopInv, ResultInv, Zero
<1> QED BY <1>1, <1>4, <1>5, <1>7 DEF ParseInv

LEMMA ParseCorrect == Spec => []ParseInv
<1>1. Init => ParseInv   BY ParseInit
<1>2. ParseInv /\ [Next]_vars => ParseInv'   BY ParseStep
<1> QED BY <1>1, <1>2, PTL DEF Spec

(* However many bits a frame has and however often it is sent: a frame     *)
(* that arrives whole, with no run off by more than a quarter of a half    *)
(* period, is read as it was sent, but for a last bit of 1.                *)
(* [generate_manchester, parse_manchester]                                 *)
THEOREM SentCorrect == Spec => []ReadAsSent
<1>1. ParseInv => ReadAsSent   BY DEF ParseInv
<1> QED BY <1>1, ParseCorrect, PTL

(* With every error that is short of half of a half period, and wherever   *)
(* the reception ends, bits are only lost at the end, and the word that is *)
(* read is the frame shifted right by as many; but not after the header of *)
(* a first bit of 1 with an error of more than a quarter of a half period. *)
(* [is_within_tolerance, parse_manchester, parse_manchester_data]          *)
THEOREM ShortenedCorrect == Spec => []OnlyShortened
<1>1. ParseInv => OnlyShortened
  BY BitsAssumption DEF ParseInv, TypeInv, ResultInv, ParsedWell, OnlyShortened
<1> QED BY <1>1, ParseCorrect, PTL

(* With all of these errors, and those in the header too: where the        *)
(* highest bit of a frame is set in the word that is read, the power key   *)
(* of the air conditioner's protocol, the word is the one that was sent.   *)
(* [parse_manchester, airwell_ir_recv]                                     *)
THEOREM ToggleCorrect == Spec => []ToggledWhole
<1>1. ParseInv => ToggledWhole
  <2> SUFFICES ASSUME ParseInv, parsed[Bits - 1] = 1 PROVE parsed = value
    BY DEF ToggledWhole
  <2>1. TypeInv /\ LineInv /\ TopInv /\ ResultInv   BY DEF ParseInv
  <2>2. Bits - 1 \in 0 .. Width - 1   BY BitsAssumption, WidthAssumption
  <2>3. taken >= Bits   BY <2>1, <2>2, BitsAssumption DEF TypeInv, TopInv
  <2>4. ParsedWell   BY <2>1, <2>3, BitsAssumption DEF TypeInv, ResultInv
  <2>5. Bits - taken = 0   BY <2>1, <2>3, <2>4, BitsAssumption DEF TypeInv, ParsedWell
  <2>6. Shifted(value, 0) = value   BY <2>1, ShiftedAway DEF LineInv
  <2> QED BY <2>4, <2>5, <2>6 DEF ParsedWell
<1> QED BY <1>1, ParseCorrect, PTL
=============================================================================
