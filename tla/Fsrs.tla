-------------------------------- MODULE Fsrs --------------------------------
(***************************************************************************)
(* The spaced-repetition scheduler of internal/engine/fsrs.go.  A skill    *)
(* row is [conf, stab, diff, reviewed, due, attempts, streak, lapses,      *)
(* status].                                                                *)
(*                                                                         *)
(* Numbers are scaled to the columns that store them: confidence in        *)
(* thousandths, stability in hundredths of a day, difficulty in            *)
(* hundredths, rounded as the columns round.  A grade is twice the code's, *)
(* 2 (fail) .. 8.  ErrorCount and Reps are left out: errors are counted    *)
(* where lapses are and start equal, and Reps is never read.               *)
(***************************************************************************)
EXTENDS Integers

CONSTANTS
    MasteredStreak,   \* five right answers in a row
    FossilLapses,     \* five lapses, and
    FossilErrors      \* ten errors before this one

ASSUME ThresholdAssumption ==
    /\ MasteredStreak \in Nat \ {0}
    /\ FossilLapses \in Nat \ {0} /\ FossilErrors \in Nat \ {0}

Statuses   == {"new", "learning", "review", "mastered", "relearning", "fossilized"}
ErrorTypes == {"none", "general", "transfer", "overgeneralization", "avoidance",
               "fossilization"}
Grades     == {2} \cup 4..8

MinStability == 40
MaxStability == 36500

SkillRow == [conf : 0..1000, stab : 0..MaxStability, diff : 0..100,
             reviewed : BOOLEAN, due : BOOLEAN, attempts : Nat, streak : Nat,
             lapses : Nat, status : Statuses]

AtLeast(a, b) == IF a < b THEN b ELSE a
AtMost(a, b)  == IF a > b THEN b ELSE a

\* GradeFromResult: half a point less for each hint and for a slow answer,
\* but a right answer always passes.
Grade(right, hints, slow) ==
    IF right THEN AtLeast(8 - hints - (IF slow THEN 1 ELSE 0), 4) ELSE 2

IsPass(g) == g >= 4

ErrorModifier(err) ==
    CASE err = "transfer"           -> 5
      [] err = "overgeneralization" -> 3
      [] err = "avoidance"          -> 8
      [] err = "fossilization"      -> 10
      [] err \in {"none", "general"} -> 0

NewDifficulty(row, g, err) ==
    AtMost(AtLeast(row.diff - 5 * (g - 6) + ErrorModifier(err), 0), 100)

\* The stability increase factor for difficulty d, recall of r percent and
\* grade g, in 320000ths.
Unit == 320000
IncreaseFactor(d, r, g) == (300 - d) * (500 - 3 * r) * (4 + g)

\* Avoidance counts for half of the increase.
GrownStability(row, d, r, g, err) ==
    LET full == IncreaseFactor(d, r, g)
        factor == IF err = "avoidance" THEN (full + Unit) \div 2 ELSE full
    IN  AtMost((row.stab * factor + Unit \div 2) \div Unit, MaxStability)

LapsedStability(row, err) ==
    AtLeast((row.stab * (IF err = "fossilization" THEN 3 ELSE 4) + 5) \div 10, MinStability)

\* Recall times grade, as a confidence in eight-thousandths.
Evidence(r, g) == 10 * r * g

\* Mutant of NewConfidence (StatusHonest): the evidence is added to what there was.
NewConfidenceAdded(row, r, g, err) == row.conf + (Evidence(r, g) + 4) \div 8

\* Avoidance proves nothing: the confidence stays.
NewConfidence(row, r, g, err) ==
    IF IsPass(g) /\ err = "avoidance" THEN row.conf
    ELSE AtMost((Evidence(r, g) + 4) \div 8, 1000)

PassStatus(row, r, g, err) ==
    IF err # "avoidance" /\ Evidence(r, g) >= 8 * 900 /\ row.streak + 1 >= MasteredStreak
    THEN "mastered"
    ELSE IF row.status = "new" THEN "learning"
    ELSE IF err # "avoidance" /\ Evidence(r, g) >= 8 * 700 THEN "review"
    ELSE row.status

FailStatus(row) ==
    IF row.lapses + 1 >= FossilLapses /\ row.lapses >= FossilErrors
    THEN "fossilized" ELSE "relearning"

\* A failure is due at once; a success after its stability, or half of it
\* under avoidance, cut down to whole hours.
DueAtOnce(stab, g, err) ==
    \/ ~IsPass(g)
    \/ err = "fossilization"
    \/ (IF err = "avoidance" THEN 12 ELSE 24) * stab < 100

\* r is the probability of recall in percent: 100 at a first review or when
\* no time has passed, anything below later.
UpdateSkillState(row, g, err, r) ==
    LET d    == NewDifficulty(row, g, err)
        stab == IF IsPass(g) THEN GrownStability(row, d, r, g, err)
                ELSE LapsedStability(row, err)
    IN  [conf     |-> NewConfidence(row, r, g, err),
         stab     |-> stab,
         diff     |-> d,
         reviewed |-> TRUE,
         due      |-> DueAtOnce(stab, g, err),
         attempts |-> row.attempts + 1,
         streak   |-> IF IsPass(g) THEN row.streak + 1 ELSE 0,
         lapses   |-> IF IsPass(g) THEN row.lapses ELSE row.lapses + 1,
         status   |-> IF IsPass(g) THEN PassStatus(row, r, g, err) ELSE FailStatus(row)]

\* NewSkillState; the handlers insert InitializeSkills' row instead.
NewSkillState ==
    [conf |-> 0, stab |-> MinStability, diff |-> 30, reviewed |-> FALSE, due |-> TRUE,
     attempts |-> 0, streak |-> 0, lapses |-> 0, status |-> "new"]
=============================================================================
