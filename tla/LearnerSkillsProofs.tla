------------------------ MODULE LearnerSkillsProofs ------------------------
(***************************************************************************)
(* What holds of LearnerSkills for every set of skills, answers, recalls   *)
(* and requests: the rows keep to their columns and their statuses are     *)
(* honest, no skill ever gets a schedule, and a learner whom no request is *)
(* moving has the rows of the level.                                       *)
(***************************************************************************)
EXTENDS LearnerSkills, FiniteSetTheorems, SequenceTheorems, WellFoundedInduction, TLAPS

-----------------------------------------------------------------------------
(* The scheduler *)

\* A grade is one of the scale.
LEMMA GradeType ==
    ASSUME NEW right \in BOOLEAN, NEW hints \in 0..3, NEW slow \in BOOLEAN
    PROVE  Grade(right, hints, slow) \in Grades
BY DEF Grade, Grades, AtLeast

\* The product of two natural numbers is one.
LEMMA ProductNat == \A a, b \in Nat : a * b \in Nat
BY SMT

\* What remains of natural numbers after rounding and a cap.
LEMMA RoundedType ==
    ASSUME NEW x \in Nat
    PROVE  (x + Unit \div 2) \div Unit \in Nat /\ (x + 4) \div 8 \in Nat /\ (x + 5) \div 10 \in Nat
           /\ (x + Unit) \div 2 \in Nat
BY DEF Unit

\* What a cap and a floor leave.
LEMMA AtMostType == \A a, m \in Nat : AtMost(a, m) \in 0..m
BY DEF AtMost

LEMMA AtLeastType == \A a \in Nat : a <= MaxStability => AtLeast(a, MinStability) \in 0..MaxStability
<1>1. MinStability \in Nat /\ MinStability <= MaxStability /\ MaxStability \in Nat
  BY DEF MinStability, MaxStability
<1>2. MinStability \in 0..MaxStability  BY <1>1
<1>3. \A a \in Nat : a <= MaxStability => a \in 0..MaxStability  BY <1>1
<1> QED  BY <1>2, <1>3 DEF AtLeast

LEMMA LapseNumbers ==
    ASSUME NEW a \in Nat, a <= MaxStability
    PROVE  /\ (a * 3 + 5) \div 10 \in Nat /\ (a * 3 + 5) \div 10 <= MaxStability
           /\ (a * 4 + 5) \div 10 \in Nat /\ (a * 4 + 5) \div 10 <= MaxStability
<1>1. ASSUME NEW x \in Nat, x <= 146005 PROVE x \div 10 \in Nat /\ x \div 10 <= 36500
  BY <1>1, SMT
<1>2. /\ a * 3 + 5 \in Nat /\ a * 3 + 5 <= 146005
      /\ a * 4 + 5 \in Nat /\ a * 4 + 5 <= 146005
  BY SMT DEF MaxStability
<1> QED  BY <1>1, <1>2 DEF MaxStability

\* Difficulty stays between 0 and 1.
LEMMA DifficultyType ==
    ASSUME NEW row \in SkillRow, NEW g \in Grades, NEW err \in ErrorTypes
    PROVE  NewDifficulty(row, g, err) \in 0..100
<1> DEFINE old == row.diff
           e == ErrorModifier(err)
           new == old - 5 * (g - 6) + e
<1>1. old \in Int  BY DEF SkillRow
<1>2. e \in Int  BY DEF ErrorModifier, ErrorTypes
<1>3. g \in Int  BY DEF Grades
<1>4. NewDifficulty(row, g, err) = AtMost(AtLeast(new, 0), 100)  BY DEF NewDifficulty
<1> HIDE DEF old, e
<1>5. new \in Int  BY <1>1, <1>2, <1>3
<1> HIDE DEF new
<1>6. AtMost(AtLeast(new, 0), 100) \in 0..100  BY <1>5 DEF AtMost, AtLeast
<1> QED  BY <1>4, <1>6

\* The increase factor is never negative.
LEMMA FactorType ==
    ASSUME NEW d \in 0..100, NEW r \in 0..100, NEW g \in Grades
    PROVE  IncreaseFactor(d, r, g) \in Nat
<1>1. 300 - d \in Nat /\ 500 - 3 * r \in Nat /\ 4 + g \in Nat  BY DEF Grades
<1>2. (300 - d) * (500 - 3 * r) \in Nat  BY <1>1, ProductNat
<1>3. ((300 - d) * (500 - 3 * r)) * (4 + g) \in Nat  BY <1>1, <1>2, ProductNat
<1> QED  BY <1>3 DEF IncreaseFactor

\* Stability grows to at most a hundred years, and from 0 not at all.
LEMMA StabilityType ==
    ASSUME NEW row \in SkillRow, NEW d \in 0..100, NEW r \in 0..100, NEW g \in Grades,
           NEW err \in ErrorTypes
    PROVE  /\ GrownStability(row, d, r, g, err) \in 0..MaxStability
           /\ LapsedStability(row, err) \in 0..MaxStability
           /\ row.stab = 0 => GrownStability(row, d, r, g, err) = 0
<1> DEFINE full == IncreaseFactor(d, r, g)
           factor == IF err = "avoidance" THEN (full + Unit) \div 2 ELSE full
           stab == row.stab
<1>1. stab \in 0..MaxStability  BY DEF SkillRow
<1>2. full \in Nat  BY FactorType
<1>3. factor \in Nat  BY <1>2, RoundedType
<1> HIDE DEF factor, full
<1>4. stab * factor \in Nat
  <2> HIDE DEF stab
  <2>1. stab \in Nat  BY <1>1
  <2> QED  BY <2>1, <1>3, ProductNat
<1>5. GrownStability(row, d, r, g, err)
        = AtMost((stab * factor + Unit \div 2) \div Unit, MaxStability)
  BY DEF GrownStability, factor, full, stab
<1> HIDE DEF stab
<1> DEFINE x == stab * factor
<1>6. x \in Nat  BY <1>4
<1>7. stab = 0 => x = 0  BY <1>3
<1> HIDE DEF x
<1>8. (x + Unit \div 2) \div Unit \in Nat  BY <1>6, RoundedType
<1>9. x = 0 => (x + Unit \div 2) \div Unit = 0  BY DEF Unit
<1> DEFINE y == (x + Unit \div 2) \div Unit
<1>10. GrownStability(row, d, r, g, err) \in 0..MaxStability
  <2>1. y \in Nat  BY <1>8
  <2>2. GrownStability(row, d, r, g, err) = AtMost(y, MaxStability)  BY <1>5 DEF x
  <2> HIDE DEF y
  <2>3. MaxStability \in Nat  BY DEF MaxStability
  <2> QED  BY <2>1, <2>2, <2>3, AtMostType
<1>11. stab = 0 => GrownStability(row, d, r, g, err) = 0
  BY <1>5, <1>7, <1>9 DEF AtMost, MaxStability, x
<1>12. LapsedStability(row, err) \in 0..MaxStability
  <2>1. stab \in Nat /\ stab <= MaxStability
    <3> HIDE DEF stab
    <3> QED  BY <1>1
  <2>2. \/ LapsedStability(row, err) = AtLeast((stab * 3 + 5) \div 10, MinStability)
        \/ LapsedStability(row, err) = AtLeast((stab * 4 + 5) \div 10, MinStability)
    BY DEF LapsedStability, stab
  <2> QED  BY <2>1, <2>2, LapseNumbers, AtLeastType
<1> QED  BY <1>10, <1>11, <1>12 DEF stab

\* Confidence stays between 0 and 1.
LEMMA ConfidenceType ==
    ASSUME NEW row \in SkillRow, NEW r \in 0..100, NEW g \in Grades, NEW err \in ErrorTypes
    PROVE  NewConfidence(row, r, g, err) \in Nat /\ NewConfidence(row, r, g, err) <= 1000
<1>1. row.conf \in Nat /\ row.conf <= 1000  BY DEF SkillRow
<1>2. 10 * r \in Nat /\ g \in Nat  BY DEF Grades
<1>3. (10 * r) * g \in Nat  BY <1>2, ProductNat
<1>4. Evidence(r, g) \in Nat  BY <1>3 DEF Evidence
<1>5. (Evidence(r, g) + 4) \div 8 \in Nat  BY <1>4, RoundedType
<1> DEFINE e == (Evidence(r, g) + 4) \div 8
<1>6. NewConfidence(row, r, g, err) = row.conf \/ NewConfidence(row, r, g, err) = AtMost(e, 1000)
  BY DEF NewConfidence
<1>7. AtMost(e, 1000) \in Nat /\ AtMost(e, 1000) <= 1000
  <2>1. e \in Nat  BY <1>5
  <2> HIDE DEF e
  <2> QED  BY <2>1, SMT DEF AtMost
<1> DEFINE at == AtMost(e, 1000)
           old == row.conf
           new == NewConfidence(row, r, g, err)
<1>8. /\ at \in Nat /\ at <= 1000
      /\ old \in Nat /\ old <= 1000
      /\ new = old \/ new = at
  BY <1>1, <1>6, <1>7
<1> HIDE DEF at, old, new
<1>9. new \in Nat /\ new <= 1000  BY <1>8
<1> QED  BY <1>9 DEF new

\* What a status may claim of the answers.
Honest(row) ==
    /\ row.status = "new" <=> row.attempts = 0
    /\ row.streak <= row.attempts
    /\ row.status = "mastered" => row.streak >= MasteredStreak

\* A row that was never scheduled.
Unscheduled(row) == row.due /\ row.stab = 0 /\ row.lapses = 0

\* An update keeps to the columns, and leaves an honest row honest.
LEMMA UpdateHonest ==
    ASSUME NEW row \in SkillRow, Honest(row), NEW g \in Grades, NEW err \in ErrorTypes,
           NEW r \in 0..100
    PROVE  /\ UpdateSkillState(row, g, err, r) \in SkillRow
           /\ Honest(UpdateSkillState(row, g, err, r))
<1> DEFINE new == UpdateSkillState(row, g, err, r)
           d == NewDifficulty(row, g, err)
           stab == IF IsPass(g) THEN GrownStability(row, d, r, g, err)
                   ELSE LapsedStability(row, err)
<1>1. d \in 0..100  BY DifficultyType
<1>2. stab \in 0..MaxStability  BY <1>1, StabilityType
<1>3. NewConfidence(row, r, g, err) \in Nat /\ NewConfidence(row, r, g, err) <= 1000
  BY ConfidenceType
<1>4. DueAtOnce(stab, g, err) \in BOOLEAN  BY DEF DueAtOnce
<1>5. /\ row.attempts \in Nat /\ row.streak \in Nat /\ row.lapses \in Nat
      /\ row.status \in Statuses
  BY DEF SkillRow
<1>6. PassStatus(row, r, g, err) \in Statuses /\ FailStatus(row) \in Statuses
  BY <1>5 DEF PassStatus, FailStatus, Statuses
<1>7. /\ new.conf = NewConfidence(row, r, g, err) /\ new.stab = stab /\ new.diff = d
      /\ new.reviewed = TRUE /\ new.due = DueAtOnce(stab, g, err)
      /\ new.attempts = row.attempts + 1
      /\ new.streak = (IF IsPass(g) THEN row.streak + 1 ELSE 0)
      /\ new.lapses = (IF IsPass(g) THEN row.lapses ELSE row.lapses + 1)
      /\ new.status = (IF IsPass(g) THEN PassStatus(row, r, g, err) ELSE FailStatus(row))
  BY DEF UpdateSkillState
<1>8. new \in SkillRow
  <2> DEFINE streak == IF IsPass(g) THEN row.streak + 1 ELSE 0
             lapses == IF IsPass(g) THEN row.lapses ELSE row.lapses + 1
             status == IF IsPass(g) THEN PassStatus(row, r, g, err) ELSE FailStatus(row)
             conf == NewConfidence(row, r, g, err)
             due == DueAtOnce(stab, g, err)
             attempts == row.attempts + 1
  <2>1. streak \in Nat /\ lapses \in Nat /\ status \in Statuses /\ attempts \in Nat
    BY <1>5, <1>6
  <2>2. new = [conf |-> conf, stab |-> stab, diff |-> d, reviewed |-> TRUE, due |-> due,
               attempts |-> attempts, streak |-> streak, lapses |-> lapses, status |-> status]
    BY DEF UpdateSkillState
  <2>3. conf \in 0..1000 /\ due \in BOOLEAN  BY <1>3, <1>4
  <2> HIDE DEF new, streak, lapses, status, conf, due, attempts, stab, d
  <2> QED  BY <1>1, <1>2, <2>1, <2>2, <2>3 DEF SkillRow
<1>9. Honest(new)
  <2> HIDE DEF new, stab, d
  <2>1. new.attempts # 0 /\ new.streak <= new.attempts  BY <1>5, <1>7 DEF Honest
  <2>2. new.status # "new"  BY <1>7 DEF PassStatus, FailStatus
  <2>3. new.status = "mastered" => new.streak >= MasteredStreak
    <3>1. CASE IsPass(g)
      <4>1. PassStatus(row, r, g, err) = "mastered" => row.streak + 1 >= MasteredStreak
        BY <1>5, ThresholdAssumption DEF PassStatus, Honest
      <4> QED  BY <3>1, <4>1, <1>7
    <3>2. CASE ~IsPass(g)  BY <3>2, <1>7 DEF FailStatus
    <3> QED  BY <3>1, <3>2
  <2> QED  BY <2>1, <2>2, <2>3 DEF Honest
<1> QED  BY <1>8, <1>9

\* An update of a row without a schedule gives it none, unless it lapses, and
\* then its status cannot be stored.
LEMMA UpdateUnscheduled ==
    ASSUME NEW row \in SkillRow, Unscheduled(row), NEW g \in Grades, NEW err \in ErrorTypes,
           NEW r \in 0..100, UpdateSkillState(row, g, err, r).status \in Storable
    PROVE  Unscheduled(UpdateSkillState(row, g, err, r))
<1> DEFINE new == UpdateSkillState(row, g, err, r)
           d == NewDifficulty(row, g, err)
<1>1. IsPass(g)
  <2>1. FailStatus(row) = "relearning"
    BY ThresholdAssumption DEF FailStatus, Unscheduled
  <2> QED  BY <2>1 DEF UpdateSkillState, Storable
<1>2. d \in 0..100  BY DifficultyType
<1>3. GrownStability(row, d, r, g, err) = 0  BY <1>2, StabilityType DEF Unscheduled
<1>4. new.stab = 0 /\ new.lapses = row.lapses /\ new.due = DueAtOnce(0, g, err)
  BY <1>1, <1>3 DEF UpdateSkillState
<1>5. DueAtOnce(0, g, err)  BY DEF DueAtOnce
<1> HIDE DEF new
<1> QED  BY <1>4, <1>5 DEF Unscheduled, new

-----------------------------------------------------------------------------
(* The rows *)

\* What the columns and the statuses promise, of a stored row and of one in
\* a request's hands.
Sound(row) == row \in SkillRow /\ Honest(row)

\* Rows are without a schedule.  A request may hold a row that has one, after
\* a lapse; then the row cannot be stored.
RowInv ==
    /\ DOMAIN rows \subseteq Skills
    /\ \A s \in DOMAIN rows : Sound(rows[s]) /\ Unscheduled(rows[s])

PendingInv ==
    /\ DOMAIN req = Requests
    /\ \A p \in Requests :
        /\ "pc" \in DOMAIN req[p]
        /\ req[p].pc = "upsert" =>
              /\ Sound(req[p].row)
              /\ req[p].row.status \in Storable => Unscheduled(req[p].row)
        /\ req[p].pc = "granted" =>
              /\ Sound(req[p].row) /\ Unscheduled(req[p].row)
              /\ "pc" \in DOMAIN req[p].rest /\ req[p].rest.pc = "grant"

Inv == RowInv /\ PendingInv

\* Columns may be set one by one.
RowOf(C, B, D, S) ==
    [conf : C, stab : B, diff : D, reviewed : BOOLEAN, due : BOOLEAN, attempts : Nat,
     streak : Nat, lapses : Nat, status : S]

LEMMA RowGranted ==
    ASSUME NEW C, NEW B, NEW D, NEW S, NEW row \in RowOf(C, B, D, S),
           NEW c \in C, NEW st \in S, NEW n \in Nat, NEW k \in Nat
    PROVE  [row EXCEPT !.conf = c, !.status = st, !.attempts = n, !.streak = k]
              \in RowOf(C, B, D, S)
BY DEF RowOf

LEMMA RowSeeded ==
    ASSUME NEW C, NEW B, NEW D, NEW S, NEW row \in RowOf(C, B, D, S), NEW b \in B, NEW d \in D
    PROVE  [row EXCEPT !.stab = b, !.diff = d] \in RowOf(C, B, D, S)
BY DEF RowOf

LEMMA SkillRowOf == SkillRow = RowOf(0..1000, 0..MaxStability, 0..100, Statuses)
BY DEF SkillRow, RowOf

\* The row InitializeSkills inserts.
LEMMA SeededSound == Sound(SeededRow) /\ Unscheduled(SeededRow)
<1>1. NewSkillState \in SkillRow
  BY DEF NewSkillState, SkillRow, Statuses, MinStability, MaxStability
<1>2. 0 \in 0..MaxStability  BY DEF MaxStability
<1>3. SeededRow \in SkillRow
  <2> DEFINE C == 0..1000  B == 0..MaxStability  D == 0..100
  <2>1. 50 \in D /\ 0 \in B  BY <1>2
  <2>2. NewSkillState \in RowOf(C, B, D, Statuses)  BY <1>1, SkillRowOf
  <2> HIDE DEF C, B, D
  <2>3. [NewSkillState EXCEPT !.stab = 0, !.diff = 50] \in RowOf(C, B, D, Statuses)
    BY <2>1, <2>2, RowSeeded
  <2> QED  BY <2>3, SkillRowOf DEF SeededRow, C, B, D
<1>4. /\ SeededRow.status = "new" /\ SeededRow.attempts = 0 /\ SeededRow.streak = 0
      /\ SeededRow.due = TRUE /\ SeededRow.stab = 0 /\ SeededRow.lapses = 0
  BY DEF SeededRow, NewSkillState
<1> QED  BY <1>3, <1>4 DEF Sound, Honest, Unscheduled

\* What the placement test makes of a row.
LEMMA GrantedSound ==
    ASSUME NEW row, Sound(row), Unscheduled(row)
    PROVE  Sound(Granted(row)) /\ Unscheduled(Granted(row))
<1>1. row \in SkillRow  BY DEF Sound
<1>2. "learning" \in Statuses  BY DEF Statuses
<1>3. Granted(row) \in SkillRow
  <2> DEFINE C == 0..1000  B == 0..MaxStability  D == 0..100
  <2> DEFINE c == 500  st == "learning"  n == 1
  <2>1. c \in C /\ st \in Statuses /\ n \in Nat  BY <1>2
  <2>2. row \in RowOf(C, B, D, Statuses)  BY <1>1, SkillRowOf
  <2> HIDE DEF C, B, D, c, st, n
  <2>3. [row EXCEPT !.conf = c, !.status = st, !.attempts = n, !.streak = n]
            \in RowOf(C, B, D, Statuses)
    BY <2>1, <2>2, RowGranted
  <2> QED  BY <2>3, SkillRowOf DEF Granted, C, B, D, c, st, n
<1>4. /\ Granted(row).status = "learning" /\ Granted(row).attempts = 1
      /\ Granted(row).streak = 1 /\ Granted(row).due = row.due
      /\ Granted(row).stab = row.stab /\ Granted(row).lapses = row.lapses
  BY <1>1 DEF Granted, SkillRow
<1> QED  BY <1>3, <1>4 DEF Sound, Honest, Unscheduled

\* Seeding adds sound rows, whether or not it succeeds.
LEMMA SeedKeepsRows ==
    ASSUME RowInv, NEW l, SeedOrFail(l)
    PROVE  RowInv'
<1>1. CASE rows' = rows  BY <1>1 DEF RowInv
<1>2. CASE InitializeSkills(l)
  <2>1. DOMAIN rows' = DOMAIN rows \cup UpTo(l)  BY <1>2 DEF InitializeSkills
  <2>2. \A s \in DOMAIN rows' : rows'[s] = IF s \in DOMAIN rows THEN rows[s] ELSE SeededRow
    BY <1>2, <2>1 DEF InitializeSkills
  <2> QED  BY <2>1, <2>2, SeededSound DEF RowInv, UpTo
<1> QED  BY <1>1, <1>2 DEF SeedOrFail

\* So does storing a row that is sound and, if it can be stored, unscheduled.
LEMMA UpsertKeepsRows ==
    ASSUME RowInv, NEW s, NEW row, Sound(row), row.status \in Storable => Unscheduled(row),
           UpsertLearnerSkill(s, row)
    PROVE  RowInv'
<1>1. CASE rows' = rows  BY <1>1 DEF RowInv
<1>2. CASE row.status \in Storable /\ rows' = [rows EXCEPT ![s] = row]
  <2>1. DOMAIN rows' = DOMAIN rows  BY <1>2
  <2>2. \A k \in DOMAIN rows : rows'[k] = row \/ rows'[k] = rows[k]  BY <1>2
  <2> QED  BY <1>2, <2>1, <2>2 DEF RowInv
<1> QED  BY <1>1, <1>2 DEF UpsertLearnerSkill

\* A request that goes on to a statement other than an upsert, or to one with
\* a row that is as it should be, disturbs nobody's.
LEMMA GoKeepsPending ==
    ASSUME PendingInv, NEW p \in Requests, NEW next, Go(p, next),
           "pc" \in DOMAIN next,
           next.pc = "upsert" =>
              Sound(next.row) /\ (next.row.status \in Storable => Unscheduled(next.row)),
           next.pc = "granted" =>
              /\ Sound(next.row) /\ Unscheduled(next.row)
              /\ "pc" \in DOMAIN next.rest /\ next.rest.pc = "grant"
    PROVE  PendingInv'
<1>1. DOMAIN req' = Requests  BY DEF Go, PendingInv
<1>2. req'[p] = next  BY DEF Go, PendingInv
<1>3. \A q \in Requests \ {p} : req'[q] = req[q]  BY DEF Go, PendingInv
<1> QED  BY <1>1, <1>2, <1>3 DEF PendingInv

LEMMA InvInit == Init => Inv
<1> SUFFICES ASSUME Init PROVE Inv  OBVIOUS
<1>1. RowInv  BY DEF Init, RowInv
<1>2. PendingInv  BY DEF Init, PendingInv, Idle
<1> QED  BY <1>1, <1>2 DEF Inv

\* An answer computes its row from a stored one.
LEMMA SubmitReadKeeps ==
    ASSUME Inv, NEW p \in Requests, NEW s \in Skills, NEW a \in Attempts, NEW r \in Recalls,
           SubmitRead(p, s, a, r)
    PROVE  Inv'
<1> DEFINE g == Grade(a.right, a.hints, a.slow)
           new == UpdateSkillState(rows[s], g, a.err, r)
           next == [pc |-> "upsert", skill |-> s, row |-> new]
<1>1. a \in [right : BOOLEAN, hints : 0..3, slow : BOOLEAN, err : ErrorTypes] /\ r \in 0..100
  BY SkillsAssumption
<1>2. a.right \in BOOLEAN /\ a.hints \in 0..3 /\ a.slow \in BOOLEAN /\ a.err \in ErrorTypes
  BY <1>1
<1>3. g \in Grades  BY <1>2, GradeType
<1>4. rows[s] \in SkillRow /\ Honest(rows[s]) /\ Unscheduled(rows[s])
  BY DEF SubmitRead, Inv, RowInv, Sound
<1>5. Go(p, next) /\ rows' = rows  BY DEF SubmitRead
<1> HIDE DEF g
<1>6. new \in SkillRow /\ Honest(new)  BY <1>1, <1>2, <1>3, <1>4, UpdateHonest
<1>7. new.status \in Storable => Unscheduled(new)
  BY <1>1, <1>2, <1>3, <1>4, UpdateUnscheduled
<1> HIDE DEF new
<1>8. "pc" \in DOMAIN next /\ next.pc = "upsert" /\ next.row = new  OBVIOUS
<1> HIDE DEF next
<1>9. PendingInv'  BY <1>5, <1>6, <1>7, <1>8, GoKeepsPending DEF Inv, Sound
<1>10. RowInv'  BY <1>5 DEF Inv, RowInv
<1> QED  BY <1>9, <1>10 DEF Inv

\* A request that neither writes a row nor takes one up.
LEMMA QuietKeeps ==
    ASSUME Inv, NEW p \in Requests, NEW next, Go(p, next), rows' = rows,
           "pc" \in DOMAIN next, next.pc \notin {"upsert", "granted"}
    PROVE  Inv'
<1>1. RowInv'  BY DEF Inv, RowInv
<1>2. PendingInv'  BY GoKeepsPending DEF Inv
<1> QED  BY <1>1, <1>2 DEF Inv

\* A request that seeds and goes on to something else.
LEMMA SeedingKeeps ==
    ASSUME Inv, NEW p \in Requests, NEW next, NEW l, Go(p, next), SeedOrFail(l),
           "pc" \in DOMAIN next, next.pc \notin {"upsert", "granted"}
    PROVE  Inv'
<1>1. RowInv'  BY SeedKeepsRows DEF Inv
<1>2. PendingInv'  BY GoKeepsPending DEF Inv
<1> QED  BY <1>1, <1>2 DEF Inv

LEMMA PlanningKeeps ==
    ASSUME Inv, NEW p \in Requests,
           PlanRead(p) \/ PlanDue(p) \/ PlanWeak(p) \/ PlanAll(p) \/ PlanAgain(p)
               \/ PlanUnlocked(p) \/ PlanAnswer(p)
    PROVE  Inv'
<1> DEFINE all == WithAll(p)
<1>0. /\ "pc" \in DOMAIN req[p] /\ "pc" \in DOMAIN Idle /\ Idle.pc = "idle"
      /\ "pc" \in DOMAIN all /\ all.pc = "unlocked"
  BY DEF Inv, PendingInv, Idle, WithAll
<1> HIDE DEF all
<1>1. CASE PlanRead(p)
  <2> DEFINE next == [pc |-> "due", level |-> level]
  <2>1. "pc" \in DOMAIN next /\ next.pc = "due"  OBVIOUS
  <2>2. Go(p, next) /\ rows' = rows  BY <1>1 DEF PlanRead
  <2> HIDE DEF next
  <2> QED  BY <2>1, <2>2, QuietKeeps
<1>2. CASE PlanWeak(p)
  <2>1. PICK weak \in GetWeakest :
            Go(p, [pc |-> "all", level |-> req[p].level, due |-> req[p].due, weak |-> weak])
    BY <1>2 DEF PlanWeak
  <2> DEFINE next == [pc |-> "all", level |-> req[p].level, due |-> req[p].due, weak |-> weak]
  <2>2. "pc" \in DOMAIN next /\ next.pc = "all"  OBVIOUS
  <2> HIDE DEF next
  <2> QED  BY <1>2, <2>1, <2>2, QuietKeeps DEF PlanWeak, next
<1>3. CASE PlanAll(p)
  <2> DEFINE next == [req[p] EXCEPT !.pc = "again"]
  <2>1. "pc" \in DOMAIN next /\ next.pc = "again"  BY <1>0
  <2>2. CASE rows = << >>
    <3>1. SeedOrFail(req[p].level) /\ Go(p, next)  BY <1>3, <2>2 DEF PlanAll
    <3> HIDE DEF next
    <3> QED  BY <2>1, <3>1, SeedingKeeps
  <2>3. CASE rows # << >>
    <3>1. Go(p, all) /\ rows' = rows  BY <1>3, <2>3 DEF PlanAll, all
    <3> QED  BY <1>0, <3>1, QuietKeeps
  <2> QED  BY <2>2, <2>3
<1>4. CASE PlanAgain(p)
  <2>1. Go(p, all) /\ rows' = rows  BY <1>4 DEF PlanAgain, all
  <2> QED  BY <1>0, <2>1, QuietKeeps
<1>5. CASE PlanUnlocked(p)
  <2> DEFINE next(plan, content, used, items) ==
               [pc |-> "planned", selections |-> plan, content |-> content,
                used |-> used, items |-> items, knew |-> Known]
  <2>1. /\ rows' = rows
        /\ \/ Go(p, Idle)
           \/ \E plan, content, used, items : Go(p, next(plan, content, used, items))
    BY <1>5 DEF PlanUnlocked
  <2>2. CASE Go(p, Idle)  BY <1>0, <2>1, <2>2, QuietKeeps
  <2>3. ASSUME NEW plan, NEW content, NEW used, NEW items,
               Go(p, next(plan, content, used, items))
        PROVE  Inv'
    <3>1. "pc" \in DOMAIN next(plan, content, used, items)
          /\ next(plan, content, used, items).pc = "planned"  OBVIOUS
    <3> HIDE DEF next
    <3> QED  BY <2>1, <2>3, <3>1, QuietKeeps
  <2> QED  BY <2>1, <2>2, <2>3
<1>6. CASE PlanAnswer(p)
  <2>1. Go(p, Idle) /\ rows' = rows  BY <1>6 DEF PlanAnswer
  <2> QED  BY <1>0, <2>1, QuietKeeps
<1>7. CASE PlanDue(p)
  <2>1. PICK due \in GetDueForReview :
            Go(p, [pc |-> "weak", level |-> req[p].level, due |-> due])
    BY <1>7 DEF PlanDue
  <2> DEFINE next == [pc |-> "weak", level |-> req[p].level, due |-> due]
  <2>2. "pc" \in DOMAIN next /\ next.pc = "weak"  OBVIOUS
  <2> HIDE DEF next
  <2> QED  BY <1>7, <2>1, <2>2, QuietKeeps DEF PlanDue, next
<1> QED  BY <1>1, <1>2, <1>3, <1>4, <1>5, <1>6, <1>7

LEMMA PlacingKeeps ==
    ASSUME Inv, NEW p \in Requests,
           PlacementSubmit(p) \/ PlacementLevel(p) \/ PlacementSeed(p) \/ PlacementRead(p)
               \/ PlacementGrant(p)
    PROVE  Inv'
<1>0. "pc" \in DOMAIN req[p] /\ "pc" \in DOMAIN Idle /\ Idle.pc = "idle"
  BY DEF Inv, PendingInv, Idle
<1>1. CASE PlacementSubmit(p)
  <2>1. PICK next : Go(p, next) /\ "pc" \in DOMAIN next /\ next.pc = "level"
    <3> DEFINE l == DeterminedLevel(test.results, test.stopped)
               known == [i \in DOMAIN SelectSeq(test.results, LAMBDA x : x.right) |->
                            SelectSeq(test.results, LAMBDA x : x.right)[i].skill]
               n == [pc |-> "level", level |-> l, known |-> known]
    <3>1. Go(p, n)  BY <1>1 DEF PlacementSubmit
    <3> HIDE DEF l, known
    <3>2. "pc" \in DOMAIN n /\ n.pc = "level"  OBVIOUS
    <3> HIDE DEF n
    <3> QED  BY <3>1, <3>2
  <2>2. rows' = rows  BY <1>1 DEF PlacementSubmit
  <2> QED  BY <2>1, <2>2, QuietKeeps
<1>2. CASE PlacementLevel(p)
  <2> DEFINE next == [req[p] EXCEPT !.pc = "seed"]
  <2>1. Go(p, next) /\ rows' = rows  BY <1>2 DEF PlacementLevel
  <2>2. "pc" \in DOMAIN next /\ next.pc = "seed"  BY <1>0
  <2> HIDE DEF next
  <2> QED  BY <2>1, <2>2, QuietKeeps
<1>3. CASE PlacementSeed(p)
  <2> DEFINE next == [req[p] EXCEPT !.pc = "grant"]
  <2>1. Go(p, next) /\ SeedOrFail(req[p].level)  BY <1>3 DEF PlacementSeed
  <2>2. "pc" \in DOMAIN next /\ next.pc = "grant"  BY <1>0
  <2> HIDE DEF next
  <2> QED  BY <2>1, <2>2, SeedingKeeps
<1>4. CASE PlacementRead(p)
  <2> DEFINE s == Head(req[p].known)
             rest == [req[p] EXCEPT !.known = Tail(@)]
             next == [pc |-> "granted", skill |-> s, row |-> Granted(rows[s]), rest |-> rest]
  <2>1. rest.pc = "grant" /\ "pc" \in DOMAIN rest  BY <1>0, <1>4 DEF PlacementRead
  <2>2. rows' = rows /\ (Go(p, Idle) \/ Go(p, rest) \/ (s \in DOMAIN rows /\ Go(p, next)))
    BY <1>4 DEF PlacementRead
  <2> HIDE DEF rest, s
  <2>3. /\ "pc" \in DOMAIN next /\ next.pc = "granted" /\ next.row = Granted(rows[s])
        /\ next.rest = rest
    OBVIOUS
  <2> HIDE DEF next
  <2>4. CASE Go(p, Idle)  BY <1>0, <2>2, <2>4, QuietKeeps
  <2>5. CASE Go(p, rest)  BY <2>1, <2>2, <2>5, QuietKeeps
  <2>6. CASE s \in DOMAIN rows /\ Go(p, next)
    <3>1. Sound(rows[s]) /\ Unscheduled(rows[s])  BY <2>6 DEF Inv, RowInv
    <3>2. Sound(next.row) /\ Unscheduled(next.row)  BY <2>3, <3>1, GrantedSound
    <3>3. PendingInv'  BY <2>1, <2>3, <2>6, <3>2, GoKeepsPending DEF Inv
    <3>4. RowInv'  BY <2>2 DEF Inv, RowInv
    <3> QED  BY <3>3, <3>4 DEF Inv
  <2> QED  BY <2>2, <2>4, <2>5, <2>6
<1>5. CASE PlacementGrant(p)
  <2> DEFINE row == req[p].row  rest == req[p].rest
  <2>1. /\ Sound(row) /\ Unscheduled(row)
        /\ "pc" \in DOMAIN rest /\ rest.pc = "grant"
    BY <1>5 DEF PlacementGrant, Inv, PendingInv
  <2>2. UpsertLearnerSkill(req[p].skill, row) /\ Go(p, rest)  BY <1>5 DEF PlacementGrant
  <2> HIDE DEF row, rest
  <2>3. RowInv'  BY <2>1, <2>2, UpsertKeepsRows DEF Inv
  <2>4. PendingInv'  BY <2>1, <2>2, GoKeepsPending DEF Inv
  <2> QED  BY <2>3, <2>4 DEF Inv
<1> QED  BY <1>1, <1>2, <1>3, <1>4, <1>5

LEMMA InvStep == Inv /\ [Next]_vars => Inv'
<1> SUFFICES ASSUME Inv, [Next]_vars PROVE Inv'  OBVIOUS
<1>0. "pc" \in DOMAIN Idle /\ Idle.pc = "idle"  BY DEF Idle
<1>1. CASE Page  BY <1>1 DEF Page, Inv, RowInv, PendingInv
<1>2. ASSUME NEW p \in Requests, CreateProfile(p) PROVE Inv'
  <2> DEFINE next == [pc |-> "init"]
  <2>1. Go(p, next) /\ rows' = rows  BY <1>2 DEF CreateProfile
  <2>2. "pc" \in DOMAIN next /\ next.pc = "init"  OBVIOUS
  <2> HIDE DEF next
  <2> QED  BY <2>1, <2>2, QuietKeeps
<1>3. ASSUME NEW p \in Requests, CreateInit(p) PROVE Inv'
  BY <1>0, <1>3, SeedingKeeps DEF CreateInit
<1>4. ASSUME NEW p \in Requests, NEW s \in Skills, NEW a \in Attempts, NEW r \in Recalls,
             SubmitRead(p, s, a, r)
      PROVE  Inv'
  BY <1>4, SubmitReadKeeps
<1>5. ASSUME NEW p \in Requests, SubmitUpsert(p) PROVE Inv'
  <2> DEFINE row == req[p].row
  <2>1. Sound(row) /\ (row.status \in Storable => Unscheduled(row))
    BY <1>5 DEF SubmitUpsert, Inv, PendingInv
  <2>2. UpsertLearnerSkill(req[p].skill, row) /\ Go(p, Idle)  BY <1>5 DEF SubmitUpsert
  <2> HIDE DEF row
  <2>3. RowInv'  BY <2>1, <2>2, UpsertKeepsRows DEF Inv
  <2>4. PendingInv'  BY <1>0, <2>2, GoKeepsPending DEF Inv
  <2> QED  BY <2>3, <2>4 DEF Inv
<1>6. CASE UNCHANGED vars  BY <1>6 DEF vars, Inv, RowInv, PendingInv
<1> QED  BY <1>1, <1>2, <1>3, <1>4, <1>5, <1>6, PlanningKeeps, PlacingKeeps DEF Next

\* InvAlways: the rows and what requests hold are as they should be.
LEMMA InvAlways == Spec => []Inv
BY InvInit, InvStep, PTL DEF Spec

\* However answers, placements and plans overlap and fail, a stored row keeps
\* to its columns and its status tells the truth.
THEOREM HonestStatuses == Spec => []StatusHonest
<1>1. Inv => StatusHonest
  BY DEF Inv, RowInv, PendingInv, Sound, Honest, StatusHonest, RowsOK
<1> QED  BY <1>1, InvAlways, PTL

\* Every skill of every learner stays due for review at once, and no lapse is
\* ever counted.
StillDue ==
    \A s \in DOMAIN rows : rows[s].due /\ rows[s].stab = 0 /\ rows[s].lapses = 0

\* No answer, whatever its grade, error and recall, ever gives a stored skill
\* a schedule.
THEOREM NothingScheduled == Spec => []StillDue
<1>1. Inv => StillDue  BY DEF Inv, RowInv, Unscheduled, StillDue
<1> QED  BY <1>1, InvAlways, PTL

-----------------------------------------------------------------------------
(* The rows of the level *)

\* A request is about to insert the row of s.
Seeding(p, s) ==
    \/ req[p].pc = "init" /\ SkillLevel[s] <= 1
    \/ req[p].pc = "seed" /\ SkillLevel[s] <= req[p].level

SeedInv ==
    ~unseeded => \A s \in Skills : SkillLevel[s] <= level =>
                    s \in DOMAIN rows \/ \E p \in Requests : Seeding(p, s)

\* A step that is not about to insert a row takes none away.
LEMMA SeedQuiet ==
    ASSUME Inv, SeedInv, NEW p \in Requests, NEW next, Go(p, next),
           req[p].pc \notin {"init", "seed"}, level' = level,
           unseeded' = unseeded \/ unseeded' = TRUE, DOMAIN rows \subseteq DOMAIN rows'
    PROVE  SeedInv'
<1>1. \A q \in Requests \ {p} : req'[q] = req[q]  BY DEF Go, Inv, PendingInv
<1>2. \A s \in Skills : ~Seeding(p, s)  BY DEF Seeding
<1>3. \A q \in Requests, s \in Skills : Seeding(q, s) => Seeding(q, s)'
  BY <1>1, <1>2 DEF Seeding
<1> QED  BY <1>3 DEF SeedInv

\* An insert covers the levels it is for; rows are never deleted.
LEMMA SeedCovers ==
    ASSUME NEW l, SeedOrFail(l)
    PROVE  /\ DOMAIN rows \subseteq DOMAIN rows'
           /\ unseeded' = TRUE \/ (unseeded' = unseeded /\ UpTo(l) \subseteq DOMAIN rows')
<1>1. CASE rows' = rows /\ unseeded' = TRUE  BY <1>1
<1>2. CASE InitializeSkills(l) /\ unseeded' = unseeded
  <2>1. DOMAIN rows' = DOMAIN rows \cup UpTo(l)  BY <1>2 DEF InitializeSkills
  <2> QED  BY <1>2, <2>1
<1> QED  BY <1>1, <1>2 DEF SeedOrFail

LEMMA UpsertKeepsDomain ==
    ASSUME NEW s, NEW row, UpsertLearnerSkill(s, row)
    PROVE  DOMAIN rows' = DOMAIN rows
BY DEF UpsertLearnerSkill

\* A request that was about to insert rows has inserted them, or failed to.
LEMMA SeedDone ==
    ASSUME Inv, SeedInv, NEW p \in Requests, NEW l, NEW next,
           \A s \in Skills : Seeding(p, s) => s \in UpTo(l),
           SeedOrFail(l), Go(p, next), level' = level
    PROVE  SeedInv'
<1>1. \A q \in Requests \ {p} : req'[q] = req[q]  BY DEF Go, Inv, PendingInv
<1>2. \A q \in Requests \ {p}, s \in Skills : Seeding(q, s) => Seeding(q, s)'
  BY <1>1 DEF Seeding
<1> QED  BY <1>2, SeedCovers DEF SeedInv

LEMMA SeedInvStep == Inv /\ SeedInv /\ [Next]_vars => SeedInv'
<1> SUFFICES ASSUME Inv, SeedInv, [Next]_vars PROVE SeedInv'  OBVIOUS
<1>0. /\ DOMAIN req = Requests /\ \A p \in Requests : "pc" \in DOMAIN req[p]
      /\ Idle.pc = "idle"
  BY DEF Inv, PendingInv, Idle
<1>1. CASE Page  BY <1>1 DEF Page, SeedInv, Seeding
<1>2. ASSUME NEW p \in Requests, CreateProfile(p) PROVE SeedInv'
  <2>1. level' = 1 /\ req'[p] = [pc |-> "init"]  BY <1>0, <1>2 DEF CreateProfile, Go
  <2>2. req'[p].pc = "init"  BY <2>1
  <2> QED  BY <2>1, <2>2 DEF SeedInv, Seeding
<1>4. ASSUME NEW p \in Requests, CreateInit(p) PROVE SeedInv'
  <2>1. \A s \in Skills : Seeding(p, s) => s \in UpTo(1)
    BY <1>4 DEF CreateInit, Seeding, UpTo
  <2>2. SeedOrFail(1) /\ Go(p, Idle) /\ level' = level  BY <1>4 DEF CreateInit
  <2> QED  BY <2>1, <2>2, SeedDone
<1>5. ASSUME NEW p \in Requests, PlacementSeed(p) PROVE SeedInv'
  <2> DEFINE next == [req[p] EXCEPT !.pc = "grant"]
             l == req[p].level
  <2>1. \A s \in Skills : Seeding(p, s) => s \in UpTo(l)
    BY <1>5 DEF PlacementSeed, Seeding, UpTo
  <2>2. SeedOrFail(l) /\ Go(p, next) /\ level' = level  BY <1>5 DEF PlacementSeed
  <2> HIDE DEF l, next
  <2> QED  BY <2>1, <2>2, SeedDone
<1>6. ASSUME NEW p \in Requests, PlacementLevel(p) PROVE SeedInv'
  <2> DEFINE next == [req[p] EXCEPT !.pc = "seed"]
  <2>1. req'[p] = next /\ \A q \in Requests \ {p} : req'[q] = req[q]
    BY <1>0, <1>6 DEF PlacementLevel, Go
  <2>2. next.pc = "seed" /\ next.level = req[p].level  BY <1>0
  <2> HIDE DEF next
  <2>3. \A q \in Requests, s \in Skills : Seeding(q, s) => Seeding(q, s)'
    BY <1>6, <2>1 DEF PlacementLevel, Seeding
  <2>4. CASE level' = level  BY <1>6, <2>3, <2>4 DEF PlacementLevel, SeedInv
  <2>5. CASE level' = req[p].level  BY <2>1, <2>2, <2>5 DEF SeedInv, Seeding
  <2> QED  BY <1>6, <2>4, <2>5 DEF PlacementLevel
<1>7. ASSUME NEW p \in Requests, NEW s \in Skills, NEW a \in Attempts, NEW r \in Recalls,
             SubmitRead(p, s, a, r)
      PROVE  SeedInv'
  BY <1>0, <1>7, SeedQuiet DEF SubmitRead
<1>8. ASSUME NEW p \in Requests, SubmitUpsert(p) PROVE SeedInv'
  BY <1>8, UpsertKeepsDomain, SeedQuiet DEF SubmitUpsert
<1>9. ASSUME NEW p \in Requests,
             PlanRead(p) \/ PlanDue(p) \/ PlanWeak(p) \/ PlanAgain(p) \/ PlanAnswer(p)
      PROVE  SeedInv'
  BY <1>0, <1>9, SeedQuiet DEF PlanRead, PlanDue, PlanWeak, PlanAgain, PlanAnswer
<1>10. ASSUME NEW p \in Requests, PlanUnlocked(p) PROVE SeedInv'
  <2>1. PICK next : Go(p, next)
    BY <1>10 DEF PlanUnlocked
  <2> QED  BY <1>10, <2>1, SeedQuiet DEF PlanUnlocked
<1>11. ASSUME NEW p \in Requests, PlanAll(p) PROVE SeedInv'
  <2>1. CASE rows = << >>
    BY <1>11, <2>1, SeedCovers, SeedQuiet DEF PlanAll
  <2>2. CASE rows # << >>
    BY <1>11, <2>2, SeedQuiet DEF PlanAll
  <2> QED  BY <2>1, <2>2
<1>12. ASSUME NEW p \in Requests, PlacementSubmit(p) PROVE SeedInv'
  <2>1. PICK next : Go(p, next)
    BY <1>12 DEF PlacementSubmit
  <2> QED  BY <1>0, <1>12, <2>1, SeedQuiet DEF PlacementSubmit
<1>13. ASSUME NEW p \in Requests, PlacementRead(p) PROVE SeedInv'
  <2>1. PICK next : Go(p, next)
    BY <1>13 DEF PlacementRead
  <2> QED  BY <1>13, <2>1, SeedQuiet DEF PlacementRead
<1>14. ASSUME NEW p \in Requests, PlacementGrant(p) PROVE SeedInv'
  BY <1>14, UpsertKeepsDomain, SeedQuiet DEF PlacementGrant
<1>15. CASE UNCHANGED vars  BY <1>15 DEF vars, SeedInv, Seeding
<1> QED
  BY <1>1, <1>2, <1>4, <1>5, <1>6, <1>7, <1>8, <1>9, <1>10, <1>11, <1>12, <1>13, <1>14, <1>15
  DEF Next

LEMMA SeedInvInit == Init => SeedInv
<1> SUFFICES ASSUME Init PROVE SeedInv  OBVIOUS
<1>1. \A s \in Skills : SkillLevel[s] \in 1..6  BY SkillsAssumption
<1> QED  BY <1>1 DEF Init, SeedInv

\* Unless an InitializeSkills failed, a learner at rest has the rows of the
\* level, for any number of overlapping placements, plans and answers.
THEOREM LevelSeeded == Spec => []SeededUpToLevel
<1>1. SeedInv => SeededUpToLevel
  <2>1. \A p \in Requests, s \in Skills : req[p] = Idle => ~Seeding(p, s)
    BY DEF Seeding, Idle
  <2> QED  BY <2>1 DEF SeedInv, SeededUpToLevel
<1> QED  BY <1>1, InvAlways, SeedInvInit, SeedInvStep, PTL DEF Spec

-----------------------------------------------------------------------------
(* Induction, sequences and ranks, as in AdaptiveSessionProofs             *)

\* A set of numbers that has 0 and is closed under successor has them all.
LEMMA SetInduction ==
    ASSUME NEW S, 0 \in S, \A n \in Nat : n \in S => n + 1 \in S
    PROVE  Nat \subseteq S
<1> DEFINE R == {ss \in Nat \X Nat : ss[1] < ss[2]}
           T == Nat \ S
<1> SUFFICES ASSUME T # {} PROVE FALSE  OBVIOUS
<1>1. \E x \in T : \A y \in T : ~ (<<y, x>> \in R)
  <2>1. IsWellFoundedOn(R, Nat)  BY NatLessThanWellFounded DEF OpToRel
  <2> HIDE DEF R, T
  <2>2. T \subseteq Nat  BY DEF T
  <2> QED  BY <2>1, <2>2, WFMin
<1>2. \A x, y \in Nat : y < x => <<y, x>> \in R  OBVIOUS
<1>3. PICK x \in T : \A y \in T : ~(y < x)  BY <1>1, <1>2
<1>4. x # 0 /\ x - 1 \in Nat /\ x - 1 \in S /\ x - 1 < x  BY <1>3
<1> QED  BY <1>4

\* The same up to a bound.
LEMMA BoundedInduction ==
    ASSUME NEW n \in Nat, NEW S, 0 \in S, \A k \in 1..n : k - 1 \in S => k \in S
    PROVE  0..n \subseteq S
<1> DEFINE T == {k \in Nat : k <= n => k \in S}
<1>1. 0 \in T  OBVIOUS
<1>2. \A k \in Nat : k \in T => k + 1 \in T
  <2> SUFFICES ASSUME NEW k \in Nat, k \in T, k + 1 <= n PROVE k + 1 \in S  OBVIOUS
  <2>1. k \in S  OBVIOUS
  <2>2. k + 1 \in 1..n /\ (k + 1) - 1 = k  OBVIOUS
  <2> QED  BY <2>1, <2>2
<1> HIDE DEF T
<1>3. Nat \subseteq T  BY <1>1, <1>2, SetInduction
<1> QED  BY <1>3 DEF T

\* Sets of predecessors that grow along a total order number its elements.
LEMMA Ranked ==
    ASSUME NEW K, IsFiniteSet(K), NEW D \in [K -> SUBSET K], \A i \in K : i \in D[i],
           \A i, j \in K : i # j => \/ D[i] \subseteq D[j] /\ j \notin D[i]
                                    \/ D[j] \subseteq D[i] /\ i \notin D[j]
    PROVE  /\ Cardinality(K) \in Nat
           /\ \A k \in 1..Cardinality(K) : \E i \in K : Cardinality(D[i]) = k
           /\ \A i, j \in K : Cardinality(D[i]) = Cardinality(D[j]) => i = j
           /\ \A i \in K : Cardinality(D[i]) \in 1..Cardinality(K)
<1> DEFINE n == Cardinality(K)
           r == [i \in K |-> Cardinality(D[i])]
<1>1. n \in Nat  BY FS_CardinalityType
<1>2. \A i \in K : IsFiniteSet(D[i]) /\ Cardinality(D[i]) \in 1..n
  <2> SUFFICES ASSUME NEW i \in K PROVE IsFiniteSet(D[i]) /\ Cardinality(D[i]) \in 1..n
    OBVIOUS
  <2>1. IsFiniteSet(D[i]) /\ Cardinality(D[i]) <= n  BY FS_Subset
  <2>2. Cardinality(D[i]) \in Nat /\ Cardinality(D[i]) # 0
    BY <2>1, FS_CardinalityType, FS_EmptySet
  <2> QED  BY <2>1, <2>2, <1>1
<1>3. \A i, j \in K : Cardinality(D[i]) = Cardinality(D[j]) => i = j
  <2> SUFFICES ASSUME NEW i \in K, NEW j \in K, i # j,
                      Cardinality(D[i]) = Cardinality(D[j])
               PROVE  FALSE
    OBVIOUS
  <2>1. CASE D[i] \subseteq D[j] /\ j \notin D[i]
    <3>1. D[i] = D[j]  BY <2>1, <1>2, FS_Subset
    <3> QED  BY <3>1, <2>1
  <2>2. CASE D[j] \subseteq D[i] /\ i \notin D[j]
    <3>1. D[i] = D[j]  BY <2>2, <1>2, FS_Subset
    <3> QED  BY <3>1, <2>2
  <2> QED  BY <2>1, <2>2
<1>4. r \in Injection(K, 1..n)
  <2>1. r \in [K -> 1..n]  BY <1>2
  <2>2. \A i, j \in K : r[i] = r[j] => i = j  BY <1>3
  <2> HIDE DEF r
  <2> QED  BY <2>1, <2>2 DEF Injection, IsInjective
<1> HIDE DEF r
<1>5. IsFiniteSet(1..n) /\ Cardinality(1..n) = n  BY <1>1, FS_Interval
<1>6. r \in Surjection(K, 1..n)  BY <1>4, <1>5, FS_Injection
<1>7. \A k \in 1..n : \E i \in K : Cardinality(D[i]) = k  BY <1>6 DEF Surjection, r
<1> QED  BY <1>1, <1>2, <1>3, <1>7

\* Part of a sequence: its elements come from different places, in order, and
\* none of the places is left out.
KeptFrom(s, I) ==
    \E g \in [1..Cardinality(I) -> I] :
        /\ Kept(s, I) = [k \in 1..Cardinality(I) |-> s[g[k]]]
        /\ Cardinality(I) \in Nat /\ Cardinality(I) <= Len(s)
        /\ \A k, m \in 1..Cardinality(I) : g[k] = g[m] => k = m
        /\ \A i \in I : \E k \in 1..Cardinality(I) : g[k] = i

LEMMA KeptPlaces ==
    ASSUME NEW s, Len(s) \in Nat, DOMAIN s = 1..Len(s), NEW I \in SUBSET DOMAIN s
    PROVE  KeptFrom(s, I)
<1> DEFINE D == [i \in I |-> {j \in I : j <= i}]
           n == Cardinality(I)
           g == [k \in 1..n |-> CHOOSE i \in I : Cardinality({j \in I : j <= i}) = k]
<1>1. IsFiniteSet(DOMAIN s) /\ Cardinality(DOMAIN s) = Len(s)
  <2>1. IsFiniteSet(1..Len(s)) /\ Cardinality(1..Len(s)) = Len(s)  BY FS_Interval
  <2> QED  BY <2>1
<1>2. IsFiniteSet(I) /\ Cardinality(I) <= Len(s)  BY <1>1, FS_Subset
<1>3. /\ D \in [I -> SUBSET I] /\ \A i \in I : i \in D[i]
      /\ \A i, j \in I : i # j => \/ D[i] \subseteq D[j] /\ j \notin D[i]
                                  \/ D[j] \subseteq D[i] /\ i \notin D[j]
  OBVIOUS
<1>4. \A i \in I : D[i] = {j \in I : j <= i}  OBVIOUS
<1> HIDE DEF D
<1>5. /\ n \in Nat
      /\ \A k \in 1..n : \E i \in I : Cardinality(D[i]) = k
      /\ \A i, j \in I : Cardinality(D[i]) = Cardinality(D[j]) => i = j
      /\ \A i \in I : Cardinality(D[i]) \in 1..n
  BY <1>2, <1>3, Ranked
<1>6. \A k \in 1..n : g[k] \in I /\ Cardinality(D[g[k]]) = k
  <2> SUFFICES ASSUME NEW k \in 1..n PROVE g[k] \in I /\ Cardinality(D[g[k]]) = k  OBVIOUS
  <2>1. \E i \in I : Cardinality({j \in I : j <= i}) = k  BY <1>4, <1>5
  <2>2. g[k] \in I /\ Cardinality({j \in I : j <= g[k]}) = k  BY <2>1
  <2> QED  BY <2>2, <1>4
<1>7. Kept(s, I) = [k \in 1..n |-> s[g[k]]]  BY DEF Kept
<1> HIDE DEF g
<1>8. \A k, m \in 1..n : g[k] = g[m] => k = m
  <2> SUFFICES ASSUME NEW k \in 1..n, NEW m \in 1..n, g[k] = g[m] PROVE k = m  OBVIOUS
  <2> QED  BY <1>6
<1>9. \A i \in I : \E k \in 1..n : g[k] = i
  <2> SUFFICES ASSUME NEW i \in I PROVE \E k \in 1..n : g[k] = i  OBVIOUS
  <2>1. Cardinality(D[i]) \in 1..n  BY <1>5
  <2> QED  BY <2>1, <1>5, <1>6
<1>10. g \in [1..n -> I]
  <2>1. g = [k \in 1..n |-> CHOOSE i \in I : Cardinality({j \in I : j <= i}) = k]  BY DEF g
  <2>2. \A k \in 1..n : g[k] \in I  BY <1>6
  <2> QED  BY <2>1, <2>2
<1> QED  BY <1>2, <1>5, <1>7, <1>8, <1>9, <1>10 DEF KeptFrom

LEMMA AppendIs ==
    ASSUME NEW s, s \in Seq(Range(s)), NEW x
    PROVE  /\ Len(Append(s, x)) = Len(s) + 1 /\ DOMAIN Append(s, x) = 1..(Len(s) + 1)
           /\ Append(s, x) = [i \in 1..(Len(s) + 1) |-> Append(s, x)[i]]
           /\ Append(s, x)[Len(s) + 1] = x
           /\ \A i \in 1..Len(s) : Append(s, x)[i] = s[i]
<1> DEFINE T == Range(s) \cup {x}
<1>1. s \in Seq(T) /\ x \in T  OBVIOUS
<1> DEFINE u == Append(s, x)
<1>2. u \in Seq(T) /\ Len(u) = Len(s) + 1 /\ u[Len(s) + 1] = x /\ \A i \in 1..Len(s) : u[i] = s[i]
  BY <1>1, AppendProperties
<1> HIDE DEF T, u
<1>3. DOMAIN u = 1..Len(u) /\ u = [i \in 1..Len(u) |-> u[i]]  BY <1>2
<1>4. DOMAIN u = 1..(Len(s) + 1) /\ u = [i \in 1..(Len(s) + 1) |-> u[i]]  BY <1>2, <1>3
<1> QED  BY <1>2, <1>4 DEF u

-----------------------------------------------------------------------------
(* Plans                                                                   *)

\* A row as a plan sees it, and the answer of a query, which has no skill twice.
PlanRow == [skill : Skills, conf : Int, status : Statuses, attempts : Nat]

IsRows(q) ==
    /\ q \in Seq(PlanRow)
    /\ \A i, j \in 1..Len(q) : q[i].skill = q[j].skill => i = j

\* A function on 1..n is a sequence.
LEMMA FunctionIsSeq ==
    ASSUME NEW T, NEW n \in Nat, NEW f, f = [i \in 1..n |-> f[i]], \A i \in 1..n : f[i] \in T
    PROVE  f \in Seq(T) /\ Len(f) = n /\ DOMAIN f = 1..n
<1>1. f \in [1..n -> T]  OBVIOUS
<1> QED  BY <1>1

\* One sequence after another.
LEMMA JoinIs ==
    ASSUME NEW T, NEW s \in Seq(T), NEW u \in Seq(T)
    PROVE  /\ s \o u \in Seq(T) /\ Len(s \o u) = Len(s) + Len(u)
           /\ \A i \in 1..(Len(s) + Len(u)) :
                 (s \o u)[i] = IF i <= Len(s) THEN s[i] ELSE u[i - Len(s)]
OBVIOUS

\* The first rows.
LEMMA PrefixIs ==
    ASSUME NEW T, NEW s \in Seq(T), NEW n \in Nat
    PROVE  /\ Prefix(s, n) \in Seq(T)
           /\ Len(Prefix(s, n)) = Smaller(n, Len(s))
           /\ Len(Prefix(s, n)) <= n /\ Len(Prefix(s, n)) <= Len(s)
           /\ \A i \in 1..Len(Prefix(s, n)) : Prefix(s, n)[i] = s[i]
<1> DEFINE m == Smaller(n, Len(s))
<1>1. Len(s) \in Nat  OBVIOUS
<1>2. m \in 0..Len(s) /\ m <= n  BY <1>1 DEF Smaller
<1> HIDE DEF m
<1>3. Prefix(s, n) = SubSeq(s, 1, m)  BY DEF Prefix, m
<1>4. SubSeq(s, 1, m) = [i \in 1..m |-> s[i]]
  BY <1>2
<1>5. \A i \in 1..m : s[i] \in T  BY <1>1, <1>2
<1> DEFINE f == SubSeq(s, 1, m)
<1>6. f = [i \in 1..m |-> f[i]] /\ \A i \in 1..m : f[i] = s[i]  BY <1>4
<1> HIDE DEF f
<1>7. f \in Seq(T) /\ Len(f) = m  BY <1>2, <1>5, <1>6, FunctionIsSeq
<1> QED  BY <1>2, <1>3, <1>6, <1>7 DEF f, m

LEMMA PrefixRows ==
    ASSUME NEW s, IsRows(s), NEW n \in Nat
    PROVE  IsRows(Prefix(s, n))
<1> DEFINE f == Prefix(s, n)
<1>1. /\ f \in Seq(PlanRow) /\ Len(f) <= Len(s)
      /\ \A i \in 1..Len(f) : f[i] = s[i]
  BY PrefixIs DEF IsRows
<1>2. Len(s) \in Nat  BY DEF IsRows
<1> HIDE DEF f
<1>3. Len(f) \in Nat  BY <1>1
<1>4. \A i \in 1..Len(f) : i \in 1..Len(s)  BY <1>1, <1>2, <1>3
<1>5. IsRows(f)  BY <1>1, <1>4 DEF IsRows
<1> QED  BY <1>5 DEF f

\* The rows that are kept.
LEMMA KeptRows ==
    ASSUME NEW s, IsRows(s), NEW I \in SUBSET DOMAIN s
    PROVE  /\ IsRows(Kept(s, I))
           /\ \A k \in 1..Len(Kept(s, I)) : \E i \in I : Kept(s, I)[k] = s[i]
<1>1. Len(s) \in Nat /\ DOMAIN s = 1..Len(s) /\ \A i \in 1..Len(s) : s[i] \in PlanRow
  BY DEF IsRows
<1>0. PICK g \in [1..Cardinality(I) -> I] :
               /\ Kept(s, I) = [k \in 1..Cardinality(I) |-> s[g[k]]]
               /\ Cardinality(I) \in Nat /\ Cardinality(I) <= Len(s)
               /\ \A k, m \in 1..Cardinality(I) : g[k] = g[m] => k = m
               /\ \A i \in I : \E k \in 1..Cardinality(I) : g[k] = i
  <2>1. Len(s) \in Nat /\ DOMAIN s = 1..Len(s) /\ I \in SUBSET DOMAIN s  BY <1>1
  <2>2. KeptFrom(s, I)  BY <2>1, KeptPlaces
  <2> QED  BY <2>2 DEF KeptFrom
<1> DEFINE n == Cardinality(I)
           f == Kept(s, I)
<1>2. /\ g \in [1..n -> I] /\ f = [k \in 1..n |-> s[g[k]]]
      /\ n \in Nat /\ n <= Len(s)
      /\ \A k, m \in 1..n : g[k] = g[m] => k = m
  BY <1>0
<1> HIDE DEF n, f
<1>3. \A k \in 1..n : f[k] = s[g[k]] /\ g[k] \in I /\ g[k] \in 1..Len(s)  BY <1>1, <1>2
<1>4. f \in Seq(PlanRow) /\ Len(f) = n  BY <1>1, <1>2, <1>3, FunctionIsSeq
<1>5. \A k, m \in 1..n : f[k].skill = f[m].skill => k = m
  BY <1>2, <1>3, SMTT(30) DEF IsRows
<1>6. IsRows(f)  BY <1>4, <1>5 DEF IsRows
<1> QED  BY <1>3, <1>4, <1>6 DEF f

\* Two answers with no skill in common, one after the other.
LEMMA JoinedRows ==
    ASSUME NEW s, IsRows(s), NEW u, IsRows(u),
           \A i \in 1..Len(s), j \in 1..Len(u) : s[i].skill # u[j].skill
    PROVE  /\ IsRows(s \o u) /\ Len(s \o u) = Len(s) + Len(u)
           /\ \A i \in 1..Len(s) : (s \o u)[i] = s[i]
           /\ \A j \in 1..Len(u) : (s \o u)[Len(s) + j] = u[j]
<1> DEFINE f == s \o u
<1>1. s \in Seq(PlanRow) /\ u \in Seq(PlanRow) /\ Len(s) \in Nat /\ Len(u) \in Nat
  BY DEF IsRows
<1>2. /\ f \in Seq(PlanRow) /\ Len(f) = Len(s) + Len(u)
      /\ \A i \in 1..Len(s) : f[i] = s[i]
      /\ \A j \in 1..Len(u) : f[Len(s) + j] = u[j]
  <2>1. f \in Seq(PlanRow) /\ Len(f) = Len(s) + Len(u)  BY <1>1
  <2>2. \A i \in 1..(Len(s) + Len(u)) : f[i] = IF i <= Len(s) THEN s[i] ELSE u[i - Len(s)]
    BY <1>1
  <2> HIDE DEF f
  <2>3. \A i \in 1..Len(s) : f[i] = s[i]  BY <1>1, <2>2
  <2>4. ASSUME NEW j \in 1..Len(u) PROVE f[Len(s) + j] = u[j]
    <3>1. Len(s) + j \in 1..(Len(s) + Len(u)) /\ ~(Len(s) + j <= Len(s))
          /\ (Len(s) + j) - Len(s) = j
      BY <1>1
    <3> QED  BY <3>1, <2>2
  <2> QED  BY <2>1, <2>3, <2>4
<1> HIDE DEF f
<1>3. \A i \in 1..Len(f) : i \in 1..Len(s) \/ (i - Len(s) \in 1..Len(u) /\ f[i] = u[i - Len(s)])
  <2> SUFFICES ASSUME NEW i \in 1..Len(f), i \notin 1..Len(s)
               PROVE  i - Len(s) \in 1..Len(u) /\ f[i] = u[i - Len(s)]
    OBVIOUS
  <2>1. i - Len(s) \in 1..Len(u) /\ Len(s) + (i - Len(s)) = i  BY <1>1, <1>2
  <2> QED  BY <1>2, <2>1
<1>4. ASSUME NEW i \in 1..Len(f), NEW j \in 1..Len(f), f[i].skill = f[j].skill PROVE i = j
  <2>1. CASE i \in 1..Len(s) /\ j \in 1..Len(s)  BY <2>1, <1>2, <1>4 DEF IsRows
  <2>2. CASE i \in 1..Len(s) /\ j \notin 1..Len(s)  BY <2>2, <1>2, <1>3, <1>4, ZenonT(30)
  <2>3. CASE i \notin 1..Len(s) /\ j \in 1..Len(s)  BY <2>3, <1>2, <1>3, <1>4
  <2>4. CASE i \notin 1..Len(s) /\ j \notin 1..Len(s)
    <3> DEFINE k == i - Len(s)  m == j - Len(s)
    <3>1. k \in 1..Len(u) /\ m \in 1..Len(u) /\ f[i] = u[k] /\ f[j] = u[m]  BY <2>4, <1>3
    <3>2. k = m
      <4> HIDE DEF k, m
      <4> QED  BY <3>1, <1>4 DEF IsRows
    <3>3. i \in Int /\ j \in Int  BY <1>2
    <3> QED  BY <3>2, <3>3, <1>1
  <2> QED  BY <2>1, <2>2, <2>3, <2>4
<1>5. IsRows(f)  BY <1>2, <1>4 DEF IsRows
<1> QED  BY <1>2, <1>5 DEF f

\* The selections by falling priority are the same selections.
LEMMA MostUrgentFirstIs ==
    ASSUME NEW sel, Len(sel) \in Nat, \A i \in 1..Len(sel) : sel[i].priority \in Int
    PROVE  \E p \in [1..Len(sel) -> 1..Len(sel)] :
               /\ MostUrgentFirst(sel) = [k \in 1..Len(sel) |-> sel[p[k]]]
               /\ \A k, m \in 1..Len(sel) : p[k] = p[m] => k = m
<1> DEFINE n == Len(sel)
           K == 1..n
           Urgency(i) == sel[i].priority
           Before(i) == {j \in K : \/ Urgency(j) > Urgency(i)
                                   \/ j <= i /\ ~(Urgency(i) > Urgency(j))}
           D == [i \in K |-> Before(i)]
           p == [k \in K |-> CHOOSE i \in K : Cardinality(Before(i)) = k]
<1>1. IsFiniteSet(K) /\ Cardinality(K) = n
  <2>1. IsFiniteSet(1..n) /\ Cardinality(1..n) = n
    <3> HIDE DEF K
    <3>1. n \in Nat  OBVIOUS
    <3> HIDE DEF n
    <3> QED  BY <3>1, FS_Interval, SMTT(30)
  <2> QED  BY <2>1
<1>2. MostUrgentFirst(sel) = [k \in K |-> sel[p[k]]]  BY DEF MostUrgentFirst, Ordered
<1>3. /\ D \in [K -> SUBSET K] /\ \A i \in K : i \in D[i]
      /\ \A i, j \in K : i # j => \/ D[i] \subseteq D[j] /\ j \notin D[i]
                                  \/ D[j] \subseteq D[i] /\ i \notin D[j]
  <2>1. \A i, j, k \in K : Urgency(i) \in Int /\ Urgency(j) \in Int /\ Urgency(k) \in Int
    OBVIOUS
  <2> HIDE DEF Urgency
  <2>2. D \in [K -> SUBSET K]  OBVIOUS
  <2>3. \A i \in K : i \in D[i]  BY <2>1
  <2>4. ASSUME NEW i \in K, NEW j \in K, i # j
        PROVE  \/ D[i] \subseteq D[j] /\ j \notin D[i]
               \/ D[j] \subseteq D[i] /\ i \notin D[j]
    <3>1. CASE Urgency(i) > Urgency(j) \/ (Urgency(i) = Urgency(j) /\ i < j)  BY <2>1, <3>1
    <3>2. CASE Urgency(j) > Urgency(i) \/ (Urgency(i) = Urgency(j) /\ j < i)  BY <2>1, <3>2
    <3> QED  BY <2>1, <2>4, <3>1, <3>2
  <2> QED  BY <2>2, <2>3, <2>4
<1>4. \A i \in K : D[i] = Before(i)  OBVIOUS
<1> HIDE DEF D, Before
<1>5. \A k \in K : \E i \in K : Cardinality(D[i]) = k
  <2> HIDE DEF K
  <2>1. \A k \in 1..Cardinality(K) : \E i \in K : Cardinality(D[i]) = k
    BY <1>1, <1>3, Ranked
  <2>2. 1..Cardinality(K) = K  BY <1>1 DEF K
  <2> QED  BY <2>1, <2>2
<1> HIDE DEF K
<1>6. \A k \in K : p[k] \in K /\ Cardinality(D[p[k]]) = k
  <2> SUFFICES ASSUME NEW k \in K PROVE p[k] \in K /\ Cardinality(D[p[k]]) = k  OBVIOUS
  <2>1. \E i \in K : Cardinality(Before(i)) = k  BY <1>4, <1>5
  <2>2. p[k] \in K /\ Cardinality(Before(p[k])) = k  BY <2>1
  <2> QED  BY <2>2, <1>4
<1>7. p \in [K -> K]
  <2>1. p = [k \in K |-> CHOOSE i \in K : Cardinality(Before(i)) = k]  OBVIOUS
  <2>2. \A k \in K : p[k] \in K  BY <1>6
  <2> QED  BY <2>1, <2>2
<1> HIDE DEF p
<1>8. \A k, m \in K : p[k] = p[m] => k = m  BY <1>6
<1> QED  BY <1>2, <1>7, <1>8 DEF K

\* A selection, and a plan of at most max of them, which has no skill twice
\* and takes from the unlocked skills what is new to it or was never attempted.
Selection == [row : PlanRow, priority : Int, review : BOOLEAN]

IsPlan(plan, max, unlocked) ==
    /\ plan \in Seq(Selection) /\ Len(plan) <= max
    /\ \A i, j \in 1..Len(plan) : plan[i].row.skill = plan[j].row.skill => i = j
    /\ \A i \in 1..Len(plan) :
           ~plan[i].review \/ plan[i].row.attempts = 0 => plan[i].row.skill \in unlocked

\* The selections in order, cut at the maximum, are a plan if they are none but
\* for their number.
LEMMA CutIs ==
    ASSUME NEW sel, NEW unlocked, NEW max \in Nat, NEW m \in Nat, IsPlan(sel, m, unlocked)
    PROVE  IsPlan(Prefix(MostUrgentFirst(sel), max), max, unlocked)
<1>1. /\ sel \in Seq(Selection) /\ Len(sel) \in Nat
      /\ \A i \in 1..Len(sel) : sel[i] \in Selection /\ sel[i].priority \in Int
  <2>1. sel \in Seq(Selection)  BY DEF IsPlan
  <2>2. \A i \in 1..Len(sel) : sel[i] \in Selection  BY <2>1
  <2>3. \A i \in 1..Len(sel) : sel[i].priority \in Int  BY <2>2 DEF Selection
  <2> QED  BY <2>1, <2>2, <2>3
<1>2. PICK p \in [1..Len(sel) -> 1..Len(sel)] :
               /\ MostUrgentFirst(sel) = [k \in 1..Len(sel) |-> sel[p[k]]]
               /\ \A k, l \in 1..Len(sel) : p[k] = p[l] => k = l
  BY <1>1, MostUrgentFirstIs
<1> DEFINE n == Len(sel)
           f == MostUrgentFirst(sel)
           u == Prefix(f, max)
<1>3. /\ n \in Nat /\ p \in [1..n -> 1..n] /\ f = [k \in 1..n |-> sel[p[k]]]
      /\ \A k, l \in 1..n : p[k] = p[l] => k = l
  BY <1>1, <1>2
<1> HIDE DEF f
<1>4. \A k \in 1..n : f[k] = sel[p[k]] /\ p[k] \in 1..n  BY <1>3
<1>5. f \in Seq(Selection) /\ Len(f) = n
  <2>1. f \in [1..n -> Selection]  BY <1>1, <1>3, <1>4
  <2> HIDE DEF n
  <2> QED  BY <1>3, <2>1
<1>6. /\ u \in Seq(Selection) /\ Len(u) <= max /\ Len(u) <= n
      /\ \A i \in 1..Len(u) : u[i] = f[i]
  BY <1>5, PrefixIs
<1> HIDE DEF u
<1>7. \A i \in 1..Len(u) : i \in 1..n /\ p[i] \in 1..n /\ u[i] = sel[p[i]]
  <2>1. Len(u) \in Nat  BY <1>6
  <2>2. \A i \in 1..Len(u) : i \in 1..n  BY <1>3, <1>6, <2>1
  <2> QED  BY <1>4, <1>6, <2>2
<1>8. ASSUME NEW i \in 1..Len(u), NEW j \in 1..Len(u), u[i].row.skill = u[j].row.skill
      PROVE  i = j
  <2>1. \A k, l \in 1..n : sel[k].row.skill = sel[l].row.skill => k = l  BY DEF IsPlan
  <2> HIDE DEF n
  <2> DEFINE k == p[i]  l == p[j]
  <2>2. k \in 1..n /\ l \in 1..n /\ u[i] = sel[k] /\ u[j] = sel[l]  BY <1>7
  <2>3. k = l
    <3> HIDE DEF k, l
    <3> QED  BY <1>8, <2>1, <2>2
  <2> QED  BY <1>3, <1>7, <2>3
<1>9. \A i \in 1..Len(u) :
          ~u[i].review \/ u[i].row.attempts = 0 => u[i].row.skill \in unlocked
  <2>1. \A k \in 1..n :
            ~sel[k].review \/ sel[k].row.attempts = 0 => sel[k].row.skill \in unlocked
    BY DEF IsPlan
  <2> HIDE DEF n
  <2> QED  BY <1>7, <2>1
<1>10. IsPlan(u, max, unlocked)  BY <1>6, <1>8, <1>9 DEF IsPlan
<1> QED  BY <1>10 DEF u, f

\* Six in ten of the items, rounded up, are not more than the items.
LEMMA ReviewCountIs ==
    ASSUME NEW max \in Nat
    PROVE  ReviewCount(max) \in Nat /\ max - ReviewCount(max) \in Nat
<1>1. (6 * max + 9) \div 10 \in Nat /\ max - (6 * max + 9) \div 10 \in Nat  OBVIOUS
<1> QED  BY <1>1 DEF ReviewCount

\* The planner takes a skill from one of the three queries and from no second,
\* the reviews from the unlocked or attempted, the others from the unlocked.
LEMMA SelectIs ==
    ASSUME NEW due, IsRows(due), NEW weak, IsRows(weak), NEW all, IsRows(all),
           NEW max \in Nat, NEW unlocked
    PROVE  IsPlan(SelectSkills(due, weak, all, max, unlocked), max, unlocked)
<1> DEFINE offered  == Kept(due, Reviewable(due, unlocked))
           reviews  == Prefix(offered, ReviewCount(max))
           Taken(s) == {s[i].skill : i \in DOMAIN s}
           weakLeft == {i \in DOMAIN weak : weak[i].skill \in unlocked \ Taken(reviews)}
           poor     == Kept(weak, weakLeft)
           more     == Prefix(poor, ReviewCount(max) - Len(reviews))
           filled   == reviews \o more
           allLeft  == {i \in DOMAIN all : /\ all[i].skill \in unlocked \ Taken(filled)
                                           /\ all[i].status = "new" \/ all[i].attempts < 3}
           unseen   == Kept(all, allLeft)
           fresh    == Prefix(unseen, max - ReviewCount(max))
           First    == [i \in DOMAIN reviews |->
                           Review(reviews[i], DuePriority(reviews[i], unlocked))]
           Second   == [i \in 1..(Len(filled) - Len(reviews)) |->
                           LET r == filled[i + Len(reviews)] IN Review(r, 7000 - 3 * r.conf)]
           Third    == [i \in DOMAIN fresh |->
                           [row |-> fresh[i], priority |-> 5000, review |-> FALSE]]
           chosen   == First \o Second \o Third
<1>1. SelectSkills(due, weak, all, max, unlocked) = Prefix(MostUrgentFirst(chosen), max)
  BY DEF SelectSkills
<1>2. ReviewCount(max) \in Nat /\ max - ReviewCount(max) \in Nat  BY ReviewCountIs
\* The reviews.
<1>3. /\ IsRows(offered)
      /\ \A k \in 1..Len(offered) : offered[k].attempts = 0 => offered[k].skill \in unlocked
  <2>1. Reviewable(due, unlocked) \in SUBSET DOMAIN due  BY DEF Reviewable
  <2>2. \A i \in Reviewable(due, unlocked) : due[i].attempts = 0 => due[i].skill \in unlocked
    BY DEF Reviewable
  <2> HIDE DEF offered
  <2>3. /\ IsRows(offered)
        /\ \A k \in 1..Len(offered) : \E i \in Reviewable(due, unlocked) : offered[k] = due[i]
    BY <2>1, KeptRows DEF offered
  <2> QED  BY <2>2, <2>3
<1> HIDE DEF offered
<1>4. /\ IsRows(reviews) /\ Len(reviews) \in Nat /\ Len(reviews) <= ReviewCount(max)
      /\ DOMAIN reviews = 1..Len(reviews)
      /\ \A k \in 1..Len(reviews) : reviews[k].attempts = 0 => reviews[k].skill \in unlocked
  <2>1. offered \in Seq(PlanRow) /\ Len(offered) \in Nat  BY <1>3 DEF IsRows
  <2>2. /\ Len(reviews) <= ReviewCount(max) /\ Len(reviews) <= Len(offered)
        /\ \A i \in 1..Len(reviews) : reviews[i] = offered[i]
    BY <1>2, <2>1, PrefixIs
  <2>3. IsRows(reviews)  BY <1>2, <1>3, PrefixRows
  <2> HIDE DEF reviews
  <2>4. Len(reviews) \in Nat /\ DOMAIN reviews = 1..Len(reviews)  BY <2>3 DEF IsRows
  <2>5. \A i \in 1..Len(reviews) : i \in 1..Len(offered)  BY <2>1, <2>2, <2>4
  <2> QED  BY <1>3, <2>2, <2>3, <2>4, <2>5
<1> HIDE DEF reviews
\* The weak ones.
<1>5. /\ IsRows(poor)
      /\ \A k \in 1..Len(poor) : poor[k].skill \in unlocked \ Taken(reviews)
  <2>1. weakLeft \in SUBSET DOMAIN weak  OBVIOUS
  <2>2. \A i \in weakLeft : weak[i].skill \in unlocked \ Taken(reviews)  OBVIOUS
  <2> HIDE DEF weakLeft, Taken
  <2>3. /\ IsRows(poor) /\ \A k \in 1..Len(poor) : \E i \in weakLeft : poor[k] = weak[i]
    BY <2>1, KeptRows
  <2> HIDE DEF poor
  <2> QED  BY <2>2, <2>3
<1> HIDE DEF poor
<1>6. /\ IsRows(more) /\ Len(more) \in Nat /\ Len(more) <= ReviewCount(max) - Len(reviews)
      /\ \A k \in 1..Len(more) : more[k].skill \in unlocked \ Taken(reviews)
  <2> DEFINE left == ReviewCount(max) - Len(reviews)
  <2>0. left \in Nat  BY <1>2, <1>4
  <2>1. poor \in Seq(PlanRow) /\ Len(poor) \in Nat  BY <1>5 DEF IsRows
  <2> HIDE DEF left, Taken
  <2> DEFINE q == Prefix(poor, left)
  <2>2. /\ Len(q) <= left /\ Len(q) <= Len(poor)
        /\ \A i \in 1..Len(q) : q[i] = poor[i]
    BY <2>0, <2>1, PrefixIs
  <2>3. IsRows(q)  BY <2>0, <1>5, PrefixRows
  <2> HIDE DEF q
  <2>4. Len(q) \in Nat  BY <2>3 DEF IsRows
  <2>5. \A i \in 1..Len(q) : i \in 1..Len(poor)  BY <2>1, <2>2, <2>4
  <2>6. \A k \in 1..Len(q) : q[k].skill \in unlocked \ Taken(reviews)
    BY <1>5, <2>2, <2>5
  <2> QED  BY <2>2, <2>3, <2>4, <2>6 DEF q, left
<1> HIDE DEF more
<1>7. /\ IsRows(filled) /\ Len(filled) = Len(reviews) + Len(more)
      /\ \A i \in 1..Len(reviews) : filled[i] = reviews[i]
      /\ \A j \in 1..Len(more) : filled[Len(reviews) + j] = more[j]
  <2>1. \A i \in 1..Len(reviews), j \in 1..Len(more) : reviews[i].skill # more[j].skill
    BY <1>4, <1>6
  <2> QED  BY <1>4, <1>6, <2>1, JoinedRows
<1> HIDE DEF filled
<1>8. /\ Len(filled) \in Nat /\ Len(filled) <= ReviewCount(max)
      /\ DOMAIN filled = 1..Len(filled)
      /\ \A k \in 1..Len(filled) : filled[k].attempts = 0 => filled[k].skill \in unlocked
  <2>1. Len(filled) \in Nat /\ DOMAIN filled = 1..Len(filled)  BY <1>7 DEF IsRows
  <2>2. ASSUME NEW k \in 1..Len(filled), filled[k].attempts = 0
        PROVE  filled[k].skill \in unlocked
    <3>1. CASE k <= Len(reviews)
      <4>1. k \in 1..Len(reviews)  BY <1>4, <2>1, <3>1
      <4> QED  BY <1>4, <1>7, <2>2, <4>1
    <3>2. CASE k > Len(reviews)
      <4> DEFINE j == k - Len(reviews)
      <4>1. j \in 1..Len(more) /\ Len(reviews) + j = k  BY <1>4, <1>6, <1>7, <2>1, <3>2
      <4> HIDE DEF j
      <4>2. filled[k] = more[j]  BY <1>7, <4>1
      <4> QED  BY <1>6, <4>1, <4>2
    <3> QED  BY <1>4, <2>1, <3>1, <3>2
  <2>3. Len(filled) <= ReviewCount(max)  BY <1>2, <1>4, <1>6, <1>7
  <2> QED  BY <2>1, <2>2, <2>3
\* The new ones.
<1>9. /\ IsRows(unseen)
      /\ \A k \in 1..Len(unseen) : unseen[k].skill \in unlocked \ Taken(filled)
  <2>1. allLeft \in SUBSET DOMAIN all  OBVIOUS
  <2>2. \A i \in allLeft : all[i].skill \in unlocked \ Taken(filled)  OBVIOUS
  <2> HIDE DEF allLeft, Taken
  <2>3. /\ IsRows(unseen) /\ \A k \in 1..Len(unseen) : \E i \in allLeft : unseen[k] = all[i]
    BY <2>1, KeptRows
  <2> HIDE DEF unseen
  <2> QED  BY <2>2, <2>3
<1> HIDE DEF unseen
<1>10. /\ IsRows(fresh) /\ Len(fresh) \in Nat /\ Len(fresh) <= max - ReviewCount(max)
       /\ DOMAIN fresh = 1..Len(fresh)
       /\ \A k \in 1..Len(fresh) : fresh[k].skill \in unlocked \ Taken(filled)
  <2> DEFINE left == max - ReviewCount(max)
  <2>0. left \in Nat  BY <1>2
  <2>1. unseen \in Seq(PlanRow) /\ Len(unseen) \in Nat  BY <1>9 DEF IsRows
  <2> HIDE DEF left, Taken
  <2> DEFINE q == Prefix(unseen, left)
  <2>2. /\ Len(q) <= left /\ Len(q) <= Len(unseen)
        /\ \A i \in 1..Len(q) : q[i] = unseen[i]
    BY <2>0, <2>1, PrefixIs
  <2>3. IsRows(q)  BY <2>0, <1>9, PrefixRows
  <2> HIDE DEF q
  <2>4. Len(q) \in Nat /\ DOMAIN q = 1..Len(q)  BY <2>3 DEF IsRows
  <2>5. \A i \in 1..Len(q) : i \in 1..Len(unseen)  BY <2>1, <2>2, <2>4
  <2>6. \A k \in 1..Len(q) : q[k].skill \in unlocked \ Taken(filled)
    BY <1>9, <2>2, <2>5
  <2> QED  BY <2>2, <2>3, <2>4, <2>6 DEF q, left
<1> HIDE DEF fresh
<1>11. /\ \A k \in 1..Len(filled) : filled[k].skill \in Taken(filled)
       /\ \A k \in 1..Len(fresh) : fresh[k].skill \notin Taken(filled)
  BY <1>8, <1>10
<1> HIDE DEF Taken
\* All of them.
<1>12. /\ chosen \in Seq(Selection) /\ Len(chosen) = Len(filled) + Len(fresh)
       /\ \A i \in 1..Len(chosen) :
             /\ chosen[i].row = IF i <= Len(filled) THEN filled[i] ELSE fresh[i - Len(filled)]
             /\ i <= Len(filled) => chosen[i].review
  <2>1. /\ \A i \in 1..Len(filled) : filled[i] \in PlanRow
        /\ \A i \in 1..Len(fresh) : fresh[i] \in PlanRow
        /\ \A i \in 1..Len(reviews) : reviews[i] \in PlanRow
    BY <1>4, <1>7, <1>10 DEF IsRows
  <2>2. First \in Seq(Selection) /\ Len(First) = Len(reviews)
        /\ \A i \in 1..Len(reviews) : First[i].row = reviews[i] /\ First[i].review
    <3>1. \A r \in PlanRow : DuePriority(r, unlocked) \in Int  BY DEF PlanRow, DuePriority
    <3>2. \A i \in 1..Len(reviews) :
              First[i] \in Selection /\ First[i].row = reviews[i] /\ First[i].review
      BY <1>4, <2>1, <3>1 DEF Selection, Review
    <3>3. First = [i \in 1..Len(reviews) |-> First[i]]  BY <1>4
    <3> HIDE DEF First
    <3> QED  BY <1>4, <3>2, <3>3, FunctionIsSeq
  <2> HIDE DEF First
  <2> DEFINE m == Len(filled) - Len(reviews)
  <2>3. Second \in Seq(Selection) /\ Len(Second) = m
        /\ \A i \in 1..m : Second[i].row = filled[i + Len(reviews)] /\ Second[i].review
    <3>1. m \in Nat /\ \A i \in 1..m : i + Len(reviews) \in 1..Len(filled)
      BY <1>4, <1>6, <1>7, <1>8
    <3>2. \A r \in PlanRow : 7000 - 3 * r.conf \in Int  BY DEF PlanRow
    <3>3. Second = [i \in 1..m |-> Second[i]]  OBVIOUS
    <3>4. \A i \in 1..m : Second[i] = Review(filled[i + Len(reviews)],
                                             7000 - 3 * filled[i + Len(reviews)].conf)
      OBVIOUS
    <3> HIDE DEF Second, m
    <3>5. ASSUME NEW i \in 1..m
          PROVE  /\ Second[i] \in Selection /\ Second[i].row = filled[i + Len(reviews)]
                 /\ Second[i].review
      <4> DEFINE r == filled[i + Len(reviews)]  urgency == 7000 - 3 * r.conf
      <4>1. r \in PlanRow  BY <2>1, <3>1
      <4>2. Second[i] = Review(r, urgency) /\ urgency \in Int  BY <3>2, <3>4, <4>1
      <4> HIDE DEF r, urgency
      <4>3. Second[i] \in Selection /\ Second[i].row = r /\ Second[i].review
        BY <4>1, <4>2 DEF Selection, Review
      <4> QED  BY <4>3 DEF r
    <3> QED  BY <3>1, <3>3, <3>5, FunctionIsSeq
  <2> HIDE DEF Second
  <2>4. Third \in Seq(Selection) /\ Len(Third) = Len(fresh)
        /\ \A i \in 1..Len(fresh) : Third[i].row = fresh[i]
    <3>1. \A i \in 1..Len(fresh) : Third[i] \in Selection /\ Third[i].row = fresh[i]
      BY <1>10, <2>1 DEF Selection
    <3>2. Third = [i \in 1..Len(fresh) |-> Third[i]]  BY <1>10
    <3> HIDE DEF Third
    <3> QED  BY <1>10, <3>1, <3>2, FunctionIsSeq
  <2> HIDE DEF Third
  <2>5. m \in Nat /\ Len(filled) = Len(reviews) + m  BY <1>4, <1>6, <1>7, <1>8
  <2> HIDE DEF m
  <2> DEFINE both == First \o Second
  <2>6. both \in Seq(Selection) /\ Len(both) = Len(reviews) + m
        /\ \A i \in 1..(Len(reviews) + m) :
              both[i] = IF i <= Len(reviews) THEN First[i] ELSE Second[i - Len(reviews)]
    <3>1. /\ both \in Seq(Selection) /\ Len(both) = Len(First) + Len(Second)
          /\ \A i \in 1..(Len(First) + Len(Second)) :
                both[i] = IF i <= Len(First) THEN First[i] ELSE Second[i - Len(First)]
      <4>1. First \in Seq(Selection) /\ Second \in Seq(Selection)  BY <2>2, <2>3
      <4> QED  BY <4>1, JoinIs
    <3> HIDE DEF both
    <3> QED  BY <2>2, <2>3, <3>1
  <2>7. \A i \in 1..Len(filled) : both[i].row = filled[i] /\ both[i].review
    <3> SUFFICES ASSUME NEW i \in 1..Len(filled)
                 PROVE  both[i].row = filled[i] /\ both[i].review
      OBVIOUS
    <3> HIDE DEF both
    <3>1. CASE i <= Len(reviews)
      <4>1. i \in 1..Len(reviews)  BY <1>4, <1>8, <3>1
      <4>2. both[i] = First[i]  BY <2>5, <2>6, <3>1
      <4> QED  BY <1>7, <2>2, <4>1, <4>2
    <3>2. CASE ~(i <= Len(reviews))
      <4> DEFINE j == i - Len(reviews)
      <4>1. j \in 1..m /\ j + Len(reviews) = i  BY <1>4, <1>8, <2>5, <3>2
      <4>2. both[i] = Second[j]  BY <2>5, <2>6, <3>2
      <4> HIDE DEF j
      <4> QED  BY <2>3, <4>1, <4>2
    <3> QED  BY <3>1, <3>2
  <2>8. Len(both) = Len(filled)  BY <2>5, <2>6
  <2> HIDE DEF both
  <2> DEFINE c == both \o Third
  <2>9. c \in Seq(Selection) /\ Len(c) = Len(filled) + Len(fresh)
        /\ \A i \in 1..(Len(filled) + Len(fresh)) :
              c[i] = IF i <= Len(filled) THEN both[i] ELSE Third[i - Len(filled)]
    <3>1. /\ c \in Seq(Selection) /\ Len(c) = Len(both) + Len(Third)
          /\ \A i \in 1..(Len(both) + Len(Third)) :
                c[i] = IF i <= Len(both) THEN both[i] ELSE Third[i - Len(both)]
      BY <2>4, <2>6, JoinIs
    <3> HIDE DEF c
    <3> QED  BY <2>4, <2>8, <3>1
  <2>10. c = chosen  BY DEF both
  <2> HIDE DEF c, chosen
  <2>11. ASSUME NEW i \in 1..Len(c)
         PROVE  /\ c[i].row = IF i <= Len(filled) THEN filled[i] ELSE fresh[i - Len(filled)]
                /\ i <= Len(filled) => c[i].review
    <3>1. CASE i <= Len(filled)
      <4>1. i \in 1..Len(filled)  BY <1>8, <1>10, <2>9, <3>1
      <4> QED  BY <2>7, <2>9, <3>1, <4>1
    <3>2. CASE ~(i <= Len(filled))
      <4> DEFINE j == i - Len(filled)
      <4>1. j \in 1..Len(fresh)  BY <1>8, <1>10, <2>9, <3>2
      <4>2. c[i] = Third[j]  BY <2>9, <3>2
      <4> HIDE DEF j
      <4>3. c[i].row = fresh[j]  BY <2>4, <4>1, <4>2
      <4> QED  BY <3>2, <4>3 DEF j
    <3> QED  BY <3>1, <3>2
  <2> QED  BY <2>9, <2>10, <2>11
<1> HIDE DEF chosen
<1> DEFINE n == Len(filled)
<1>13. /\ n \in Nat /\ Len(chosen) = n + Len(fresh)
       /\ \A i \in 1..Len(chosen) :
             \/ i \in 1..n /\ chosen[i].row = filled[i] /\ chosen[i].review
             \/ i - n \in 1..Len(fresh) /\ chosen[i].row = fresh[i - n]
  <2>1. n \in Nat /\ Len(chosen) = n + Len(fresh)  BY <1>8, <1>12
  <2>2. ASSUME NEW i \in 1..Len(chosen)
        PROVE  \/ i \in 1..n /\ chosen[i].row = filled[i] /\ chosen[i].review
               \/ i - n \in 1..Len(fresh) /\ chosen[i].row = fresh[i - n]
    <3>1. i \in 1..n \/ (i - n \in 1..Len(fresh) /\ ~(i <= n))  BY <1>10, <2>1
    <3>2. CASE i \in 1..n  BY <1>12, <2>1, <3>2
    <3>3. CASE i - n \in 1..Len(fresh) /\ ~(i <= n)  BY <1>12, <3>3
    <3> QED  BY <3>1, <3>2, <3>3
  <2> QED  BY <2>1, <2>2
<1>14. ASSUME NEW i \in 1..Len(chosen), NEW j \in 1..Len(chosen),
              chosen[i].row.skill = chosen[j].row.skill
       PROVE  i = j
  <2>1. /\ \A k, m \in 1..n : filled[k].skill = filled[m].skill => k = m
        /\ \A k, m \in 1..Len(fresh) : fresh[k].skill = fresh[m].skill => k = m
        /\ \A k \in 1..n, m \in 1..Len(fresh) : filled[k].skill # fresh[m].skill
    BY <1>7, <1>10, <1>11 DEF IsRows
  <2>2. n \in Nat /\ i \in Int /\ j \in Int  BY <1>10, <1>13
  <2> HIDE DEF n
  <2> DEFINE k == i - n  m == j - n
  <2>3. \/ i \in 1..n /\ chosen[i].row = filled[i]
        \/ k \in 1..Len(fresh) /\ chosen[i].row = fresh[k]
    BY <1>13
  <2>4. \/ j \in 1..n /\ chosen[j].row = filled[j]
        \/ m \in 1..Len(fresh) /\ chosen[j].row = fresh[m]
    BY <1>13
  <2>5. k = m => i = j  BY <2>2
  <2> HIDE DEF k, m
  <2> QED  BY <1>14, <2>1, <2>3, <2>4, <2>5
<1>15. \A i \in 1..Len(chosen) :
           ~chosen[i].review \/ chosen[i].row.attempts = 0 => chosen[i].row.skill \in unlocked
  <2>1. /\ \A k \in 1..n : filled[k].attempts = 0 => filled[k].skill \in unlocked
        /\ \A k \in 1..Len(fresh) : fresh[k].skill \in unlocked
    BY <1>8, <1>10
  <2> HIDE DEF n
  <2> SUFFICES ASSUME NEW i \in 1..Len(chosen),
                      ~chosen[i].review \/ chosen[i].row.attempts = 0
               PROVE  chosen[i].row.skill \in unlocked
    OBVIOUS
  <2> DEFINE k == i - n
  <2>2. \/ i \in 1..n /\ chosen[i].row = filled[i] /\ chosen[i].review
        \/ k \in 1..Len(fresh) /\ chosen[i].row = fresh[k]
    BY <1>13
  <2> HIDE DEF k
  <2> QED  BY <2>1, <2>2
<1> DEFINE most == n + Len(fresh)
<1>16. IsPlan(chosen, most, unlocked) /\ most \in Nat
  <2>1. most \in Nat /\ Len(chosen) <= most  BY <1>10, <1>13
  <2> HIDE DEF most, n
  <2> QED  BY <1>12, <1>14, <1>15, <2>1 DEF IsPlan
<1> HIDE DEF most
<1>17. IsPlan(Prefix(MostUrgentFirst(chosen), max), max, unlocked)  BY <1>16, CutIs
<1> QED  BY <1>1, <1>17 DEF chosen

\* The sequences for one selection more than those of H are for.
Longer(H, m, plan, content, used) ==
    UNION {Extended(items, m, plan, content, used) : items \in H}

\* Built obeys its recursion.
LEMMA BuiltRec ==
    ASSUME NEW plan, NEW content, NEW used, Len(plan) \in Nat
    PROVE  /\ Built(plan, content, used)[0] = {<< >>}
           /\ \A i \in 1..Len(plan) :
                  Built(plan, content, used)[i]
                      = Longer(Built(plan, content, used)[i - 1], i, plan, content, used)
<1> DEFINE n == Len(plan)
           none == {<< >>}
           P(h, m) == h = [i \in 0..m |->
                              IF i = 0 THEN none
                              ELSE Longer(h[i - 1], i, plan, content, used)]
           S == {m \in Nat : \E h : P(h, m)}
<1> HIDE DEF none
<1>1. 0 \in S
  <2>1. P([i \in 0..0 |-> none], 0)  OBVIOUS
  <2> QED  BY <2>1
<1>2. \A m \in Nat : m \in S => m + 1 \in S
  <2> SUFFICES ASSUME NEW m \in Nat, m \in S PROVE m + 1 \in S  OBVIOUS
  <2>1. PICK h : P(h, m)  OBVIOUS
  <2> DEFINE g == [i \in 0..(m + 1) |->
                      IF i = m + 1 THEN Longer(h[m], m + 1, plan, content, used)
                      ELSE h[i]]
  <2>2. P(g, m + 1)  BY <2>1
  <2> HIDE DEF P
  <2> QED  BY <2>2
<1>3. n \in S
  <2> HIDE DEF S
  <2> QED  BY <1>1, <1>2, SetInduction
<1>4. P(Built(plan, content, used), n)
  <2>1. PICK h : P(h, n)  BY <1>3
  <2> QED  BY <2>1 DEF Built, Longer, none
<1>5. /\ Built(plan, content, used)[0] = none
      /\ \A i \in 1..n : Built(plan, content, used)[i]
                           = Longer(Built(plan, content, used)[i - 1], i, plan, content, used)
  BY <1>4
<1> QED  BY <1>5 DEF none

\* What the items before the k-th have used, and items for the first n
\* selections, none stale while there is something better.
StaleAt(items, k, used) == used \cup {items[j].content.id : j \in 1..(k - 1)}

FitAt(items, k, plan, content, used) ==
    /\ items[k].skill = plan[k].row.skill
    /\ items[k].content.id \in StaleAt(items, k, used) =>
           ~\E c \in content : /\ c.id \notin StaleAt(items, k, used)
                               /\ Contains(c.skills, items[k].skill)

Fitting(items, n, plan, content, used) ==
    /\ items \in Seq(Range(items)) /\ Len(items) = n
    /\ \A k \in 1..n : FitAt(items, k, plan, content, used)

\* The content of an item is stale only when all that targets its skill is.
LEMMA MatchIs ==
    ASSUME NEW skill, NEW role, NEW content, NEW taken,
           NEW c \in MatchContent(skill, role, content, taken), c.id \in taken,
           NEW d \in content, Contains(d.skills, skill)
    PROVE  d.id \in taken
<1> DEFINE own   == {x \in content : Contains(x.skills, skill)}
           pool  == IF own = {} THEN content ELSE own
           fresh == {x \in pool : x.id \notin taken}
           from  == IF fresh = {} THEN pool ELSE fresh
<1>1. c \in from  BY DEF MatchContent
<1>2. d \in own /\ d \in pool  OBVIOUS
<1>3. fresh = {}  BY <1>1
<1> HIDE DEF own, pool
<1> QED  BY <1>2, <1>3

\* One more item.
LEMMA ExtendedIs ==
    ASSUME NEW plan, NEW content, NEW used, NEW m \in Nat,
           NEW items, Fitting(items, m, plan, content, used),
           NEW t \in Extended(items, m + 1, plan, content, used)
    PROVE  Fitting(t, m + 1, plan, content, used)
<1> DEFINE skill == plan[m + 1].row.skill
           role  == AssignRoles(Len(plan))[m + 1]
           taken == used \cup {items[k].content.id : k \in DOMAIN items}
<1>1. PICK c \in MatchContent(skill, role, content, taken) :
          t = Append(items, [content |-> c, skill |-> skill, role |-> role])
  BY DEF Extended
<1> DEFINE x == [content |-> c, skill |-> skill, role |-> role]
<1>2. items \in Seq(Range(items)) /\ Len(items) = m /\ DOMAIN items = 1..m  BY DEF Fitting
<1>3. x.content = c /\ x.skill = skill  OBVIOUS
<1>0. t = Append(items, x)  BY <1>1
<1> HIDE DEF x, role
<1>4. /\ Len(t) = m + 1 /\ DOMAIN t = 1..(m + 1) /\ t = [i \in 1..(m + 1) |-> t[i]]
      /\ t[m + 1] = x /\ \A i \in 1..m : t[i] = items[i]
  BY <1>0, <1>2, AppendIs
<1>5. t \in Seq(Range(t))
  <2>1. \A i \in 1..(m + 1) : t[i] \in Range(t)  BY <1>4 DEF Range
  <2> QED  BY <1>4, <2>1, FunctionIsSeq
<1>6. \A k \in 1..(m + 1) : StaleAt(t, k, used) = StaleAt(items, k, used)
  <2> SUFFICES ASSUME NEW k \in 1..(m + 1)
               PROVE  StaleAt(t, k, used) = StaleAt(items, k, used)
    OBVIOUS
  <2>1. \A j \in 1..(k - 1) : j \in 1..m  OBVIOUS
  <2>2. \A j \in 1..(k - 1) : t[j] = items[j]  BY <1>4, <2>1
  <2> QED  BY <2>2 DEF StaleAt
<1>7. taken = StaleAt(items, m + 1, used)
  <2>1. 1..((m + 1) - 1) = DOMAIN items  BY <1>2
  <2> QED  BY <2>1 DEF StaleAt
<1> HIDE DEF taken
<1>8. FitAt(t, m + 1, plan, content, used)
  <2>1. m + 1 \in 1..(m + 1)  OBVIOUS
  <2>2. StaleAt(t, m + 1, used) = taken  BY <1>6, <1>7, <2>1
  <2>3. t[m + 1].content = c /\ t[m + 1].skill = skill  BY <1>3, <1>4
  <2>4. c.id \in taken => \A d \in content : Contains(d.skills, skill) => d.id \in taken
    BY <1>1, MatchIs
  <2> QED  BY <2>2, <2>3, <2>4 DEF FitAt
<1>9. ASSUME NEW k \in 1..m PROVE FitAt(t, k, plan, content, used)
  <2>1. k \in 1..(m + 1)  OBVIOUS
  <2>2. StaleAt(t, k, used) = StaleAt(items, k, used)  BY <1>6, <2>1
  <2>3. FitAt(items, k, plan, content, used)  BY DEF Fitting
  <2> QED  BY <1>4, <2>2, <2>3 DEF FitAt
<1>10. \A k \in 1..(m + 1) : FitAt(t, k, plan, content, used)
  <2>1. \A k \in 1..(m + 1) : k = m + 1 \/ k \in 1..m  OBVIOUS
  <2> QED  BY <1>8, <1>9, <2>1
<1> QED  BY <1>4, <1>5, <1>10 DEF Fitting

\* What BuildSession may answer.
LEMMA BuildIs ==
    ASSUME NEW plan, NEW content, NEW used, Len(plan) \in Nat, content # {},
           NEW items \in BuildSession(plan, content, used)
    PROVE  Fitting(items, Len(plan), plan, content, used)
<1> DEFINE n == Len(plan)
           b == Built(plan, content, used)
           S == {m \in Nat : \A x \in b[m] : Fitting(x, m, plan, content, used)}
<1>1. /\ b[0] = {<< >>}
      /\ \A m \in 1..n : b[m] = UNION {Extended(x, m, plan, content, used) : x \in b[m - 1]}
  BY BuiltRec DEF Longer
<1>2. items \in b[n]  BY DEF BuildSession
<1> HIDE DEF b
<1>3. 0 \in S
  <2>1. Fitting(<< >>, 0, plan, content, used)  BY DEF Fitting, Range
  <2> QED  BY <1>1, <2>1
<1>4. ASSUME NEW m \in 1..n, m - 1 \in S PROVE m \in S
  <2> DEFINE l == m - 1
  <2>1. l \in Nat /\ m = l + 1  OBVIOUS
  <2>2. \A x \in b[l] : Fitting(x, l, plan, content, used)  BY <1>4
  <2>3. ASSUME NEW t \in b[m] PROVE Fitting(t, m, plan, content, used)
    <3>1. PICK x \in b[l] : t \in Extended(x, m, plan, content, used)  BY <1>1
    <3> HIDE DEF l
    <3>2. Fitting(t, l + 1, plan, content, used)  BY <2>1, <2>2, <3>1, ExtendedIs
    <3> QED  BY <2>1, <3>2
  <2> QED  BY <2>3
<1> HIDE DEF S
<1>5. n \in S
  <2>1. 0..n \subseteq S  BY <1>3, <1>4, BoundedInduction
  <2> QED  BY <2>1
<1> QED  BY <1>2, <1>5 DEF S

-----------------------------------------------------------------------------
(* The requests that plan                                                  *)

\* What a plan sees of a row.
LEMMA ReadIs ==
    ASSUME RowInv, NEW s \in DOMAIN rows
    PROVE  Read(s) \in PlanRow /\ Read(s).skill = s
<1>1. s \in Skills /\ rows[s] \in SkillRow  BY DEF RowInv, Sound
<1> DEFINE c == rows[s].conf  st == rows[s].status  n == rows[s].attempts
<1>2. c \in Int /\ st \in Statuses /\ n \in Nat  BY <1>1 DEF SkillRow
<1>3. Read(s) = [skill |-> s, conf |-> c, status |-> st, attempts |-> n]  BY DEF Read
<1> HIDE DEF c, st, n
<1> QED  BY <1>1, <1>2, <1>3 DEF PlanRow

\* Rows read in an order without repetition are an answer of a query.
LEMMA ReadsAre ==
    ASSUME RowInv, NEW n \in Nat, NEW o \in [1..n -> DOMAIN rows],
           \A i, j \in 1..n : o[i] = o[j] => i = j
    PROVE  IsRows([i \in 1..n |-> Read(o[i])])
<1> DEFINE f == [i \in 1..n |-> Read(o[i])]
<1>1. \A i \in 1..n : f[i] \in PlanRow /\ f[i].skill = o[i]  BY ReadIs
<1>2. f = [i \in 1..n |-> f[i]]  OBVIOUS
<1> HIDE DEF f
<1>3. f \in Seq(PlanRow) /\ Len(f) = n  BY <1>1, <1>2, FunctionIsSeq
<1>4. IsRows(f)  BY <1>1, <1>3 DEF IsRows
<1> QED  BY <1>4 DEF f

LEMMA QueryIs ==
    ASSUME RowInv, NEW set \in SUBSET DOMAIN rows, NEW o \in SetToSeqs(set)
    PROVE  IsRows([i \in DOMAIN o |-> Read(o[i])])
<1> DEFINE n == Cardinality(set)
<1>1. n \in Nat
  <2>1. set \subseteq Skills  BY DEF RowInv
  <2>2. IsFiniteSet(set)  BY <2>1, SkillsAssumption, FS_Subset
  <2> QED  BY <2>2, FS_CardinalityType
<1>2. o \in [1..n -> set] /\ \A i, j \in 1..n : i # j => o[i] # o[j]  BY DEF SetToSeqs
<1> HIDE DEF n
<1>3. DOMAIN o = 1..n /\ o \in [1..n -> DOMAIN rows]  BY <1>2
<1>4. IsRows([i \in 1..n |-> Read(o[i])])  BY <1>1, <1>2, <1>3, ReadsAre
<1> QED  BY <1>3, <1>4

\* The three queries.
LEMMA DueRows == ASSUME RowInv, NEW due \in GetDueForReview PROVE IsRows(due)
<1> DEFINE set == {s \in DOMAIN rows : rows[s].due}
<1>1. PICK o \in SetToSeqs(set) : due = Prefix([i \in DOMAIN o |-> Read(o[i])], MaxItems)
  BY DEF GetDueForReview, QueryOf
<1>2. set \in SUBSET DOMAIN rows  OBVIOUS
<1> HIDE DEF set
<1> QED  BY <1>1, <1>2, QueryIs, PrefixRows, SkillsAssumption

LEMMA WeakRows == ASSUME RowInv, NEW weak \in GetWeakest PROVE IsRows(weak)
<1> DEFINE set == {s \in DOMAIN rows : rows[s].status # "new"}
<1>1. PICK o \in SetToSeqs(set) : weak = Prefix([i \in DOMAIN o |-> Read(o[i])], MaxItems)
  BY DEF GetWeakest, QueryOf
<1>2. set \in SUBSET DOMAIN rows  OBVIOUS
<1> HIDE DEF set
<1> QED  BY <1>1, <1>2, QueryIs, PrefixRows, SkillsAssumption

LEMMA AllRows == ASSUME RowInv PROVE IsRows(GetLearnerSkills)
<1> DEFINE I == {i \in DOMAIN SkillOrder : SkillOrder[i] \in DOMAIN rows}
           o == Kept(SkillOrder, I)
<1>1. /\ Len(SkillOrder) \in Nat /\ DOMAIN SkillOrder = 1..Len(SkillOrder)
      /\ \A i, j \in DOMAIN SkillOrder : SkillOrder[i] = SkillOrder[j] => i = j
  BY SkillsAssumption
<1>2. I \in SUBSET DOMAIN SkillOrder /\ \A i \in I : SkillOrder[i] \in DOMAIN rows  OBVIOUS
<1> HIDE DEF I
<1>3. PICK g \in [1..Cardinality(I) -> I] :
               /\ Kept(SkillOrder, I) = [k \in 1..Cardinality(I) |-> SkillOrder[g[k]]]
               /\ Cardinality(I) \in Nat /\ Cardinality(I) <= Len(SkillOrder)
               /\ \A k, m \in 1..Cardinality(I) : g[k] = g[m] => k = m
               /\ \A i \in I : \E k \in 1..Cardinality(I) : g[k] = i
  <2>1. KeptFrom(SkillOrder, I)  BY <1>1, <1>2, KeptPlaces
  <2> QED  BY <2>1 DEF KeptFrom
<1> DEFINE n == Cardinality(I)
<1>4. n \in Nat /\ o = [k \in 1..n |-> SkillOrder[g[k]]]  BY <1>3
<1>5. /\ \A k \in 1..n : g[k] \in I
      /\ \A k, m \in 1..n : g[k] = g[m] => k = m
  BY <1>3
<1> HIDE DEF n, o
<1>6. o \in [1..n -> DOMAIN rows] /\ DOMAIN o = 1..n  BY <1>2, <1>4, <1>5
<1>7. \A k, m \in 1..n : o[k] = o[m] => k = m  BY <1>1, <1>2, <1>4, <1>5
<1>8. IsRows([k \in 1..n |-> Read(o[k])])  BY <1>4, <1>6, <1>7, ReadsAre
<1>9. GetLearnerSkills = [k \in DOMAIN o |-> Read(o[k])]  BY DEF GetLearnerSkills, o, I
<1> QED  BY <1>6, <1>8, <1>9

\* A finished plan is sound, for a learner who knew these skills.
SoundPlan(plan, content, used, items, knew) ==
    /\ IsPlan(plan, MaxItems, {s \in Skills : Prereqs[s] \subseteq knew})
    /\ IF content = {} THEN items = << >>
       ELSE Fitting(items, Len(plan), plan, content, used)

\* What a request holds of a plan in the making.
HeldPlan(r) ==
    /\ r.pc \in {"weak", "all", "again", "unlocked"} => IsRows(r.due)
    /\ r.pc \in {"all", "again", "unlocked"} => IsRows(r.weak)
    /\ r.pc = "unlocked" => IsRows(r.all)
    /\ r.pc = "planned" => SoundPlan(r.selections, r.content, r.used, r.items, r.knew)

PlanInv == \A p \in Requests : HeldPlan(req[p])

\* A request goes on, with what it then holds.
LEMMA GoKeepsPlans ==
    ASSUME Inv, PlanInv, NEW p \in Requests, NEW next, Go(p, next), HeldPlan(next)
    PROVE  PlanInv'
<1>1. DOMAIN req = Requests  BY DEF Inv, PendingInv
<1>2. req'[p] = next /\ \A q \in Requests \ {p} : req'[q] = req[q]  BY <1>1 DEF Go
<1> QED  BY <1>2 DEF PlanInv

\* A request that is not planning.
LEMMA OthersKeepPlans ==
    ASSUME Inv, PlanInv, NEW p \in Requests, NEW next, Go(p, next),
           next.pc \notin {"weak", "all", "again", "unlocked", "planned"}
    PROVE  PlanInv'
<1>1. HeldPlan(next)  BY DEF HeldPlan
<1> QED  BY <1>1, GoKeepsPlans

\* The plan and its items.
LEMMA UnlockedKeeps ==
    ASSUME Inv, PlanInv, NEW p \in Requests, PlanUnlocked(p)
    PROVE  PlanInv'
<1> DEFINE unlocked == GetUnlockedSkills
           plan == SelectSkills(req[p].due, req[p].weak, req[p].all, MaxItems, unlocked)
           content == AvailableContent(plan, req[p].level)
           next(used, items) == [pc |-> "planned", selections |-> plan, content |-> content,
                                 used |-> used, items |-> items, knew |-> Known]
<1>2. \/ Go(p, Idle)
      \/ \E used : \E items \in BuildSession(plan, content, used) : Go(p, next(used, items))
  BY DEF PlanUnlocked
<1>3. IsRows(req[p].due) /\ IsRows(req[p].weak) /\ IsRows(req[p].all)
  BY DEF PlanUnlocked, PlanInv, HeldPlan
<1>4. IsPlan(plan, MaxItems, unlocked)
  <2>1. MaxItems \in Nat  BY SkillsAssumption
  <2> HIDE DEF unlocked
  <2> QED  BY <1>3, <2>1, SelectIs
<1>5. unlocked \subseteq {s \in Skills : Prereqs[s] \subseteq Known}
  BY SkillsAssumption DEF GetUnlockedSkills, Known
<1> HIDE DEF plan, unlocked, content
<1>6. IsPlan(plan, MaxItems, {s \in Skills : Prereqs[s] \subseteq Known})
  BY <1>4, <1>5 DEF IsPlan
<1>7. CASE Go(p, Idle)
  BY <1>7, OthersKeepPlans DEF Idle
<1>8. ASSUME NEW used, NEW items \in BuildSession(plan, content, used),
             Go(p, next(used, items))
      PROVE  PlanInv'
  <2>1. Len(plan) \in Nat  BY <1>4 DEF IsPlan
  <2>2. content # {} => Fitting(items, Len(plan), plan, content, used)  BY <1>8, <2>1, BuildIs
  <2>3. content = {} => items = << >>  BY <1>8 DEF BuildSession
  <2>4. SoundPlan(plan, content, used, items, Known)
    BY <1>6, <2>2, <2>3 DEF SoundPlan
  <2>5. /\ next(used, items).pc = "planned" /\ next(used, items).selections = plan
        /\ next(used, items).content = content /\ next(used, items).used = used
        /\ next(used, items).items = items /\ next(used, items).knew = Known
    OBVIOUS
  <2> DEFINE held == next(used, items)
  <2> HIDE DEF next
  <2>6. HeldPlan(held)  BY <2>4, <2>5 DEF HeldPlan
  <2> HIDE DEF held
  <2>7. Go(p, held)  BY <1>8 DEF held
  <2> QED  BY <2>6, <2>7, GoKeepsPlans
<1> QED  BY <1>2, <1>7, <1>8

LEMMA PlanningStep ==
    ASSUME Inv, PlanInv, NEW p \in Requests,
           PlanRead(p) \/ PlanDue(p) \/ PlanWeak(p) \/ PlanAll(p) \/ PlanAgain(p)
               \/ PlanUnlocked(p) \/ PlanAnswer(p)
    PROVE  PlanInv'
<1> DEFINE with == WithAll(p)
<1>0. "pc" \in DOMAIN req[p] /\ RowInv  BY DEF Inv, PendingInv
<1>1. CASE PlanRead(p)
  <2> DEFINE next == [pc |-> "due", level |-> level]
  <2>1. next.pc = "due"  OBVIOUS
  <2>2. Go(p, next)  BY <1>1 DEF PlanRead
  <2> HIDE DEF next
  <2> QED  BY <2>1, <2>2, OthersKeepPlans
<1>2. CASE PlanWeak(p)
  <2>1. PICK weak \in GetWeakest :
            Go(p, [pc |-> "all", level |-> req[p].level, due |-> req[p].due, weak |-> weak])
    BY <1>2 DEF PlanWeak
  <2> DEFINE next == [pc |-> "all", level |-> req[p].level, due |-> req[p].due, weak |-> weak]
  <2>2. IsRows(req[p].due)  BY <1>2 DEF PlanWeak, PlanInv, HeldPlan
  <2>3. next.pc = "all" /\ next.due = req[p].due /\ next.weak = weak /\ IsRows(weak)
    BY <1>0, WeakRows
  <2> HIDE DEF next
  <2>4. HeldPlan(next)  BY <2>2, <2>3 DEF HeldPlan
  <2>5. Go(p, next)  BY <2>1 DEF next
  <2> QED  BY <2>4, <2>5, GoKeepsPlans
<1>3. ASSUME Go(p, with), req[p].pc \in {"all", "again"} PROVE PlanInv'
  <2>1. IsRows(req[p].due) /\ IsRows(req[p].weak)  BY <1>3 DEF PlanInv, HeldPlan
  <2>2. /\ with.pc = "unlocked" /\ with.due = req[p].due /\ with.weak = req[p].weak
        /\ with.all = GetLearnerSkills
    BY DEF WithAll
  <2>3. IsRows(GetLearnerSkills)  BY <1>0, AllRows
  <2> HIDE DEF with
  <2>4. HeldPlan(with)  BY <2>1, <2>2, <2>3 DEF HeldPlan
  <2> QED  BY <1>3, <2>4, GoKeepsPlans
<1>4. CASE PlanAll(p)
  <2> DEFINE next == [req[p] EXCEPT !.pc = "again"]
  <2>1. CASE rows = << >>
    <3>1. SeedOrFail(req[p].level) /\ Go(p, next) /\ req[p].pc = "all"
      BY <1>4, <2>1 DEF PlanAll
    <3>2. IsRows(req[p].due) /\ IsRows(req[p].weak)  BY <3>1 DEF PlanInv, HeldPlan
    <3>3. next.pc = "again" /\ next.due = req[p].due /\ next.weak = req[p].weak  BY <1>0
    <3> HIDE DEF next
    <3>4. HeldPlan(next)  BY <3>2, <3>3 DEF HeldPlan
    <3> QED  BY <3>1, <3>4, GoKeepsPlans
  <2>2. CASE rows # << >>  BY <1>3, <1>4, <2>2 DEF PlanAll
  <2> QED  BY <2>1, <2>2
<1>5. CASE PlanAgain(p)  BY <1>3, <1>5 DEF PlanAgain
<1>6. CASE PlanUnlocked(p)  BY <1>6, UnlockedKeeps
<1>7. CASE PlanAnswer(p)  BY <1>7, OthersKeepPlans DEF PlanAnswer, Idle
<1>8. CASE PlanDue(p)
  <2>1. PICK due \in GetDueForReview :
            Go(p, [pc |-> "weak", level |-> req[p].level, due |-> due])
    BY <1>8 DEF PlanDue
  <2> DEFINE next == [pc |-> "weak", level |-> req[p].level, due |-> due]
  <2>2. next.pc = "weak" /\ next.due = due /\ IsRows(due)  BY <1>0, DueRows
  <2> HIDE DEF next
  <2>3. HeldPlan(next)  BY <2>2 DEF HeldPlan
  <2>4. Go(p, next)  BY <2>1 DEF next
  <2> QED  BY <2>3, <2>4, GoKeepsPlans
<1> QED  BY <1>1, <1>2, <1>4, <1>5, <1>6, <1>7, <1>8

LEMMA PlacingStep ==
    ASSUME Inv, PlanInv, NEW p \in Requests,
           PlacementSubmit(p) \/ PlacementLevel(p) \/ PlacementSeed(p) \/ PlacementRead(p)
               \/ PlacementGrant(p)
    PROVE  PlanInv'
<1>0. "pc" \in DOMAIN req[p] /\ Idle.pc = "idle"  BY DEF Inv, PendingInv, Idle
<1>1. CASE PlacementSubmit(p)
  <2>1. PICK next : Go(p, next) /\ next.pc = "level"
    <3> DEFINE l == DeterminedLevel(test.results, test.stopped)
               known == [i \in DOMAIN SelectSeq(test.results, LAMBDA x : x.right) |->
                            SelectSeq(test.results, LAMBDA x : x.right)[i].skill]
               n == [pc |-> "level", level |-> l, known |-> known]
    <3>1. Go(p, n)  BY <1>1 DEF PlacementSubmit
    <3> HIDE DEF l, known
    <3>2. n.pc = "level"  OBVIOUS
    <3> HIDE DEF n
    <3> QED  BY <3>1, <3>2
  <2> QED  BY <2>1, OthersKeepPlans
<1>2. CASE PlacementLevel(p)
  <2> DEFINE next == [req[p] EXCEPT !.pc = "seed"]
  <2>1. Go(p, next)  BY <1>2 DEF PlacementLevel
  <2>2. next.pc = "seed"  BY <1>0
  <2> HIDE DEF next
  <2> QED  BY <2>1, <2>2, OthersKeepPlans
<1>3. CASE PlacementSeed(p)
  <2> DEFINE next == [req[p] EXCEPT !.pc = "grant"]
  <2>1. Go(p, next)  BY <1>3 DEF PlacementSeed
  <2>2. next.pc = "grant"  BY <1>0
  <2> HIDE DEF next
  <2> QED  BY <2>1, <2>2, OthersKeepPlans
<1>4. CASE PlacementRead(p)
  <2> DEFINE s == Head(req[p].known)
             rest == [req[p] EXCEPT !.known = Tail(@)]
             next == [pc |-> "granted", skill |-> s, row |-> Granted(rows[s]), rest |-> rest]
  <2>1. rest.pc = "grant"  BY <1>0, <1>4 DEF PlacementRead
  <2>2. Go(p, Idle) \/ Go(p, rest) \/ Go(p, next)
    BY <1>4 DEF PlacementRead
  <2> HIDE DEF rest, s
  <2>3. next.pc = "granted"  OBVIOUS
  <2> HIDE DEF next
  <2> QED  BY <1>0, <2>1, <2>2, <2>3, OthersKeepPlans
<1>5. CASE PlacementGrant(p)
  <2> DEFINE rest == req[p].rest
  <2>1. rest.pc = "grant"  BY <1>5 DEF PlacementGrant, Inv, PendingInv
  <2>2. Go(p, rest)  BY <1>5 DEF PlacementGrant
  <2> HIDE DEF rest
  <2> QED  BY <2>1, <2>2, OthersKeepPlans
<1> QED  BY <1>1, <1>2, <1>3, <1>4, <1>5

LEMMA PlanInvStep == Inv /\ PlanInv /\ [Next]_vars => PlanInv'
<1> SUFFICES ASSUME Inv, PlanInv, [Next]_vars PROVE PlanInv'  OBVIOUS
<1>0. Idle.pc = "idle"  BY DEF Idle
<1>1. CASE Page  BY <1>1 DEF Page, PlanInv
<1>2. ASSUME NEW p \in Requests, CreateProfile(p) PROVE PlanInv'
  <2> DEFINE next == [pc |-> "init"]
  <2>1. Go(p, next)  BY <1>2 DEF CreateProfile
  <2>2. next.pc = "init"  OBVIOUS
  <2> HIDE DEF next
  <2> QED  BY <2>1, <2>2, OthersKeepPlans
<1>3. ASSUME NEW p \in Requests, CreateInit(p) PROVE PlanInv'
  <2>1. Go(p, Idle)  BY <1>3 DEF CreateInit
  <2> QED  BY <1>0, <2>1, OthersKeepPlans
<1>4. ASSUME NEW p \in Requests, NEW s \in Skills, NEW a \in Attempts, NEW r \in Recalls,
             SubmitRead(p, s, a, r)
      PROVE  PlanInv'
  <2> DEFINE row == UpdateSkillState(rows[s], Grade(a.right, a.hints, a.slow), a.err, r)
             next == [pc |-> "upsert", skill |-> s, row |-> row]
  <2>1. Go(p, next)  BY <1>4 DEF SubmitRead
  <2> HIDE DEF row
  <2>2. next.pc = "upsert"  OBVIOUS
  <2> HIDE DEF next
  <2> QED  BY <2>1, <2>2, OthersKeepPlans
<1>5. ASSUME NEW p \in Requests, SubmitUpsert(p) PROVE PlanInv'
  <2>1. Go(p, Idle)  BY <1>5 DEF SubmitUpsert
  <2> QED  BY <1>0, <2>1, OthersKeepPlans
<1>6. CASE UNCHANGED vars  BY <1>6 DEF vars, PlanInv
<1> QED  BY <1>1, <1>2, <1>3, <1>4, <1>5, <1>6, PlanningStep, PlacingStep DEF Next

LEMMA PlanInvInit == Init => PlanInv
BY DEF Init, PlanInv, HeldPlan, Idle

\* However answers, placements and other plans change the rows between the
\* four queries of a plan, it takes no skill twice, none that is new to it or
\* was never attempted unless the learner knew every prerequisite with a
\* confidence of 0.3 when the plan was made, and gives stale content only for
\* want of other.
THEOREM PlansSound == Spec => []PlanSound
<1>1. PlanInv => PlanSound
  <2> SUFFICES ASSUME PlanInv, NEW p \in Requests, req[p].pc = "planned"
               PROVE  LET plan  == req[p].selections
                          items == req[p].items
                          Stale(i) == req[p].used \cup {items[k].content.id : k \in 1..(i - 1)}
                          Better(i, c) == c.id \notin Stale(i) /\ Contains(c.skills, items[i].skill)
                      IN  /\ Len(plan) <= MaxItems
                          /\ \A i, j \in DOMAIN plan :
                                 plan[i].row.skill = plan[j].row.skill => i = j
                          /\ \A i \in DOMAIN plan :
                                 (~plan[i].review \/ plan[i].row.attempts = 0) =>
                                     Prereqs[plan[i].row.skill] \subseteq req[p].knew
                          /\ req[p].content # {} => Len(items) = Len(plan)
                          /\ \A i \in DOMAIN items :
                                 /\ items[i].skill = plan[i].row.skill
                                 /\ items[i].content.id \in Stale(i) =>
                                        ~\E c \in req[p].content : Better(i, c)
    BY DEF PlanSound
  <2> DEFINE plan  == req[p].selections
             items == req[p].items
             content == req[p].content
             used == req[p].used
             knew == req[p].knew
             open == {s \in Skills : Prereqs[s] \subseteq knew}
             Stale(i) == used \cup {items[k].content.id : k \in 1..(i - 1)}
             Better(i, c) == c.id \notin Stale(i) /\ Contains(c.skills, items[i].skill)
  <2>1. SoundPlan(plan, content, used, items, knew)  BY DEF PlanInv, HeldPlan
  <2>2. /\ IsPlan(plan, MaxItems, open)
        /\ content = {} => items = << >>
        /\ content # {} => Fitting(items, Len(plan), plan, content, used)
    BY <2>1 DEF SoundPlan
  <2>3. \A s \in open : Prereqs[s] \subseteq knew  OBVIOUS
  <2>4. \A i : StaleAt(items, i, used) = Stale(i)  BY DEF StaleAt
  <2> HIDE DEF plan, items, content, used, knew, open, Stale
  <2>5. DOMAIN plan = 1..Len(plan)  BY <2>2 DEF IsPlan
  <2>6. /\ Len(plan) <= MaxItems
        /\ \A i, j \in DOMAIN plan : plan[i].row.skill = plan[j].row.skill => i = j
        /\ \A i \in DOMAIN plan : (~plan[i].review \/ plan[i].row.attempts = 0) =>
               Prereqs[plan[i].row.skill] \subseteq knew
    BY <2>2, <2>3, <2>5 DEF IsPlan
  <2>7. content # {} => Len(items) = Len(plan)  BY <2>2 DEF Fitting
  <2>8. ASSUME NEW i \in DOMAIN items
        PROVE  /\ items[i].skill = plan[i].row.skill
               /\ items[i].content.id \in Stale(i) => ~\E c \in content : Better(i, c)
    <3>1. content # {}  BY <2>2, <2>8
    <3>2. FitAt(items, i, plan, content, used)
      <4>1. items \in Seq(Range(items)) /\ Len(items) = Len(plan)  BY <2>2, <3>1 DEF Fitting
      <4>2. i \in 1..Len(plan)  BY <2>8, <4>1
      <4> QED  BY <2>2, <3>1, <4>2 DEF Fitting
    <3> QED  BY <2>4, <3>2 DEF FitAt
  <2> QED  BY <2>6, <2>7, <2>8 DEF plan, items, content, used, knew, Stale
<1> QED  BY <1>1, InvAlways, PlanInvInit, PlanInvStep, PTL DEF Spec
=============================================================================
