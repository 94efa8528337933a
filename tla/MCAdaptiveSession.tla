------------------------- MODULE MCAdaptiveSession -------------------------
(* Small instances of AdaptiveSession for TLC: catalogues chosen for the    *)
(* cases of the selector, and sizes that reach each of the three templates. *)
EXTENDS AdaptiveSession

Atom(id, skill, level, diff, secs, type) ==
    [id |-> id, skills |-> <<skill>>, level |-> level, diff |-> diff, secs |-> secs,
     type |-> type, segs |-> IF id % 4 = 1 THEN {"uni_prep"} ELSE {},
     general |-> id % 2 = 0, quality |-> id]

Row(skill, due, status, attempts, conf) ==
    [skill |-> skill, due |-> due, status |-> status, attempts |-> attempts, conf |-> conf]

\* Mostly multiple choice, of every difficulty and of three levels.
Mixed == << Atom(1, "a", 1, 10, 60, "mc"),  Atom(2, "a", 2, 45, 90, "mc"),
            Atom(3, "b", 1, 55, 0,  "mc"),  Atom(4, "b", 2, 70, 90, "fill"),
            Atom(5, "c", 1, 20, 60, "mc"),  Atom(6, "c", 3, 90, 120, "mc"),
            Atom(7, "d", 2, 35, 60, "fill"), Atom(8, "d", 2, 25, 45, "mc") >>
\* The same with four more, for the longer templates.
Long == Mixed \o << Atom(9, "e", 1, 15, 30, "mc"), Atom(10, "e", 2, 65, 60, "mc"),
                    Atom(11, "f", 1, 85, 60, NoType), Atom(12, "f", 2, 30, 60, "mc") >>
\* Exercises so long that the budget decides.
Slow == [i \in 1..6 |-> [Mixed[i] EXCEPT !.secs = 150]]
\* One kind of exercise after another, for no skill the learner has.
Drill(types) == [i \in DOMAIN types |-> Atom(2 * i, "x", 1, 12 * i, 40, types[i])]
\* Four long exercises among many short ones: assigned, they overrun.
Demanding == [i \in 1..16 |->
    Atom(2 * i, IF i <= 4 THEN <<"a", "b", "c", "d">>[i] ELSE "x", 1, 6 * i,
         IF i <= 4 THEN 130 ELSE 5, "mc")]

Learner == << Row("a", TRUE, "review", 5, 400), Row("b", FALSE, "review", 5, 400),
              Row("c", FALSE, "new", 0, 0),     Row("d", TRUE, "new", 0, 0) >>

\* Easier, much harder and much longer variants.
Variants == << Atom(21, "a", 1, 5, 30, "mc"),   Atom(22, "b", 1, 35, 60, "mc"),
               Atom(23, "c", 2, 95, 240, "mc"), Atom(24, "d", 1, 15, 20, "mc") >>

Input(content, minutes, segment, level, seen, assigned) ==
    [content |-> content, skills |-> Learner, level |-> level, segment |-> segment,
     seen |-> seen, minutes |-> minutes, assigned |-> assigned, pool |-> Variants]

AllInputs ==
       {Input(Mixed, m, "work", l, {1, 8}, << >>) : m \in {5, 10, 15}, l \in {1, 2}}
  \cup {Input(Long, m, "uni_prep", 1, seen, <<"f", "a">>) :
            m \in {15, 30}, seen \in {{}, {12}, {5, 6, 12}}}
  \cup {Input(Slow, 5, s, 1, {}, a) : s \in {"work", "migrant"},
            a \in {<< >>, <<"a", "b", "c">>}}
  \cup {Input(Demanding, 5, "work", 1, {2 * i : i \in seen}, <<"a", "b", "c", "d">>) :
            seen \in {{}, {2}}}
  \cup {Input(Drill(t), m, "work", 1, {}, << >>) : m \in {5, 15},
            t \in {<<"mc", "mc", "mc", "mc", "mc", "fill">>,
                   <<"fill", "mc", "mc", "mc", "mc", "mc", "mc">>,
                   <<"mc", "mc", "mc", "mc", "fill", "fill", "fill", "fill", "mc">>}}
  \cup {Input(SubSeq(Mixed, 1, n), 15, "work", 1, {}, << >>) : n \in 0..5}
=============================================================================
