------------------------- MODULE MCPlaybookExecutor -------------------------
(* Small playbooks for PlaybookExecutor, each parsed from its document, and *)
(* every document of at most MaxLines lines for the parser.                 *)
EXTENDS PlaybookExecutor, TLC

CONSTANTS r1, r2, x, y, MaxLines

MCRuns == {r1, r2}
MCVars == {x, y}

Line(indent, kind) ==
  [indent |-> indent, kind |-> kind, known |-> TRUE, uses |-> {}, out |-> NoVar]
Num(indent)            == Line(indent, "num")
Bullet(indent)         == Line(indent, "bullet")
Prompt(indent, uses)   == [Line(indent, "prop") EXCEPT !.uses = uses]
Output(indent, out)    == [Line(indent, "prop") EXCEPT !.out = out]
Unknown(line)          == [line EXCEPT !.known = FALSE]

(* In turn: two results used by a third step; a failing spawn beside two   *)
(* agents; a failing sub-plan before an agent; a sub-plan that may start  *)
(* after another agent has failed; a sub-plan before a step that uses what *)
(* it stored; a variable that nothing sets.                                *)
FirstDocuments == {
  <<Bullet(0), Output(1, x), Bullet(0), Output(1, y),
    Num(0), Prompt(1, {x, y}), Output(1, x)>>,
  <<Bullet(0), Output(1, x), Bullet(0), Output(1, y), Unknown(Bullet(0))>>,
  <<Bullet(0), Unknown(Num(1)), Bullet(0), Output(1, y)>>,
  <<Bullet(0), Output(1, y), Bullet(0), Num(1), Output(2, x)>>,
  <<Num(0), Bullet(1), Output(2, x), Num(0), Prompt(1, {x}), Output(1, y)>>,
  <<Num(0), Prompt(1, {x}), Output(1, y)>> }

SecondDocuments == {<<Unknown(Num(0))>>}
MCDocumentsOf   == r1 :> FirstDocuments @@ r2 :> SecondDocuments

SmallLines == {Line(0, "empty")}
  \cup {Line(indent, kind) : indent \in 0 .. 2, kind \in Kinds \ {"empty"}}
SmallDocuments == UNION {[1 .. n -> SmallLines] : n \in 0 .. MaxLines}
MCDocuments    == FirstDocuments \cup SecondDocuments \cup SmallDocuments

=============================================================================
