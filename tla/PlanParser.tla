----------------------------- MODULE PlanParser -----------------------------
(***************************************************************************)
(* The parser of playbooks: a list in Markdown becomes the plan that       *)
(* PlaybookExecutor executes. Numbered items are steps in sequence,        *)
(* bullets are steps in parallel, and what is indented below a step is     *)
(* either its properties (prompt, output) or its sub-plan.                 *)
(*                                                                         *)
(* A document is a sequence of lines; a line has an indent, a kind and, by *)
(* its kind, what a step needs to know: whether its agent type is known,   *)
(* the variables its prompt uses, the variable it sets.                    *)
(***************************************************************************)
EXTENDS Naturals, SequencesExt

CONSTANTS
  Documents,   \* the documents that playbooks are read from
  Vars,        \* names of playbook variables
  NoVar        \* the output of a step that sets none

(* Numbered item, bullet, bullet that reads as a property ("prompt: ..."), *)
(* text that is no list item (an item without text is none), empty line.   *)
Kinds == {"num", "bullet", "prop", "text", "empty"}
Lines == [indent : Nat, kind : Kinds, known : BOOLEAN, uses : SUBSET Vars,
          out : Vars \cup {NoVar}]

ASSUME DocumentsAssumption == Documents \subseteq Seq(Lines)

(* matchListItem and isPropertyLine.                                       *)
isItem(l)  == l.kind \in {"num", "bullet", "prop"}
isEmpty(l) == l.kind = "empty"

-----------------------------------------------------------------------------
(* The lines below line i that belong to it: up to the next line that is   *)
(* indented no deeper.                                                     *)

\* Mutant: siblings are taken for children.
childEndSibling(lines, i) ==
  LET Outside == {j \in (i + 1) .. Len(lines) :
                    ~isEmpty(lines[j]) /\ lines[j].indent < lines[i].indent}
  IN  IF Outside = {} THEN Len(lines) + 1 ELSE Min(Outside)

childEnd(lines, i) ==
  LET Outside == {j \in (i + 1) .. Len(lines) :
                    ~isEmpty(lines[j]) /\ lines[j].indent <= lines[i].indent}
  IN  IF Outside = {} THEN Len(lines) + 1 ELSE Min(Outside)

(* The list among them has the indent of its first item.                   *)
ItemsBelow(lines, i) == {j \in (i + 1) .. (childEnd(lines, i) - 1) : isItem(lines[j])}
listIndent(lines, i) == lines[Min(ItemsBelow(lines, i))].indent
childItems(lines, i) ==
  {j \in ItemsBelow(lines, i) : lines[j].indent = listIndent(lines, i)}

allChildrenAreProperties(lines, Items) == \A j \in Items : lines[j].kind = "prop"

(* parseProperty, for each in turn: the last output counts.                *)
outputVar(lines, Props) ==
  LET Outs == {j \in Props : lines[j].out # NoVar}
  IN  IF Outs = {} THEN NoVar ELSE lines[Max(Outs)].out

(* Consecutive steps of one kind make a phase, sequential if numbered.     *)
ordered(lines, n) == lines[n.at].kind = "num"
AddStep(lines, plan, n) ==
  IF plan # <<>> /\ Last(plan).parallel = ~ordered(lines, n)
  THEN Append(Front(plan), [parallel |-> Last(plan).parallel,
                            steps    |-> Append(Last(plan).steps, n)])
  ELSE Append(plan, [parallel |-> ~ordered(lines, n), steps |-> <<n>>])
buildExecutionPlan(lines, nodes) ==
  LET plan[k \in 0 .. Len(nodes)] ==
        IF k = 0 THEN <<>> ELSE AddStep(lines, plan[k - 1], nodes[k])
  IN  plan[Len(nodes)]

(* A step with the nodes below it: they are its properties if all of them  *)
(* read as properties, and else its sub-plan. `at' and `props' say where a *)
(* step and its properties stand.                                          *)
SubSteps(lines, i) == ~allChildrenAreProperties(lines, childItems(lines, i))

parseStepAt(lines, i, subNodes) ==
  LET Props == IF SubSteps(lines, i) THEN {} ELSE childItems(lines, i)
  IN  [at |-> i, props |-> Props, known |-> lines[i].known,
       uses |-> UNION {lines[j].uses : j \in Props}, out |-> outputVar(lines, Props),
       sub |-> buildExecutionPlan(lines, subNodes)]

(* The items at the indent `base' from line i on, until a line with less;  *)
(* the lines below a step are passed over.                                 *)
Indents(lines) == {0} \cup {lines[i].indent : i \in DOMAIN lines}
parseStepNodes(lines) ==
  LET nodes[i \in 1 .. (Len(lines) + 1)] ==
        [base \in Indents(lines) |->
           IF i > Len(lines) \/ (~isEmpty(lines[i]) /\ lines[i].indent < base) THEN <<>>
           ELSE IF isItem(lines[i]) /\ lines[i].indent = base
             THEN <<parseStepAt(lines, i,
                      IF SubSteps(lines, i) THEN nodes[i + 1][listIndent(lines, i)] ELSE <<>>)>>
                    \o nodes[childEnd(lines, i)][base]
             ELSE nodes[i + 1][base]]
  IN  nodes

(* A document without steps has no plan.                                   *)
PlanFrom(lines, i, base) == buildExecutionPlan(lines, parseStepNodes(lines)[i][base])
ParsePlan(lines)         == PlanFrom(lines, 1, 0)

(* All plans that are executed: those of documents, and their sub-plans.   *)
PlansIn(lines) ==
  {PlanFrom(lines, i, base) : i \in 1 .. (Len(lines) + 1), base \in Indents(lines)}
Plans == (UNION {PlansIn(lines) : lines \in Documents}) \ {<<>>}

-----------------------------------------------------------------------------
(* What a playbook means to its author.                                    *)

(* The steps of a plan and of its sub-plans, each with the line of the     *)
(* step above it (0 at the top), its phase and its place in the phase.     *)
Below(plan, parent) ==
  UNION {{[step |-> plan[ph].steps[k], parent |-> parent, phase |-> ph, place |-> k,
           parallel |-> plan[ph].parallel] : k \in DOMAIN plan[ph].steps} : ph \in DOMAIN plan}
StepsOf(lines) ==
  LET toLevel[d \in 0 .. Len(lines)] ==
        IF d = 0 THEN Below(ParsePlan(lines), 0)
        ELSE LET upper == toLevel[d - 1]
             IN  upper \cup UNION {Below(e.step.sub, e.step.at) : e \in upper}
  IN  toLevel[Len(lines)]

(* The item an item is indented under, by the layout alone.                *)
ItemLines(lines) == {i \in DOMAIN lines : isItem(lines[i])}
Above(lines, i) ==
  Max({0} \cup {j \in ItemLines(lines) : j < i /\ lines[j].indent < lines[i].indent})

(* A document without surprises: siblings have one indent and are either   *)
(* steps or properties, properties have nothing below them, and text only  *)
(* continues the item before it, indented as deep as what is below that.   *)
Regular(lines) ==
  LET Items == ItemLines(lines)
      Steps == {i \in Items : lines[i].kind # "prop"}
  IN  /\ \A i \in Items : Above(lines, i) \in Steps \/ (lines[i].indent = 0 /\ i \in Steps)
      /\ \A i, j \in Items : Above(lines, i) = Above(lines, j) =>
           lines[i].indent = lines[j].indent /\ (i \in Steps <=> j \in Steps)
      /\ \A i \in DOMAIN lines : lines[i].kind = "text" =>
           \E j \in Items :
             /\ j < i /\ lines[j].indent < lines[i].indent
             /\ \A k \in Items : \/ k <= j
                                 \/ k > i /\ (Above(lines, k) = j => lines[k].indent <= lines[i].indent)

(* Every step of the plan is an item of the document, once, below the step *)
(* it belongs to and in order with its siblings; siblings of one kind that *)
(* follow each other are one phase, numbered ones in sequence. In a        *)
(* document without surprises nothing is lost and nothing misread: every   *)
(* item is a step, or a property, of the item it is indented under.        *)
PlanFaithful(lines) ==
  LET all == StepsOf(lines)
      line(e) == lines[e.step.at]
      numbered(e) == line(e).kind = "num"
      with(m, n) == {e \in all : e.parent = m.parent /\ e.step.at \in m.step.at .. n.step.at}
  IN
  /\ \A m, n \in all : m.step.at = n.step.at => m = n
  /\ \A n \in all :
       /\ n.step.at \in ItemLines(lines) /\ n.parent < n.step.at
       /\ n.parallel = ~numbered(n)
       /\ n.parent # 0 =>
            \A j \in (n.parent + 1) .. n.step.at :
              isEmpty(lines[j]) \/ lines[j].indent > lines[n.parent].indent
  /\ \A m, n \in all :
       m.step.at < n.step.at /\ m.parent = n.parent =>
         /\ line(m).indent = line(n).indent
         /\ m.phase < n.phase \/ (m.phase = n.phase /\ m.place < n.place)
         /\ m.phase = n.phase <=> \A e \in with(m, n) : numbered(e) = numbered(m)
  /\ Regular(lines) =>
       /\ {n.step.at : n \in all} = {i \in ItemLines(lines) : lines[i].kind # "prop"}
       /\ \A n \in all :
            /\ n.parent = Above(lines, n.step.at)
            /\ n.step.props = {i \in ItemLines(lines) :
                 lines[i].kind = "prop" /\ Above(lines, i) = n.step.at}

=============================================================================
