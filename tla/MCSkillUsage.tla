---------------------------- MODULE MCSkillUsage ----------------------------
(* An instance of SkillUsage for TLC: two skills and two sessions in one    *)
(* transcript, and the verdict rules of the code.                           *)
EXTENDS SkillUsage

Block(name, nested) == [name |-> name, nested |-> nested]

Line(kind, session, skills, text) ==
  [kind |-> kind, session |-> session, skills |-> skills, text |-> text,
   id |-> TRUE, recent |-> TRUE]

Says(skills) == Line("assistant", "own", skills, "none")
User(text)   == Line("user", "own", <<>>, text)
A == Block("A", FALSE)  B == Block("B", FALSE)

MCLines ==
  {Says(<<>>), Says(<<A>>), Says(<<B>>), Says(<<A, B>>),
   Says(<<Block("B", TRUE), Block("", FALSE), B>>),
   [Says(<<A>>) EXCEPT !.id = FALSE], [Says(<<A>>) EXCEPT !.recent = FALSE],
   User("none"), User("benign"), User("stop"),
   Line("assistant", "other", <<A>>, "none"), Line("user", "other", <<>>, "stop"),
   Line("malformed", "own", <<>>, "none")}

NoPast == [completed |-> 0, abandoned |-> 0, unknown |-> 0, sessions |-> 0]
MCPasts ==
  {NoPast} \cup
  {[completed |-> c, abandoned |-> a, unknown |-> 1, sessions |-> 1] : c \in 0..2, a \in 0..2}

Rule(measure, sessions, invocations, completion, drop) ==
  [measureOnly |-> measure, minSessions |-> sessions, minInvocations |-> invocations,
   minCompletion |-> completion, dropBelow |-> drop]

MCRules == {Rule(FALSE, 3, 0, 70, 2), Rule(FALSE, 2, 0, 70, 2), Rule(FALSE, 0, 5, 0, 2),
            Rule(TRUE, 0, 0, 0, 0), Rule(FALSE, 0, 0, 0, 0)}
=============================================================================
