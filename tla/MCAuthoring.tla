----------------------------- MODULE MCAuthoring ----------------------------
(***************************************************************************)
(* A small instance of Authoring.                                          *)
(***************************************************************************)
EXTENDS Authoring, TLC

CONSTANT Other    \* the question whose option is there to be mistaken for another's

Changed == {o \in options : o.been = BOOLEAN}
Submitting == {h \in Handlers : pc[h].at \in {"validate", "store"}}

\* Answers do not meet each other here: one at a time, and one in all.
OneAnswer ==
  /\ Cardinality(Submitting) + Cardinality(answers) <= 1
  /\ \A h \in Submitting : pc[h].as \in Typed => pc[h].option \in {None, 1}

\* One option is changed, the first; the other question is no text and has one
\* option, created by itself.
Bounded ==
  /\ OneAnswer
  /\ \A o \in Changed : o.id = 1
  /\ \A o \in options : o.bulk => TRUE \in o.been
  /\ kind[Other] \notin Typed
  /\ Cardinality(OptionsOf(Other)) <= 1
  /\ \A o \in OptionsOf(Other) : ~o.bulk
  /\ \A h \in Handlers : pc[h].at = "bulk" => pc[h].question # Other

HandlerSymmetry == Permutations(Handlers)
=============================================================================
