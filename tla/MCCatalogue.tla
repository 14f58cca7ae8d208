----------------------------- MODULE MCCatalogue ----------------------------
(***************************************************************************)
(* Small instances of Catalogue: one benefit that can be presented and one *)
(* that cannot, for the lack of a description and, with tags, for a group  *)
(* of its form that is null.                                               *)
(***************************************************************************)
EXTENDS Catalogue, TLC

CONSTANTS fit, unfit, b1

ContentOf == [b \in {fit, unfit} |->
  [eligibility |-> <<"age", "caste">>,
   documents |-> << [id |-> 1, isRequired |-> TRUE], [id |-> 2, isRequired |-> FALSE] >>,
   benefits |-> IF b = fit THEN << <<3, 5>>, <<>> >> ELSE << NoText >>,
   exclusions |-> <<>>,
   sponsors |-> <<"trust">>,
   form |-> << <<"name", "age">>, IF b = fit THEN NoText ELSE Null, <<"class">> >>,
   dated |-> TRUE]]

\* search and select; init and update in the name of two BAPs, or of one BAP with
\* ids of its own and with documents; init with confirm and status.
SentIn ==
  LET Of(ops) == {q \in Body : q.op \in ops}
  IN [lists |-> Of({"search", "select"}),
      baps |-> {q \in Of({"init", "update"}) : q.form = "whole" /\ q.bapApp = None /\
                  (q.op = "update" => ~q.docs /\ q.benefit = fit)},
      ids |-> {q \in Of({"init", "update"}) : q.bap = b1 /\ (q.form = "whole" =>
                  /\ q.benefit = fit
                  /\ q.op = "update" => q.target # None /\ (q.docs => q.bapApp = None))},
      orders |-> {q \in Of({"init", "confirm", "status"}) : q.form = "whole" /\
                  (q.op = "init" => q.bapApp = None)}]

\* Requests and the ids of a BAP are interchangeable.
Symmetry == Permutations(Request) \union Permutations(BapApp)
=============================================================================
