------------------------------- MODULE MCCooker -------------------------------
(* Small command lines and persona files for TLC. *)
EXTENDS Cooker

MCCommand(verb, paths, d, resume) ==
  [verb |-> verb, known |-> TRUE, agents |-> 1, days |-> 1, external |-> 1,
   files |-> paths, dir |-> d, resume |-> resume]

(* Presets go to paths 2 and 1 of the directory; path 3 is the user's own  *)
(* profile elsewhere, path 4 one outside that has a preset's name.         *)
MCPath == 1..4
MCInDir == {1, 2}
MCPresets == <<[path |-> 2, name |-> "retail"], [path |-> 1, name |-> "market_maker"]>>
MCExtra == [p \in {3, 4} |-> IF p = 3 THEN Toml("own", TRUE) ELSE Toml("retail", TRUE)]

MCCommands ==
  {MCCommand("personas", << >>, FALSE, FALSE), MCCommand("report", << >>, FALSE, FALSE),
   MCCommand("dump", << >>, FALSE, FALSE),
   MCCommand("run", <<3>>, TRUE, TRUE), MCCommand("run", <<4>>, TRUE, FALSE),
   [MCCommand("run", << >>, FALSE, TRUE) EXCEPT !.days = 2],
   [MCCommand("dump", << >>, FALSE, FALSE) EXCEPT !.known = FALSE],
   [MCCommand("run", << >>, FALSE, FALSE) EXCEPT !.days = 0]}
===============================================================================
