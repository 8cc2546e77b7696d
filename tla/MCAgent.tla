------------------------------- MODULE MCAgent -------------------------------
(* Small instance of Agent for TLC: a rule the cleanup DB does not know, one  *)
(* with one solution and one with two; volumes of two files and short lists.  *)
EXTENDS Agent

CONSTANTS f1, f2

MCFiles == {f1, f2}
MCRules == {"unknown", "single", "double"}
MCMatches == [r \in MCRules |-> CASE r = "unknown" -> 0 [] r = "single" -> 1 [] OTHER -> 2]

\* Every file is under actionPath, there and denied, or beside it, and clean or
\* infected once or twice; one of them may be elsewhere than on the disk, and the
\* other then is like it.
Volume(place, local, rules) ==
  [under |-> {f \in MCFiles : place[f] # "beside"}, beside |-> {f \in MCFiles : place[f] = "beside"},
   denied |-> {f \in MCFiles : place[f] = "denied"}, local |-> local, rules |-> rules, lines |-> <<>>]
Volumes == {Volume(p, l, r) : p \in [MCFiles -> {"under", "denied", "beside"}], l \in {MCFiles, {f1}},
                              r \in [MCFiles -> {<<>>, <<"single">>, <<"unknown", "double">>}]}

\* Runs without hardening are dry runs.
Given(volume, scan, harden, boost, exact) ==
  volume @@ [noDiskScan |-> ~scan, dryRun |-> ~harden, hardening |-> harden, boostable |-> boost,
             exactCase |-> exact]
Scans == {Given(v, TRUE, h, b[1], b[2]) :
            v \in Volumes, h \in BOOLEAN, b \in {<<TRUE, TRUE>>, <<TRUE, FALSE>>, <<FALSE, TRUE>>}}

\* The last two lines are too short: no rule, and a name of two characters.
Line(r, n) == [rule |-> r, length |-> n]
Lines == {Line("single", 5), Line("double", 3), Line("unknown", 3), Line(None, 5), Line("single", 2)}
Empty == Volume([f \in MCFiles |-> "beside"], {}, [f \in MCFiles |-> <<>>])
Lists == {Given([Empty EXCEPT !.lines = ls], FALSE, h, FALSE, TRUE) :
            ls \in UNION {[1..n -> Lines] : n \in 0..2}, h \in BOOLEAN}

MCInputs == Scans \cup Lists
==============================================================================
