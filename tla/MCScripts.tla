------------------------------- MODULE MCScripts -------------------------------
(***************************************************************************)
(* Instances of Scripts for TLC: the file b between the scripts x and y in *)
(* the order of paths, x an after_ script and y a before_ script.          *)
(***************************************************************************)
EXTENDS Scripts

CONSTANTS x, b, y, c1, c2, nil, white, none

MCScriptPaths == {x, y}
MCFilePaths   == {b}
MCRank        == [t \in {x, b, y} |-> CASE t = x -> 1 [] t = b -> 2 [] t = y -> 3]
MCOrderOf     == [t \in {x, b, y} |-> CASE t = x -> 1 [] t = b -> 0 [] t = y -> -1]
MCSums        == {c1, c2, nil, white}

MCScripts == [MCScriptPaths -> [condition : Conditions, sum : {c1}]]
OneScript == {[s \in MCScriptPaths |-> [condition |-> k, sum |-> IF s = x THEN c1 ELSE nil]] :
                 k \in Conditions}

Plain == [explicit |-> FALSE, interactive |-> FALSE, lessInteractive |-> FALSE,
          keepGoing |-> FALSE, dryRun |-> FALSE, args |-> {x, b, y}]

Recording == {Plain, [Plain EXCEPT !.dryRun = TRUE], [Plain EXCEPT !.keepGoing = TRUE]}
Ordering  == {Plain, [Plain EXCEPT !.dryRun = TRUE], [Plain EXCEPT !.explicit = TRUE],
              [Plain EXCEPT !.keepGoing = TRUE, !.interactive = TRUE]}

Bound(r, e, d, c, f) == [runs |-> r, edits |-> e, deletes |-> d, crashes |-> c, faults |-> f]
RecordLimit == Bound(3, 1, 1, 1, 1)
EditLimit   == Bound(3, 2, 0, 1, 0)
=============================================================================
