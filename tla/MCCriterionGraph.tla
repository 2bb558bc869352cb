---------------------------- MODULE MCCriterionGraph ----------------------------
(* Three criteria, every dependency between them, and scopes that contain, *)
(* equal or miss each other; scopes written with ".", wildcards and braces *)
(* under dependencies that point backwards; tables with rows missing,      *)
(* misnumbered or depending on a criterion that does not exist.            *)
EXTENDS CriterionGraph

MCWild == {"*", "**"}
MCBraces ==
    [s \in {"{cli,lib}"} |-> [names |-> {"cli", "lib"}, open |-> "{cli", close |-> "lib}"]]

Row(number, deps, scope) == [number |-> number, deps |-> deps, scope |-> scope]

Scopes == {{}, {<<"src">>}, {<<".", "src", "cli">>}, {<<"docs">>, <<"src", "lib">>}}

WrittenScopes ==
    Scopes \cup {{<<".">>}, {<<"src", "*", "x">>}, {<<"**", "x">>}, {<<"src", "{cli,lib}">>}}

FullTables ==
    {<<Row(1, d1, s1), Row(2, d2, s2), Row(3, d3, s3)>> :
        d1, d2, d3 \in SUBSET (1 .. 3), s1, s2, s3 \in Scopes}

WrittenTables ==
    {<<Row(1, {}, s1), Row(2, d2, s2), Row(3, d3, s3)>> :
        d2 \in SUBSET {1}, d3 \in SUBSET {1, 2}, s1, s2, s3 \in WrittenScopes}

LooseRows ==
    {Row(n, d, s) : n \in 1 .. 3, d \in {{}, {1}, {4}}, s \in {{<<"docs">>}, {<<"src">>}}}

MCTables ==
    FullTables \cup WrittenTables \cup UNION {[1 .. len -> LooseRows] : len \in 0 .. 3}

MCFiles == {<<"src">>, <<"src", "cli">>, <<"src", "lib">>, <<"src", "cli", "x">>, <<"docs">>, <<"docs", "x">>}
=============================================================================
