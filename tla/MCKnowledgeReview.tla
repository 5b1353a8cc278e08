------------------------- MODULE MCKnowledgeReview -------------------------
(***************************************************************************)
(* TLC instances of KnowledgeReview.                                       *)
(***************************************************************************)
EXTENDS KnowledgeReview, TLC

\* Rules 1 and 2 are two renderings of one value, rule 3 states another one.
Renderings == {1, 2, 3}
Values == <<"7", "7", "8">>

Report(r, s, sure) == [rule |-> r, source |-> s, document |-> 1, sure |-> sure]

\* Two sources state the value in two renderings.  The corpus holds the other
\* value, or that and one of the renderings, which a report then corroborates.
Disputed == {Report(1, "guide", FALSE), Report(2, "museum", TRUE)}
Sites == {"museum", "guide", "handbook"}
Museum == {"museum"}
Book == "handbook"
Third == {3}
Latter == {2, 3}

\* One report against one rule of the corpus.
Pair == {1, 2}
OneValue == <<"7", "7">>
TwoValues == <<"7", "8">>
OneReport == {Report(1, "museum", TRUE), Report(1, "museum", FALSE)}
Second == {2}

\* Nothing tells the callers apart when each may make every call.
Callers == Permutations(Operator)

=============================================================================
