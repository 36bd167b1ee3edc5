----------------------------- MODULE MCThreeWay -----------------------------
(* Texts and trees for TLC: every LF text over three letters up to three   *)
(* lines with the odd ones beside it, and trees of two places with one     *)
(* object changed, moved, replaced, copied or removed.                     *)
EXTENDS ThreeWay

Line(text, end) == [text |-> text, end |-> end]
Of(lines) == [bom |-> FALSE, lines |-> lines]
Letters == {"a", "b", "c"}

LfTexts == {Of([i \in 1..n |-> Line(w[i], "lf")]) :
               n \in 0..3, w \in [1..3 -> Letters]}
OddTexts == {
    [bom |-> TRUE, lines |-> <<Line("a", "lf")>>],
    Of(<<Line("a", "none")>>), Of(<<Line("a", "lf"), Line("b", "none")>>),
    Of(<<Line("b", "lf"), Line("a", "lf"), Line("c", "none")>>),
    Of(<<Line("a", "crlf")>>), Of(<<Line("a", "crlf"), Line("b", "lf")>>),
    Of(<<Line("a", "crlf"), Line("b", "none")>>), Of(<<Line("a", "cr")>>),
    Of([i \in 1..4 |-> Line("a", "lf")]), Of([i \in 1..5 |-> Line("a", "lf")])}
AllTexts == LfTexts \cup OddTexts

-----------------------------------------------------------------------------
Of3(x, y, z) == Of(<<Line(x, "lf"), Line(y, "lf"), Line(z, "lf")>>)
Modules == {Of3("a", "b", "c"), Of3("b", "b", "c"), Of3("a", "b", "a"), Of3("c", "b", "c")}
Module == Of3("a", "b", "c")

P(name, value) == [name |-> name, value |-> value]
Form(object, outer, properties) ==
    [type |-> "Form", object |-> object, outer |-> outer, properties |-> properties]

Plain     == Form("A", "o1", <<P("name", 1), P("x", 1), P("y", 1)>>)
XChanged  == Form("A", "o1", <<P("name", 1), P("x", 2), P("y", 1)>>)
YChanged  == Form("A", "o1", <<P("name", 1), P("x", 1), P("y", 2)>>)
XGone     == Form("A", "o1", <<P("name", 1), P("y", 1)>>)
YMoved    == Form("A", "o1", <<P("y", 2), P("name", 1), P("x", 1)>>)
ZAdded    == Form("A", "o1", <<P("z", 1), P("name", 1), P("x", 1), P("y", 1)>>)
ZLast     == Form("A", "o1", <<P("name", 1), P("x", 1), P("y", 1), P("z", 1)>>)
Rewrapped == Form("A", "o2", Plain.properties)
Other     == Form("B", "o1", Plain.properties)
Extended  == Form("A", "o1", Append(Plain.properties, P("ObjectBelonging", 1)))
Odd       == Form("A", "odd", Plain.properties)
Retyped   == [Plain EXCEPT !.type = "Report"]

Changed == {Plain, XChanged, YChanged, XGone, YMoved, ZAdded, ZLast, Rewrapped}
Xml(place) == <<place, "xml">>
At(path, file) == path :> file
Form1 == At(Xml(1), Plain)

Alone     == {At(Xml(1), d) : d \in Changed \cup {Other, Extended, Odd, Retyped}}
WithText  == {At(Xml(1), d) @@ At(<<1, "bsl">>, t) :
                 d \in {Plain, XChanged, YChanged, Rewrapped, Other}, t \in Modules}
Moved     == {At(Xml(2), d) : d \in {Plain, XChanged, YChanged, XGone}}
             \cup {At(Xml(2), d) @@ At(Xml(1), Other) : d \in {Plain, XChanged}}
             \cup {At(Xml(2), Plain) @@ At(<<2, "bsl">>, Module)}
             \cup {At(Xml(2), d) @@ Form1 : d \in {Plain, Other}}
Companied == {Form1 @@ At(<<1, "form">>, n) : n \in 1..2}
             \cup {Form1 @@ At(<<1, "bin">>, n) : n \in 1..2}
             \cup {Form1 @@ At(<<1, "resource">>, 1), At(<<1, "bsl">>, Module),
                   At(Xml(1), Retyped) @@ At(<<1, "bsl">>, Module),
                   At(Xml(1), Retyped) @@ At(<<1, "form">>, 1)}
AllTrees == {<< >>} \cup Alone \cup WithText \cup Moved \cup Companied

OwnedKinds == [Form |-> {"bsl", "form"}, Report |-> {"bsl"}]
OddOuters == {"odd"}
Extensions == {"ObjectBelonging"}
=============================================================================
