------------------------------ MODULE MCConfig ------------------------------
(* A small instance of Config: the file says ".5", ".7" or "nan" at key a, *)
(* and "x" at key b, which is absent until a file was loaded that far.     *)
EXTENDS Config, TLC

CONSTANTS a, b, s1, s2

Half == [text |-> ".5", stoi |-> Throws, stod |-> "0.5"]
More == [text |-> ".7", stoi |-> Throws, stod |-> "0.7"]
NotANumber == [text |-> "nan", stoi |-> Throws, stod |-> "nan"]
Text == [text |-> "x", stoi |-> Throws, stod |-> Throws]
MCScalars == {Half, More, NotANumber, Text}
MCNear == {<<x, y>> \in Doubles \X Doubles : x = y \/ "nan" \in {x, y}}

FileWith(x, y) == [k \in Keys |-> IF k = a THEN x ELSE y]
MCContents == {FileWith(x, Text) : x \in {Half, More, NotANumber}}
MCSubscriptions == {<<a, s1>>, <<a, s2>>, <<b, s1>>}
=============================================================================
