-------------------------- MODULE MCCapPropagation --------------------------
(* Small capability graphs for CapPropagation.  Ids 1..4 stand for         *)
(* capabilities of the encoder table; values are 0 and 1, enough for an  *)
(* adjust to change a value or leave it.                                  *)
EXTENDS CapPropagation

MCCaps == 1..4
MCValues == {0, 1}
MCDefaults == [c \in MCCaps |-> 0]

\* Diamond: 1 -> {2, 3} -> 4, every capability adjustable and set.
DiamondChildren == (1 :> <<2, 3>>) @@ (2 :> <<4>>) @@ (3 :> <<4>>)
                   @@ (4 :> <<>>)
DiamondOrder == <<1, 2, 3, 4>>

\* Chain 1 -> 2 -> 3 and an independent 4 (spec.md section 8).
ChainChildren == (1 :> <<2>>) @@ (2 :> <<3>>) @@ (3 :> <<>>) @@ (4 :> <<>>)
ChainOrder == <<1, 4, 2, 3>>

\* 1 -> <<3, 2, 4>> with 2 -> 3: a child listed before its other parent.
SkewChildren == (1 :> <<3, 2, 4>>) @@ (2 :> <<3>>) @@ (3 :> <<>>)
                @@ (4 :> <<>>)
SkewOrder == <<1, 2, 4, 3>>

\* One level: 1 -> {2, 3}.
FlatChildren == (1 :> <<2, 3>>) @@ (2 :> <<>>) @@ (3 :> <<>>) @@ (4 :> <<>>)
FlatOrder == <<1, 2, 3, 4>>
=============================================================================
