--------------------------- MODULE MCOzonCollector --------------------------
(***************************************************************************)
(* An instance of OzonCollector for TLC.                                   *)
(***************************************************************************)
EXTENDS OzonCollector

\* Pages of two, each with a priced product: no page, one, two and three of
\* them, with products that come back and one without a price.
SomeListings ==
  {<<>>, <<"a">>, <<"a", "b">>, <<"c", "a", "b">>, <<"a", "b", "b", "a">>,
   <<"a", "c", "a", "c", "b">>}
Products == {"a", "b", "c"}
WithPrice == {"a", "b"}
TwoProxies == <<"p1", "p2">>
UpToThree == 0..3
EveryFault == AllFaults
EitherEnd == Endings

\* What the completeness of an "exhausted" result rests on.
ASSUME CompletePages == PagesFit /\ PagesSell
=============================================================================
