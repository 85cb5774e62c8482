-------------------------- MODULE MCFederatedSearch --------------------------
(* A dutiful server with up to three records, pages of two, and a wayward   *)
(* one that answers with any of a few pages, again and again.               *)
EXTENDS FederatedSearch

CONSTANTS none
MCDatasets == {<<1, 2, 3>>, <<3, 1>>, <<2, 3, 4, 1>>}
MCAnyPage == {<<>>, <<1>>, <<1, 2>>, <<2, 1>>}
MCLimits == {none, 1, 2}
=============================================================================
