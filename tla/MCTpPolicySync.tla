--------------------------- MODULE MCTpPolicySync ---------------------------
(* The policies of the instance of TpPolicySync that TLC checks. *)
EXTENDS TpPolicySync

CONSTANTS c1, c2, open, read

Item(names, calls) == [names |-> names, calls |-> calls]

\* No item; one, with a name that is not known; one that is too long; two that
\* match the same container.
PolicySet == {<<>>,
              <<Item({c1, c2}, <<Unknown, read>>)>>,
              <<Item({c1}, <<open, read>>), Item({c1, c2}, <<read>>)>>}
=============================================================================
