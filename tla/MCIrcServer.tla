---------------------------- MODULE MCIrcServer -----------------------------
(***************************************************************************)
(* Small instances of IrcServer for TLC.                                   *)
(***************************************************************************)
EXTENDS IrcServer

CONSTANTS a1, a2, a3, n1, n2, n3

\* The nicknames differ in their lower-case forms, or in case only.
DistinctLower == [n \in Nick |-> n]
SharedLower == [n \in Nick |-> n1]

\* The allocator's choice of addresses is arbitrary, and nicknames are
\* interchangeable: lower-case forms are only compared with each other, and under
\* both definitions above a permutation of Nick keeps which of them are equal.
FullSymmetry ==
  {p @@ q : p \in Permutations(Addr), q \in Permutations(Nick)}

=============================================================================
