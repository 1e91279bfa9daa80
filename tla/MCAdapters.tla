------------------------------ MODULE MCAdapters ------------------------------
(***************************************************************************)
(* Paging and MockProvider side by side, for TLC: the two share no state.  *)
(***************************************************************************)
EXTENDS Paging, MockProvider

AdaptersInit == PagingInit /\ MockInit

AdaptersNext ==
    \/ PagingNext /\ UNCHANGED mockVars
    \/ MockNext /\ UNCHANGED pagingVars

(* Every request is answered. *)
AdaptersSpec ==
    /\ AdaptersInit
    /\ [][AdaptersNext]_<<pagingVars, mockVars>>
    /\ WF_pagingVars(FetchPage /\ UNCHANGED mockVars)
=============================================================================
