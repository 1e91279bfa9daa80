------------------------------- MODULE Paging -------------------------------
(***************************************************************************)
(* query() of the EASScan indexer (src/src/indexers/easscan.ts): pages of  *)
(* "take" attestations by offset, newest first, until a page is short,     *)
(* while attestations arrive at the index in any order of time.  Without   *)
(* a limit, as EASKeyStore calls it.  The index itself is external.        *)
(***************************************************************************)
EXTENDS Naturals, Sequences

CONSTANTS
    Attestations,
    Matching,      \* those of the namespace and key that the filter keeps
    Take           \* attestations of a page

ASSUME Pages ==
    /\ Matching \subseteq Attestations
    /\ Take \in Nat \ {0}

VARIABLES
    index,         \* the attestations known to the index, newest first
    skip, records, \* the locals of query()
    running,
    known          \* history: the index when the first page was taken

queryVars == <<skip, records, running, known>>
pagingVars == <<index, queryVars>>

Contents == {index[i] : i \in 1..Len(index)}

PagingInit ==
    /\ index = <<>>
    /\ skip = 0 /\ records = {} /\ running = FALSE
    /\ known = {}

(* The sequence s with x put in after its first n elements. *)
Insert(s, n, x) ==
    [i \in 1..(Len(s) + 1) |->
        IF i <= n THEN s[i] ELSE IF i = n + 1 THEN x ELSE s[i - 1]]

(* An attestation newer than all, or one that the index learns late. *)
Arrive(a, n) ==
    /\ a \notin Contents
    /\ n \in 0..Len(index)
    /\ index' = Insert(index, n, a)
    /\ UNCHANGED queryVars

BeginQuery ==
    /\ ~running
    /\ skip' = 0 /\ records' = {} /\ running' = TRUE
    /\ known' = {}
    /\ UNCHANGED index

(* The attestations of the next page *)
Page == {index[i] : i \in (skip + 1)..(IF skip + Take < Len(index)
                                       THEN skip + Take ELSE Len(index))}

(* Mutant: what the filter drops is kept. *)
KeptUnfiltered == Page

(* mapAttestation *)
Kept == Page \cap Matching

(* Mutant: a page is short when few of its attestations match. *)
ShortOfMatches == \E i \in (skip + 1)..(skip + Take) : i > Len(index) \/ index[i] \notin Matching

ShortPage == skip + Take > Len(index)

(* Mutant: the offset counts only the records that were kept. *)
OffsetByRecords ==
    IF Kept = {} THEN skip ELSE skip + Take

NextOffset == skip + Take

(* A page is requested, and its records are kept. *)
FetchPage ==
    /\ running
    /\ records' = records \cup Kept
    /\ running' = ~ShortPage
    /\ skip' = IF ShortPage THEN skip ELSE NextOffset
    /\ known' = IF skip = 0 THEN Contents ELSE known
    /\ UNCHANGED index

(* The request fails, or the response is not one: the query rejects. *)
RequestFails ==
    /\ running
    /\ skip' = 0 /\ records' = {} /\ running' = FALSE
    /\ known' = {}
    /\ UNCHANGED index

PagingNext ==
    \/ \E a \in Attestations, n \in 0..Len(index) : Arrive(a, n)
    \/ BeginQuery \/ FetchPage \/ RequestFails

PagingSpec == PagingInit /\ [][PagingNext]_pagingVars

-----------------------------------------------------------------------------
PagingTypeOK ==
    /\ index \in Seq(Attestations)
    /\ skip \in Nat /\ records \subseteq Matching /\ running \in BOOLEAN
    /\ known \subseteq Attestations

(* Arrivals shift the pages while they are fetched, and still a query      *)
(* returns every match that the index had at its first request, and        *)
(* nothing that it has not.  (Of what arrived since, it may return any     *)
(* part: so the answer is one that an index could have given at a single   *)
(* moment if it learns attestations in any order, as KeyStore's does.)     *)
PagingComplete ==
    ~running => /\ known \cap Matching \subseteq records
                /\ records \subseteq Contents

(* A query ends, if no more than finitely many attestations arrive. *)
QueryEnds == running ~> ~running
=============================================================================
