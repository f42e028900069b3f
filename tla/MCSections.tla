----------------------------- MODULE MCSections -----------------------------
(* The Writer on small instances: the sections of the reports of a general  *)
(* industry and of one with a section of its own; what an analysis searches *)
(* and what it makes of its evidence.  The three share no state: a          *)
(* behaviour is one of Sections, one run of MCEvidence or one search of     *)
(* MCSearch.                                                                *)
EXTENDS Sections, MCEvidence, MCSearch
CONSTANTS a, b, narrative, benchmark
MCTasks == (a :> {{}, {narrative, benchmark}}) @@ (b :> {{narrative}})
NoReport == Init /\ specs[a] = {}
MCInit ==
  \/ NoReport /\ input = NoRun /\ SearchInit
  \/ NoReport /\ EvidenceInit /\ asked = NoSearch
  \/ Init /\ input = NoRun /\ asked = NoSearch
MCNext ==
  \/ input = NoRun /\ asked = NoSearch /\ Next /\ UNCHANGED <<input, asked>>
  \/ input # NoRun /\ EvidenceNext /\ UNCHANGED <<vars, asked>>
  \/ asked # NoSearch /\ SearchNext /\ UNCHANGED <<vars, input>>
=============================================================================
