----------------------------- MODULE MCEvidence -----------------------------
(* Small runs for Evidence: up to three points of two sources on one        *)
(* product and dimension; two points of any kind on two dimensions under    *)
(* every policy; any items over two points, first or third review; three    *)
(* points of any cost for a bundle.  A behaviour is one run, unchanged.     *)
EXTENDS Evidence
VARIABLE input

Point == [id |-> 1, product |-> "p", dim |-> "pricing", label |-> <<>>, src |-> <<"x">>, val |-> 100,
          conf |-> "high", date |-> "new", kind |-> "official", local |-> FALSE, ok |-> TRUE, cost |-> 1]
Cell == [kind |-> "cell", product |-> "p", dim |-> "pricing", ids |-> {1}, val |-> 100, rating |-> "rated"]
Plain == [raw |-> <<>>, form |-> "whole", repair |-> "open", local |-> <<>>, durable |-> <<>>,
          items |-> <<Cell>>, products |-> {"p"}, dims |-> {"pricing"}, policy |-> "balanced",
          window |-> FALSE, prev |-> {}, round |-> 0, cites |-> {}, budget |-> 3]
Upto(n, S) == UNION {[1 .. k -> S] : k \in 1 .. n}
Two == <<Point, [Point EXCEPT !.id = 2, !.src = <<"y">>, !.val = 108]>>

Merging ==
  {[Plain EXCEPT !.raw = raw, !.local = local, !.items = <<[Cell EXCEPT !.ids = iv[1], !.val = iv[2]]>>, !.cites = {1}] :
     raw \in {s \in Upto(3, {[Point EXCEPT !.id = id, !.src = <<src>>, !.val = val] : id \in {1, 2}, src \in {"x", "y"}, val \in {100, 104, 108}}) : s[1].id = 1 /\ s[1].src = <<"x">>},
     local \in {<<>>, <<[Point EXCEPT !.id = 3, !.src = <<"x">>, !.val = 104, !.local = TRUE]>>},
     iv \in {<<{1}, 0>>, <<{1}, 108>>, <<{1, 2}, 104>>}}
Reading ==
  {[Plain EXCEPT !.raw = [i \in 1 .. 2 |-> [Point EXCEPT !.id = i, !.src = <<IF i = 1 THEN "x" ELSE "y">>, !.ok = ok[i]]], !.form = form, !.repair = repair] :
     ok \in [1 .. 2 -> BOOLEAN], form \in {"whole", "cut", "open"}, repair \in {"whole", "open"}}
Kinds == {[Point EXCEPT !.src = src, !.conf = IF src = <<>> THEN conf ELSE "high", !.date = date, !.kind = kind, !.dim = dim] :
            src \in {<<"x">>, <<>>}, conf \in {"high", "low"}, date \in {"none", "old", "new"}, kind \in {"official", "other"}, dim \in {"pricing", "users"}}
Policies ==
  {[Plain EXCEPT !.raw = <<a, [Point EXCEPT !.id = 2, !.src = src, !.kind = kind]>>, !.policy = pw[1], !.window = pw[2], !.dims = {"pricing", a.dim},
                 !.items = <<[Cell EXCEPT !.ids = {1, 2}, !.dim = a.dim], [Cell EXCEPT !.ids = ids, !.dim = "pricing"]>>] :
     a \in Kinds, src \in {<<"x">>, <<"y">>}, kind \in {"official", "other"}, ids \in {{2}, {1, 2}},
     pw \in {<<"none", FALSE>>, <<"balanced", FALSE>>} \cup ({"official_preferred", "strict_multi_source"} \X BOOLEAN)}
Items == {[Cell EXCEPT !.kind = kind, !.ids = ids, !.val = val, !.rating = rating] :
            kind \in {"cell", "swot", "block"}, ids \in SUBSET {1, 2}, val \in {Silent, 0, 100, 104}, rating \in {"rated", "weak", "na"}}
Reviews ==
  {[r EXCEPT !.prev = IF again THEN Found(r @@ [data |-> Collected(r)]) ELSE {}] :
     again \in BOOLEAN,
     r \in {[Plain EXCEPT !.raw = Two, !.items = <<[Cell EXCEPT !.ids = {1, 2}, !.val = 0], item>>, !.round = round, !.policy = policy, !.durable = <<[Point EXCEPT !.id = 5, !.val = 108]>>] :
              item \in Items, round \in {0, 2, 3}, policy \in {"balanced", "strict_multi_source"}}}
Costs == {[Point EXCEPT !.cost = cost, !.date = date, !.kind = kind] : cost \in {1, 2, 4}, date \in {"old", "new"}, kind \in {"official", "other"}}
Bundles ==
  {[Plain EXCEPT !.raw = <<a, [b EXCEPT !.id = 2, !.src = <<"y">>]>>, !.durable = <<[c EXCEPT !.id = id, !.dim = "users"]>>, !.dims = {"pricing", "users"}] :
     a \in Costs, b \in Costs, c \in {p \in Costs : p.kind = "other"}, id \in {2, 3}}
\cup {[Plain EXCEPT !.raw = <<a, [a EXCEPT !.val = 200]>>, !.durable = <<[a EXCEPT !.id = 2, !.cost = 2]>>] : a \in Costs}

Inputs == {r @@ [data |-> Collected(r)] : r \in Merging \cup Reading \cup Policies \cup Reviews \cup Bundles}
NoRun == [raw |-> <<>>]
EvidenceInit == input \in Inputs
EvidenceNext == UNCHANGED input

\* Evidence can be traced.  Merging loses no source (deduplicate_datapoints): each
\* page a usable point came from is named by a kept point of its product and
\* dimension.  A number in the report leads to its evidence (writer_self_check W3):
\* it names a source of the traceability map, in the matrix one a cell cites; once
\* claims are verified, each cited source is marked as supporting some claim.
EvidenceIsTraceable ==
  input # NoRun =>
    LET sections == ReportSections(input)
        cited == UNION {sections[s] : s \in DOMAIN sections}
    IN  /\ \A p \in ToSet(input.local) \cup ToSet(Fresh(input)) :
             \E q \in ToSet(input.data) : Pair(q) = Pair(p) /\ ToSet(p.src) \subseteq ToSet(q.src)
        /\ SelfCheck(input) = {}
        /\ \A n \in sections.matrix : \E c \in Cells(input) : TraceabilityMap(input)[n].id \in c.ids
        /\ Claims(input) # {} => cited \subseteq VerifiedSources(input)

\* A report that is not blocked has every selected pair rated, no claim of one
\* domain under the strict policy, no fact error, and a claim the evidence
\* contradicts or leaves open only if the review before has reported it already.
GateBlocks ==
  (input # NoRun /\ Gate(input) # "blocked") =>
    /\ \A pair \in Pairs(input) : \E c \in Cells(input) : Pair(c) = pair /\ c.rating = "rated"
    /\ \A c \in GateClaims(input) : input.policy = "strict_multi_source" => Cardinality(Domains(CitedBy(input, c))) # 1
    /\ FactErrors(input) = {}
    /\ \A c \in Claims(input) : ClaimStatus(input, c) # "supported" => ClaimGaps(input) \cap input.prev # {} /\ input.round >= 2

\* A bundle stays within its budget and leaves out nothing that would still have
\* fitted at its turn; of one identity it holds one item, the run's own if any.
BundleFits ==
  input # NoRun =>
    LET bundle == Bundle(input)
        Before(p) == {q \in bundle : Outranks(q, p)}
        Total(points) == MapThenSumSet(LAMBDA p : p.cost, points)
    IN  /\ Total(bundle) <= input.budget
        /\ \A p \in Candidates(input) \ bundle : Total(Before(p)) + p.cost > input.budget
        /\ \A p, q \in bundle : p.id = q.id => p = q
        /\ \A p \in bundle : p.id \in IdsOf(input.data) => p \in ToSet(input.data)

\* A claim whose number stands on the stored page of a source it cites is no fact
\* error: "must have "100M" ... in the source page text" (_check_claim_numbers).
ConfirmedIsNotFaulted ==
  input # NoRun =>
    \A c \in Cells(input) :
      (\E p \in CitedBy(input, c) : \E page \in ToSet(p.src) : c.val \in Stored(input, <<page>>))
        => ~\E g \in NumberGaps(input) : g.ids = c.ids
=============================================================================
