------------------------------- MODULE Search -------------------------------
(***************************************************************************)
(* The web search of a collection (tools/search.py, _run_searches), as     *)
(* functions of one search record.                                         *)
(*                                                                         *)
(* products is the sequence of target products, dims the dimensions of the *)
(* brief (none: no brief), words the first keywords of the industry.       *)
(* provider names the model provider that searches, "none" if it may not;  *)
(* tavily and ddg say whether these may, key whether Tavily has a key.     *)
(* reply holds what each backend finds for a query, order the queries as   *)
(* their threads end.  wanted, top and most are max_results_per_query,     *)
(* fetch_top_n and max_results of the complexity.                          *)
(*                                                                         *)
(* A page has a url, how well it matches each product (2: names it, 1:     *)
(* some of its words, 0), whether it has a snippet, and the length of the  *)
(* text a fetch would bring; text is 0 until it is fetched.                *)
(***************************************************************************)
EXTENDS Integers, Sequences, FiniteSets, SequencesExt, TLC

(***************************************************************************)
(* Queries: one for each product and dimension, three more for each        *)
(* product of a deep analysis, six with keywords if there is no brief.     *)
(***************************************************************************)
Templates == {"features", "pricing", "users", "market", "technology"}
Categories(s) ==
  IF s.dims # {} THEN s.dims ELSE IF s.complexity = "quick" THEN {"features", "pricing"} ELSE Templates
Deeper == {"SWOT analysis", "user reviews", "pricing tiers"}
Keywords(s) ==
  LET n == Len(s.words)
  IN  IF s.dims # {} THEN {}
      ELSE {<<s.products[1 + (i \div n)], s.words[1 + (i % n)]>> : i \in {i \in 0 .. 5 : i < n * Len(s.products)}}
Queries(s) ==
  (ToSet(s.products) \X Categories(s)) \cup Keywords(s)
    \cup (IF s.complexity = "deep" THEN ToSet(s.products) \X Deeper ELSE {})

(***************************************************************************)
(* One query.                                                              *)
(***************************************************************************)
SameUrl(pages, p) == \E q \in ToSet(pages) : q.url = p.url
AddNew(pages, p) == IF SameUrl(pages, p) THEN pages ELSE Append(pages, p)

\* A list the model wrote counts whatever its length; without one, the
\* addresses cited in its prose.
ResponsesSearch(s, r) ==
  IF r.listed # <<>> THEN r.listed
  ELSE LET cited == FoldLeft(AddNew, <<>>, SelectSeq(r.cited, LAMBDA p : p.url # ""))
       IN  SubSeq(cited, 1, IF Len(cited) < s.wanted THEN Len(cited) ELSE s.wanted)

\* Qwen's answer is one page without an address, whatever it says.
QwenSearch(r) == IF r.error THEN <<>> ELSE <<r.prose>>

ProviderSearch(s, r) ==
  CASE s.provider = "none" -> <<>>
    [] s.provider = "qwen" -> QwenSearch(r)
    [] OTHER -> IF r.error THEN <<>> ELSE ResponsesSearch(s, r)

\* The first backend that finds anything answers.
SearchOf(s, r) ==
  LET found == <<ProviderSearch(s, r), IF s.tavily /\ s.key THEN r.tavily ELSE <<>>, IF s.ddg THEN r.ddg ELSE <<>>>>
      answers == SelectSeq(found, LAMBDA f : f # <<>>)
  IN  IF answers = <<>> THEN <<>> ELSE Head(answers)

(***************************************************************************)
(* All queries: pages in the order in which their queries end, one for an  *)
(* address; the first of them are fetched, whichever query they answer.    *)
(***************************************************************************)
AddAll(acc, found) == FoldLeft(AddNew, acc, found)
Pages(s) == FoldLeft(LAMBDA acc, q : AddAll(acc, SearchOf(s, s.reply[q])), <<>>, s.order)
Fetch(s, p) == IF s.key /\ p.url # "" THEN [p EXCEPT !.text = p.full] ELSE p
MultiSearch(s) ==
  LET found == Pages(s)
  IN  [i \in DOMAIN found |-> IF i <= s.top * Len(s.order) THEN Fetch(s, found[i]) ELSE found[i]]

(***************************************************************************)
(* The context given to the model.                                         *)
(***************************************************************************)
HasContent(p) == p.text > 0 \/ p.snippet

\* Of the pages in share that have content the longest, at most s.most; of equal
\* ones those that come first, where the dealt ones are at the end of the list.
FormatContext(s, pages, share, dealt) ==
  LET full == {i \in share : HasContent(pages[i])}
      Sooner(i, j) == IF (i \in dealt) = (j \in dealt) THEN i < j ELSE j \in dealt
      Ahead(i, j) == \/ pages[i].text > pages[j].text
                     \/ pages[i].text = pages[j].text /\ Sooner(i, j)
  IN  {pages[i] : i \in {i \in full : Cardinality({j \in full : Ahead(j, i)}) < s.most}}

\* The first product a page matches best, 0 if it matches none.
Best(s, p) ==
  LET Better(i, j) == p.about[s.products[i]] > p.about[s.products[j]]
      best == CHOOSE i \in DOMAIN s.products : \A j \in DOMAIN s.products : ~ Better(j, i) /\ (j < i => Better(i, j))
  IN  IF p.about[s.products[best]] = 0 THEN 0 ELSE best

\* Pages that match no product are dealt out in turn.
Unassigned(s, pages) == {i \in DOMAIN pages : Best(s, pages[i]) = 0}
Assigned(s, pages, k) ==
  LET Turn(i) == Cardinality({j \in Unassigned(s, pages) : j < i})
  IN  {i \in DOMAIN pages : k = IF i \in Unassigned(s, pages) THEN 1 + (Turn(i) % Len(s.products)) ELSE Best(s, pages[i])}

\* Mutant: the longest pages of all products.
PerProductContextGlobal(s, pages) == FormatContext(s, pages, DOMAIN pages, {})
PerProductContext(s, pages) ==
  UNION {FormatContext(s, pages, Assigned(s, pages, k), Unassigned(s, pages)) : k \in DOMAIN s.products}

SearchContext(s) ==
  LET pages == MultiSearch(s)
  IN  IF pages = <<>> THEN {}
      ELSE IF Len(s.products) > 1 THEN PerProductContext(s, pages) ELSE FormatContext(s, pages, DOMAIN pages, {})
=============================================================================
