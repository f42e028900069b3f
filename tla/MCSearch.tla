------------------------------ MODULE MCSearch ------------------------------
(* Small searches for Search: two products on one dimension of a brief, the *)
(* two queries ending in either order and answered by up to two pages of a  *)
(* model, prose with citations, or the backends behind it; one deep search  *)
(* and one with keywords.  A behaviour is one search, unchanged.            *)
EXTENDS Search
VARIABLE asked

Page == [url |-> "u", about |-> ("p" :> 2) @@ ("q" :> 0), full |-> 3, text |-> 0, snippet |-> TRUE]
SomePages == {[Page EXCEPT !.url = u, !.about = ("p" :> m[1]) @@ ("q" :> m[2]), !.full = full, !.snippet = full # 0] :
            u \in {"u", "v"}, m \in {<<2, 0>>, <<1, 2>>, <<0, 0>>}, full \in {0, 1, 3}}
Nothing == [listed |-> <<>>, cited |-> <<>>, tavily |-> <<>>, ddg |-> <<>>, error |-> FALSE, prose |-> [Page EXCEPT !.url = "", !.full = 0]]
Replies ==
  {[Nothing EXCEPT !.listed = <<p>>] : p \in SomePages}
    \cup {[Nothing EXCEPT !.listed = <<Page, p>>] : p \in {p \in SomePages : p.url = "v" /\ p.full > 0}}
    \cup {[Nothing EXCEPT !.cited = <<Page, [Page EXCEPT !.url = ""], Page, [Page EXCEPT !.url = "w"]>>, !.tavily = <<Page>>]}
    \cup {[Nothing EXCEPT !.error = e, !.tavily = t, !.ddg = <<Page>>] : e \in BOOLEAN, t \in {<<>>, <<[Page EXCEPT !.url = "t"]>>}}
Plainly == [products |-> <<"p", "q">>, dims |-> {"pricing"}, words |-> <<>>, complexity |-> "standard", provider |-> "doubao",
            tavily |-> TRUE, ddg |-> TRUE, key |-> TRUE, wanted |-> 1, top |-> 1, most |-> 1]
With(s, reply, order) == s @@ [reply |-> reply, order |-> order]
OneAnswer(s) == With(s, [query \in Queries(s) |-> [Nothing EXCEPT !.listed = <<[Page EXCEPT !.url = query]>>]], SetToSeq(Queries(s)))

Searches ==
  {With([Plainly EXCEPT !.provider = setup[1], !.key = setup[2]], reply, order) :
     setup \in {<<"doubao", TRUE>>, <<"doubao", FALSE>>, <<"qwen", TRUE>>, <<"none", TRUE>>},
     reply \in [Queries(Plainly) -> Replies], order \in SetToSeqs(Queries(Plainly))}
    \cup {OneAnswer([Plainly EXCEPT !.complexity = "deep", !.products = <<"p">>]),
          OneAnswer([Plainly EXCEPT !.dims = {}, !.complexity = "quick", !.products = <<"p">>, !.words = <<"a", "b">>])}

NoSearch == [order |-> <<>>]
SearchInit == asked \in Searches
SearchNext == UNCHANGED asked

\* What is found reaches the model (multi_search, _format_per_product_context:
\* without fair shares "the first product's long pages crowd out all other
\* products"): whatever order the queries end in, each page a query was answered
\* with is kept once, and a product that some page with content matches best has
\* a page of its share in the context.
ProductsAreShown ==
  asked # NoSearch =>
    LET pages == MultiSearch(asked)
        Share(k) == {pages[i] : i \in Assigned(asked, pages, k)}
    IN  /\ \A i, j \in DOMAIN pages : pages[i].url = pages[j].url => i = j
        /\ \A q \in Queries(asked) : \A p \in ToSet(SearchOf(asked, asked.reply[q])) : SameUrl(pages, p)
        /\ \A k \in DOMAIN asked.products :
             (\E p \in ToSet(pages) : HasContent(p) /\ Best(asked, p) = k) => SearchContext(asked) \cap Share(k) # {}
=============================================================================
