---------------------------- MODULE CatalogPage ----------------------------
(***************************************************************************)
(* PriceCatalogComponent: the price list, its marketplace and the rows of  *)
(* both, each asked for when the one before it has landed.  No call is     *)
(* cancelled.  Lists, marketplaces and rows on screen are named by what    *)
(* they were asked for; the error banner, which nothing clears, is left    *)
(* out, and the exports below the table are ExportWatch.                   *)
(***************************************************************************)
EXTENDS Screen

CONSTANTS ListsOf,     \* the price lists of a company, in the order shown
          MarketsOf,   \* the marketplaces of a list
          Terms,       \* texts of the search box
          TotalPages   \* of every answer

AllLists == UNION {Range(ListsOf[t]) : t \in Companies}
AllMarkets == UNION {Range(MarketsOf[l]) : l \in AllLists}

ASSUME CatalogPageAssumption ==
    /\ "" \in Terms /\ TotalPages \in Nat
    /\ DOMAIN ListsOf = Companies /\ DOMAIN MarketsOf = AllLists
    /\ \A t \in Companies : ListsOf[t] \in Seq(AllLists)
    /\ \A l \in AllLists : MarketsOf[l] \in Seq(AllMarkets)
    /\ None \notin AllLists \cup AllMarkets

VARIABLES
    view,       \* the selection and what is shown of it
    reads,      \* calls for lists, marketplaces and rows, in the order sent
    astray      \* history: of these, those that last landed late or failed

catalogPageVars == <<screenVars, company, view, reads, astray>>

Reader == UserOn("catalog")
Lands == LandsOn("catalog")

Kinds == {"lists", "markets", "rows"}
Selections == [list : AllLists \cup {None}, market : AllMarkets \cup {None},
               term : Terms, page : Nat]

-----------------------------------------------------------------------------
(* The handlers, from the view v and the calls r under way to those they     *)
(* leave: each may go on to the next.                                        *)

FirstOf(s) == IF s = <<>> THEN None ELSE Head(s)

Read(kind, v, t) == [kind |-> kind, tenant |-> t, late |-> FALSE, of |-> v.selected]

\* loadRows
LoadRows(v, r, t) ==
    IF v.selected.list = None \/ v.selected.market = None THEN [view |-> v, reads |-> r]
    ELSE [view |-> [v EXCEPT !.loading = TRUE], reads |-> Append(r, Read("rows", v, t))]

\* onMarketplaceChange
MarketChanged(v, r, t, m) ==
    LoadRows([v EXCEPT !.selected.market = m, !.selected.page = 1], r, t)

\* onListChange
ListChanged(v, r, t, l) ==
    LET w == [v EXCEPT !.selected.list = l, !.selected.market = None,
                       !.markets = None, !.rows = None]
    IN  IF l = None THEN [view |-> w, reads |-> r]
        ELSE [view |-> [w EXCEPT !.loadingMarkets = TRUE],
              reads |-> Append(r, Read("markets", w, t))]

Becomes(s) == view' = s.view /\ reads' = s.reads

-----------------------------------------------------------------------------
Unselected == [list |-> None, market |-> None, term |-> "", page |-> 1]

\* What ngOnInit leaves: the lists are asked for.
CatalogPageInit ==
    /\ view = [selected |-> Unselected, lists |-> None, markets |-> None, rows |-> None,
               pages |-> 0, loading |-> FALSE, loadingMarkets |-> FALSE]
    /\ reads = <<Read("lists", view, FirstCompany)>>
    /\ astray = {}

SelectList(l) ==
    /\ Reader
    /\ l = None \/ (view.lists # None /\ l \in Range(ListsOf[view.lists]))
    /\ Becomes(ListChanged(view, reads, company, l))
    /\ UNCHANGED <<company, astray>>

\* The control is disabled without a list and while its marketplaces are loaded.
SelectMarket(m) ==
    /\ Reader
    /\ view.selected.list # None /\ ~view.loadingMarkets
    /\ m = None \/ (view.markets # None /\ m \in Range(MarketsOf[view.markets]))
    /\ Becomes(MarketChanged(view, reads, company, m))
    /\ UNCHANGED <<company, astray>>

\* Mutation: the page is set after the rows were asked for.
Searched_Late(s) ==
    LET asked == LoadRows([view EXCEPT !.selected.term = s], reads, company)
    IN  [asked EXCEPT !.view.selected.page = 1]

Searched(s) ==
    LoadRows([view EXCEPT !.selected.term = s, !.selected.page = 1], reads, company)

OnSearch(s) ==
    /\ Reader
    /\ s # view.selected.term
    /\ Becomes(Searched(s))
    /\ UNCHANGED <<company, astray>>

RowsShown ==
    /\ ~view.loading /\ view.rows # None
    /\ view.selected.list # None /\ view.selected.market # None

TurnTo(p) ==
    /\ Reader /\ RowsShown
    /\ p \in {view.selected.page - 1, view.selected.page + 1} /\ p \in 1..view.pages
    /\ Becomes(LoadRows([view EXCEPT !.selected.page = p], reads, company))
    /\ UNCHANGED <<company, astray>>

\* The subscriber of tenantContext.changes.  The search and the page stay.
SwitchTenant(t) ==
    /\ Reader /\ t # company /\ company' = t
    /\ view' = [view EXCEPT !.selected.list = None, !.selected.market = None,
                            !.lists = None, !.markets = None, !.rows = None]
    /\ reads' = Append(reads, Read("lists", view', t))
    /\ UNCHANGED astray

-----------------------------------------------------------------------------
(* Answers.                                                                  *)

\* What the server refuses: a list of another company, or a pair unrelated.
Served(c) ==
    CASE c.kind = "lists" -> TRUE
      [] c.kind = "markets" -> c.of.list \in Range(ListsOf[c.tenant])
      [] c.kind = "rows" -> /\ c.of.list \in Range(ListsOf[c.tenant])
                            /\ c.of.market \in Range(MarketsOf[c.of.list])

Ok(c, rest) ==
    CASE c.kind = "lists" ->
            LET v == [view EXCEPT !.lists = c.tenant] IN
            IF view.selected.list \in Range(ListsOf[c.tenant]) THEN [view |-> v, reads |-> rest]
            ELSE ListChanged(v, rest, company, FirstOf(ListsOf[c.tenant]))
      [] c.kind = "markets" ->
            MarketChanged([view EXCEPT !.markets = c.of.list, !.loadingMarkets = FALSE],
                          rest, company, FirstOf(MarketsOf[c.of.list]))
      [] c.kind = "rows" ->
            [view |-> [view EXCEPT !.rows = c.of, !.pages = TotalPages, !.loading = FALSE],
             reads |-> rest]

Failed(c, rest) ==
    [view |-> CASE c.kind = "lists" -> view
                [] c.kind = "markets" -> [view EXCEPT !.loadingMarkets = FALSE]
                [] c.kind = "rows" -> [view EXCEPT !.rows = None, !.loading = FALSE],
     reads |-> rest]

ReadLands(i) ==
    LET call == reads[i]
        rest == Landed(reads, i, LAMBDA j : reads[j].kind = call.kind)
    IN
    /\ Lands
    /\ \/ /\ Served(call) /\ Becomes(Ok(call, rest))
          /\ astray' = IF call.late THEN astray \cup {call.kind} ELSE astray \ {call.kind}
       \/ Becomes(Failed(call, rest)) /\ astray' = astray \cup {call.kind}
    /\ UNCHANGED company

-----------------------------------------------------------------------------
CatalogPageNext ==
    \/ \E l \in AllLists \cup {None} : SelectList(l)
    \/ \E m \in AllMarkets \cup {None} : SelectMarket(m)
    \/ \E s \in Terms : OnSearch(s)
    \/ \E p \in {view.selected.page - 1, view.selected.page + 1} : TurnTo(p)
    \/ \E t \in Companies : SwitchTenant(t)
    \/ \E i \in DOMAIN reads : ReadLands(i)

CatalogPageSpec == CatalogPageInit /\ [][CatalogPageNext]_catalogPageVars

-----------------------------------------------------------------------------
(* Properties.                                                               *)

\* Once every call has landed, and unless the last of a kind was late or
\* failed, what is selected belongs together and to the active company, and
\* the rows on screen are those of the selection, of the search and of the page.
SelectionHoldsTogether ==
    LET s == view.selected IN
    reads = <<>> /\ astray = {} =>
        /\ view.lists = company
        /\ s.list # None => s.list \in Range(ListsOf[company]) /\ view.markets = s.list
        /\ s.list # None /\ s.market # None =>
              s.market \in Range(MarketsOf[s.list]) /\ view.rows = s
        /\ ~view.loading /\ ~view.loadingMarkets
=============================================================================
