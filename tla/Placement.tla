------------------------------ MODULE Placement ------------------------------
(* Where a trade sits: firm, portfolio, desk, strategy, book, trade; the part *)
(* of a portfolio below one node; and the what-if changes of a portfolio.     *)
(* A node is named by its level and its labels, as the encoded id is.         *)
EXTENDS Pricing

Portfolio(id, firm, desk, strategy, positions) ==
    [id |-> id, firm |-> firm, desk |-> desk, strategy |-> strategy, positions |-> positions]

Levels == <<"firm", "portfolio", "desk", "strategy", "book", "trade">>
Depth(level) == CHOOSE i \in DOMAIN Levels : Levels[i] = level

resolve_desk(p, pf)     == IF p.desk # None THEN p.desk ELSE pf.desk
resolve_strategy(p, pf) == IF p.strategy # None THEN p.strategy ELSE pf.strategy

\* The labels of a trade below the portfolio, outermost first.
Labels(p, pf) == <<resolve_desk(p, pf), resolve_strategy(p, pf), p.book, p.id>>

\* A reference gives a level, and the firm, the portfolio and labels it names
\* or None.
Ref(level, labels) == [level |-> level, firm |-> None, portfolio |-> None, labels |-> labels]

Named(ref)  == Depth(ref.level) - 2
Needed(ref) == IF Named(ref) > 0 THEN 1..Named(ref) ELSE {}

\* A node's id does not join labels: a "/" inside one is escaped.
hierarchy_node_id(level, pf, labels) ==
    CASE level = "firm"      -> <<"firm", pf.firm>>
      [] level = "portfolio" -> <<"portfolio", pf.id>>
      [] OTHER               -> <<level>> \o SubSeq(labels, 1, Depth(level) - 2)

\* Fault: a position without a label of its own belongs to no node.
MatchesOwn(p, pf, ref) ==
    \A i \in Needed(ref) : <<p.desk, p.strategy, p.book, p.id>>[i] = ref.labels[i]

Matches(p, pf, ref) == \A i \in Needed(ref) : Labels(p, pf)[i] = ref.labels[i]

\* A firm or portfolio that is another's, or a label left out, is refused.
filter_positions(pf, ref) ==
    IF \/ ref.firm # None /\ ref.firm # pf.firm
       \/ ref.portfolio # None /\ ref.portfolio # pf.id
       \/ \E i \in Needed(ref) : ref.labels[i] = None
    THEN {} ELSE {SelectSeq(pf.positions, LAMBDA p : Matches(p, pf, ref))}

\* A label the reference leaves out is the one all positions share, or the
\* portfolio's own.
portfolio_at(pf, ref) ==
    {LET shared(i) == {Labels(p, pf)[i] : p \in Range(ps)}
         label(i, own) == CASE ref.labels[i] # None -> ref.labels[i]
                            [] ref.labels[i] = None /\ Cardinality(shared(i)) = 1 ->
                                  CHOOSE l \in shared(i) : TRUE
                            [] OTHER -> own
         desk     == label(1, pf.desk)
         strategy == label(2, pf.strategy)
     IN  Portfolio(hierarchy_node_id(ref.level, pf, <<desk, strategy>> \o SubSeq(ref.labels, 3, 4)),
                   pf.firm, desk, strategy, ps) :
     ps \in filter_positions(pf, ref)}

-----------------------------------------------------------------------------
(* What-if changes: a new book, or none when one change is refused.           *)

Has(ps, id) == \E i \in DOMAIN ps : ps[i].id = id
At(ps, id)  == CHOOSE i \in DOMAIN ps : ps[i].id = id

\* A change's own id wins over that of its position.
ChangeId(c) == IF c.position_id # None THEN c.position_id
               ELSE IF c.position = None THEN None ELSE c.position.id

Changed(ps, c) ==
    LET id == ChangeId(c) IN
    CASE c.operation = "add" /\ c.position # None ->
            IF Has(ps, c.position.id) THEN {} ELSE {Append(ps, c.position)}
      [] c.operation = "remove" /\ id # None ->
            IF Has(ps, id) THEN {RemoveAt(ps, At(ps, id))} ELSE {}
      [] c.operation = "modify" /\ c.position # None ->
            IF Has(ps, id) /\ (c.position.id # id => ~Has(ps, c.position.id))
            THEN {[ps EXCEPT ![At(ps, id)] = c.position]} ELSE {}
      [] OTHER -> {}

apply_what_if_changes(pf, changes) ==
    {[pf EXCEPT !.positions = ps] :
        ps \in FoldLeft(LAMBDA acc, c : UNION {Changed(x, c) : x \in acc}, {pf.positions}, changes)}
==============================================================================
