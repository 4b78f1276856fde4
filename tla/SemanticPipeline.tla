------------------------- MODULE SemanticPipeline -------------------------
(***************************************************************************)
(* The gateway's semantic pipeline (zk-gw-svc, semantic_pipeline.rs), the  *)
(* step between a venue adapter's events and NATS: p is its memory, the    *)
(* trade ids it has published and the positions it has published as        *)
(* non-zero.  Both gateways of this project, SimGateway and OkxGateway,    *)
(* publish through it.                                                     *)
(***************************************************************************)
EXTENDS Integers, Sequences, FiniteSets

NoTrade == 0

EmptyPipe == [trades |-> {}, keys |-> {}]

\* process_order_report: a trade published before is dropped from the report.
Deduped(p, r) ==
    IF r.trade # NoTrade /\ r.trade \in p.trades
    THEN [pipe |-> p, report |-> [r EXCEPT !.trade = NoTrade]]
    ELSE [pipe |-> IF r.trade = NoTrade THEN p ELSE [p EXCEPT !.trades = @ \cup {r.trade}], report |-> r]

\* Mutant: a position published as non-zero is forgotten when it disappears.
ZeroKeysForgotten(p, facts) == {}

\* process_position: keys published as non-zero and absent now.
ZeroKeys(p, facts) == p.keys \ DOMAIN facts

NonZero(facts) == {i \in DOMAIN facts : facts[i] # 0}

\* The keys remembered after the update.
TrackPositions(p, facts) == [p EXCEPT !.keys = (@ \cup NonZero(facts)) \ ZeroKeys(p, facts)]

\* What a subscriber holds after the update: u.held, with u.lastFacts the facts behind it.
PublishPositions(u, p, facts) ==
    [u EXCEPT !.held = (@ \ (ZeroKeys(p, facts) \cup DOMAIN facts)) \cup NonZero(facts),
              !.lastFacts = NonZero(facts)]

=============================================================================
