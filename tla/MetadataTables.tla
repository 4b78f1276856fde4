-------------------------- MODULE MetadataTables --------------------------
(***************************************************************************)
(* The OMS's integer tables for gateways, assets and instruments           *)
(* (metadata_v2.rs), built from the resolved configuration (config.rs) and *)
(* rebuilt by reload_config while orders and balances hold ids into them.  *)
(*                                                                         *)
(* A row's id is its index in a vector that only grows.  The intern table  *)
(* is append-only, so a symbol stands for its string and strings are used  *)
(* directly.  The configuration's maps are hash maps: the order in which   *)
(* new rows get their ids is open.                                         *)
(***************************************************************************)
EXTENDS Integers, Sequences, FiniteSets, Functions

CONSTANTS
    MtConfigs,     \* raw configurations: [managed, routes, gws, refdata, trading]
    MaxReloads,    \* bound: reloads of the configuration
    MaxRefs        \* bound: ids held at a time

ASSUME MtAssumption ==
    \A raw \in MtConfigs : IsFiniteSet(DOMAIN raw.gws) /\ IsFiniteSet(DOMAIN raw.refdata)

VARIABLES
    conf,   \* the ConfdataManager the tables were built from
    tab,    \* MetadataTables
    refs    \* ids that orders and balances hold, with what they were given for

MtVars == <<conf, tab, refs>>

(***************************************************************************)
(* ConfdataManager::new: routes of managed accounts, gateways with a       *)
(* route, reference data that is not disabled, a trading configuration     *)
(* for every instrument.                                                   *)
(***************************************************************************)
ConfdataManager(raw) ==
    LET routes == Restrict(raw.routes, DOMAIN raw.routes \cap raw.managed)
        gws == Restrict(raw.gws, DOMAIN raw.gws \cap Range(routes))
        enabled == {c \in DOMAIN raw.refdata : ~raw.refdata[c].disabled}
    IN  [routes |-> routes, gws |-> gws, refdata |-> Restrict(raw.refdata, enabled),
         trading |-> [c \in DOMAIN raw.trading \cup enabled |->
                         IF c \in DOMAIN raw.trading THEN raw.trading[c] ELSE "default"],
         reloads |-> 0]

\* exch_name_to_gw_keys
GwsOfVenue(c, venue) == {g \in DOMAIN c.gws : c.gws[g] = venue}

(***************************************************************************)
(* Rows keep their id while their key is configured; other keys are        *)
(* appended in the order given.                                            *)
(***************************************************************************)
Orderings(S) == {s \in [1..Cardinality(S) -> S] : IsInjective(s)}

EmptyRows == [vec |-> << >>, by |-> << >>]

StableRows(rows, want, fresh) ==
    LET n == Len(rows.vec)
        keys == DOMAIN want
        by == [k \in keys |-> IF k \in DOMAIN rows.by THEN rows.by[k]
                              ELSE n + (CHOOSE i \in DOMAIN fresh : fresh[i] = k)]
    IN  [by |-> by,
         vec |-> [i \in 1..(n + Len(fresh)) |->
                    IF \E k \in keys : by[k] = i THEN want[CHOOSE k \in keys : by[k] = i]
                    ELSE rows.vec[i]]]

GwRows(rows, c, fresh) ==
    StableRows(rows, [k \in DOMAIN c.gws |-> [key |-> k, venue |-> c.gws[k]]], fresh)

AssetsOf(c) == UNION {{c.refdata[i].base, c.refdata[i].quote} : i \in DOMAIN c.refdata}
AssetRows(rows, c, fresh) == StableRows(rows, [a \in AssetsOf(c) |-> a], fresh)

InstrumentRows(rows, c, assets, fresh) ==
    StableRows(rows, [i \in DOMAIN c.refdata |->
                        [code |-> i, exch |-> c.refdata[i].exch,
                         fund |-> assets.by[c.refdata[i].quote]]], fresh)

\* A route whose gateway is not configured is skipped.
RoutesOf(c, gws) ==
    [a \in {b \in DOMAIN c.routes : c.routes[b] \in DOMAIN gws.by} |-> gws.by[c.routes[a]]]

\* <<gateway, exchange symbol, instrument>>, rebuilt from scratch.
InstrumentByGwSymbol(old, c, gws, insts) ==
    UNION {{<<gws.by[g], c.refdata[i].exch, insts.by[i]>> :
               g \in GwsOfVenue(c, c.refdata[i].venue)} : i \in DOMAIN c.refdata}

TradingOf(c, insts) ==
    [i \in {insts.by[k] : k \in DOMAIN c.trading \cap DOMAIN insts.by} |->
        c.trading[CHOOSE k \in DOMAIN insts.by : insts.by[k] = i]]

\* The tables after a build over the rows of old, one for each iteration order.
Built(old, c) ==
    {LET gws == GwRows(old.gws, c, o[1])
         assets == AssetRows(old.assets, c, o[2])
         insts == InstrumentRows(old.insts, c, assets, o[3])
     IN  [gws |-> gws, assets |-> assets, insts |-> insts, routes |-> RoutesOf(c, gws),
          bySymbol |-> InstrumentByGwSymbol(old.bySymbol, c, gws, insts),
          trading |-> TradingOf(c, insts)] :
       o \in Orderings(DOMAIN c.gws \ DOMAIN old.gws.by)
            \X Orderings(AssetsOf(c) \ DOMAIN old.assets.by)
            \X Orderings(DOMAIN c.refdata \ DOMAIN old.insts.by)}

FromConfdata(c) ==
    Built([gws |-> EmptyRows, assets |-> EmptyRows, insts |-> EmptyRows, bySymbol |-> {}], c)

\* Mutant: a reload numbers the rows afresh.
RebuildFromConfigAfresh(old, c) == FromConfdata(c)

RebuildFromConfig(old, c) == Built(old, c)

(***************************************************************************)
(* What the OMS keeps under an id.  An order keeps its route's gateway,    *)
(* its instrument and the asset that funds it; a balance is stored under   *)
(* its asset's id or, unresolved, under its name; a position snapshot      *)
(* under the instrument that the account's gateway knows by that symbol.   *)
(***************************************************************************)
Keep(new) ==
    /\ Cardinality(refs \cup new) <= MaxRefs
    /\ refs' = refs \cup new
    /\ UNCHANGED <<conf, tab>>

ResolveOrderMeta(account, code) ==
    /\ account \in DOMAIN tab.routes
    /\ code \in DOMAIN tab.insts.by
    /\ Keep({[table |-> "gws", id |-> tab.routes[account], of |-> conf.routes[account]],
             [table |-> "insts", id |-> tab.insts.by[code], of |-> code],
             [table |-> "assets", id |-> tab.insts.vec[tab.insts.by[code]].fund,
              of |-> conf.refdata[code].quote]})

BalanceEntry(asset) ==
    /\ asset \in DOMAIN tab.assets.by
    /\ Keep({[table |-> "assets", id |-> tab.assets.by[asset], of |-> asset]})

PositionEntry(account, exch) ==
    /\ account \in DOMAIN tab.routes
    /\ \E e \in tab.bySymbol :
        /\ e[1] = tab.routes[account] /\ e[2] = exch
        /\ Keep({[table |-> "insts", id |-> e[3], of |-> tab.insts.vec[e[3]].code]})

ReloadConfig(raw) ==
    /\ conf.reloads < MaxReloads
    /\ conf' = [ConfdataManager(raw) EXCEPT !.reloads = conf.reloads + 1]
    /\ tab' \in RebuildFromConfig(tab, ConfdataManager(raw))
    /\ UNCHANGED refs

MtInit ==
    /\ \E raw \in MtConfigs : /\ conf = ConfdataManager(raw)
                              /\ tab \in FromConfdata(ConfdataManager(raw))
    /\ refs = {}

MtNext ==
    \/ \E raw \in MtConfigs : ReloadConfig(raw)
    \/ \E a \in DOMAIN conf.routes, c \in DOMAIN conf.refdata : ResolveOrderMeta(a, c)
    \/ \E asset \in AssetsOf(conf) : BalanceEntry(asset)
    \/ \E a \in DOMAIN conf.routes, c \in DOMAIN conf.refdata : PositionEntry(a, conf.refdata[c].exch)

MtSpec == MtInit /\ [][MtNext]_MtVars

-----------------------------------------------------------------------------
(***************************************************************************)
(* "Removed config entries leave their IDs allocated (no compaction) -     *)
(* existing LiveOrder references remain valid": whatever sequence of       *)
(* reloads follows, an id that an order, a balance or a position holds     *)
(* still names the gateway, asset or instrument it was given for.          *)
(***************************************************************************)
RefsKeepMeaning ==
    \A r \in refs :
        r.of = CASE r.table = "gws" -> tab.gws.vec[r.id].key
                 [] r.table = "assets" -> tab.assets.vec[r.id]
                 [] r.table = "insts" -> tab.insts.vec[r.id].code

=============================================================================
