---------------------------- MODULE ClientProofs ----------------------------
(***************************************************************************)
(* Theorems about what trading rests on: the order ids a client draws      *)
(* (SnowflakeIds), its cache of reference data (RefdataCache), its mirror  *)
(* of the registry (OmsRouting), and the OMS's metadata tables             *)
(* (MetadataTables).  The four share no state.                             *)
(***************************************************************************)
EXTENDS SnowflakeIds, RefdataCache, OmsRouting, MetadataTables, FiniteSetTheorems, TLAPS

-----------------------------------------------------------------------------
(* Sequences                                                               *)

(* An entry of a sequence belongs to the set the sequence is over.         *)
LEMMA EntryInSet ==
  ASSUME NEW S, NEW s \in Seq(S), NEW i \in DOMAIN s PROVE s[i] \in S
OBVIOUS

(* The head of a sequence is of its set, and the tail a sequence over it.  *)
LEMMA HeadTailTyped ==
  ASSUME NEW S, NEW s \in Seq(S), s # << >> PROVE Head(s) \in S /\ Tail(s) \in Seq(S)
OBVIOUS

(* One more entry of the set leaves a sequence over it.                    *)
LEMMA AppendTyped ==
  ASSUME NEW S, NEW s \in Seq(S), NEW x \in S PROVE Append(s, x) \in Seq(S)
OBVIOUS

(* A function on 1..n is a sequence.                                       *)
LEMMA FunctionIsSeq ==
  ASSUME NEW S, NEW n \in Nat, NEW f \in [1..n -> S] PROVE f \in Seq(S)
OBVIOUS

-----------------------------------------------------------------------------
(* The metadata tables.                                                    *)

(* A table of rows: every configured key has an id of its own.             *)
RowsOk(rows) ==
  /\ Len(rows.vec) \in Nat /\ DOMAIN rows.vec = 1..Len(rows.vec)
  /\ rows.by \in [DOMAIN rows.by -> 1..Len(rows.vec)]
  /\ \A k, l \in DOMAIN rows.by : rows.by[k] = rows.by[l] => k = l

(* The row of a configured key is the key's.                               *)
NamesOk(t) ==
  /\ RowsOk(t.gws) /\ RowsOk(t.assets) /\ RowsOk(t.insts)
  /\ \A k \in DOMAIN t.gws.by : t.gws.vec[t.gws.by[k]].key = k
  /\ \A k \in DOMAIN t.assets.by : t.assets.vec[t.assets.by[k]] = k
  /\ \A k \in DOMAIN t.insts.by : t.insts.vec[t.insts.by[k]].code = k

TabOk(c, t) ==
  /\ NamesOk(t)
  /\ DOMAIN t.assets.by = AssetsOf(c) /\ DOMAIN t.insts.by = DOMAIN c.refdata
  /\ \A k \in DOMAIN t.insts.by : t.insts.vec[t.insts.by[k]].fund = t.assets.by[c.refdata[k].quote]
  /\ \A a \in DOMAIN t.routes : c.routes[a] \in DOMAIN t.gws.by /\ t.routes[a] = t.gws.by[c.routes[a]]
  /\ \A e \in t.bySymbol : e[3] \in 1..Len(t.insts.vec)

(* What a reload may do to rows that exist: refresh them under their name. *)
NamesKept(t, u) ==
  /\ \A i \in 1..Len(t.gws.vec) : i \in 1..Len(u.gws.vec) /\ u.gws.vec[i].key = t.gws.vec[i].key
  /\ \A i \in 1..Len(t.assets.vec) : i \in 1..Len(u.assets.vec) /\ u.assets.vec[i] = t.assets.vec[i]
  /\ \A i \in 1..Len(t.insts.vec) : i \in 1..Len(u.insts.vec) /\ u.insts.vec[i].code = t.insts.vec[i].code

(* The row an id held by the OMS points to.                                *)
NameOf(t, r) == CASE r.table = "gws" -> t.gws.vec[r.id].key
                  [] r.table = "assets" -> t.assets.vec[r.id]
                  [] r.table = "insts" -> t.insts.vec[r.id].code

RowsOf(t, r) == CASE r.table = "gws" -> t.gws
                  [] r.table = "assets" -> t.assets
                  [] r.table = "insts" -> t.insts

RefOk(t, r) == /\ r.table \in {"gws", "assets", "insts"}
               /\ r.id \in 1..Len(RowsOf(t, r).vec)
               /\ r.of = NameOf(t, r)

MtInv == TabOk(conf, tab) /\ \A r \in refs : RefOk(tab, r)

(* An ordering of a finite set names every element of it once.             *)
LEMMA OrderingCovers ==
  ASSUME NEW S, IsFiniteSet(S), NEW f \in Orderings(S)
  PROVE  /\ Cardinality(S) \in Nat /\ f \in [1..Cardinality(S) -> S]
         /\ Len(f) = Cardinality(S)
         /\ \A x \in S : \E i \in 1..Cardinality(S) : f[i] = x
         /\ \A i, j \in 1..Cardinality(S) : f[i] = f[j] => i = j
<1> DEFINE n == Cardinality(S)
<1>1. n \in Nat
  BY FS_CardinalityType
<1> HIDE DEF n
<1>2. f \in [1..n -> S] /\ IsInjective(f)
  BY DEF Orderings, n
<1>3. f \in Injection(1..n, S)
  BY <1>2, Zenon DEF Injection
<1>4. IsFiniteSet(1..n) /\ Cardinality(1..n) = n
  BY <1>1, FS_Interval
<1>5. f \in Surjection(1..n, S)
  BY <1>3, <1>4, FS_Injection, Zenon DEF n
<1>6. \A x \in S : \E i \in 1..n : f[i] = x
  BY <1>5 DEF Surjection
<1>7. Len(f) = n
  BY <1>1, <1>2
<1>8. \A i, j \in 1..n : f[i] = f[j] => i = j
  BY <1>2, Zenon DEF IsInjective
<1> QED BY <1>1, <1>2, <1>6, <1>7, <1>8 DEF n

(* The rows r, made from rows for the keys and contents of want.           *)
Rebuilt(rows, want, r) ==
  /\ RowsOk(r) /\ DOMAIN r.by = DOMAIN want /\ Len(rows.vec) <= Len(r.vec)
  /\ \A k \in DOMAIN want : r.vec[r.by[k]] = want[k]
  /\ \A i \in 1..Len(rows.vec) :
       \/ r.vec[i] = rows.vec[i]
       \/ \E k \in DOMAIN want \cap DOMAIN rows.by : rows.by[k] = i /\ r.vec[i] = want[k]

(* StableRows keeps the ids of the keys that stay, gives new keys new ids  *)
(* and writes a row only for its own key.                                  *)
LEMMA StableRowsOk ==
  ASSUME NEW rows, RowsOk(rows), NEW want, IsFiniteSet(DOMAIN want),
         NEW fresh \in Orderings(DOMAIN want \ DOMAIN rows.by),
         NEW r, r = StableRows(rows, want, fresh)
  PROVE  Rebuilt(rows, want, r)
<1> DEFINE n == Len(rows.vec)
           keys == DOMAIN want
           new == keys \ DOMAIN rows.by
           m == Cardinality(new)
           by == [k \in keys |-> IF k \in DOMAIN rows.by THEN rows.by[k]
                                 ELSE n + (CHOOSE i \in DOMAIN fresh : fresh[i] = k)]
<1>1. IsFiniteSet(new)
  BY FS_Subset
<1>2. /\ m \in Nat /\ fresh \in [1..m -> new] /\ Len(fresh) = m
      /\ \A x \in new : \E i \in 1..m : fresh[i] = x
  <2>1. fresh \in Orderings(new)
    OBVIOUS
  <2> HIDE DEF new
  <2> QED BY <1>1, <2>1, OrderingCovers
<1>3. /\ n \in Nat /\ DOMAIN rows.vec = 1..n /\ rows.by \in [DOMAIN rows.by -> 1..n]
      /\ \A k, l \in DOMAIN rows.by : rows.by[k] = rows.by[l] => k = l
  BY DEF RowsOk
<1>4. /\ r.by = by
      /\ r.vec = [i \in 1..(n + Len(fresh)) |->
                    IF \E k \in keys : by[k] = i THEN want[CHOOSE k \in keys : by[k] = i] ELSE rows.vec[i]]
  BY DEF StableRows
<1> HIDE DEF n, m
<1>5. \A k \in new : by[k] \in n + 1..n + m /\ fresh[by[k] - n] = k
  <2> SUFFICES ASSUME NEW k \in new PROVE by[k] \in n + 1..n + m /\ fresh[by[k] - n] = k
    OBVIOUS
  <2> DEFINE i == CHOOSE x \in DOMAIN fresh : fresh[x] = k
  <2>1. i \in 1..m /\ fresh[i] = k
    BY <1>2
  <2>2. by[k] = n + i
    OBVIOUS
  <2> HIDE DEF i, by
  <2>3. by[k] - n = i
    BY <1>2, <1>3, <2>1, <2>2
  <2> QED BY <1>2, <1>3, <2>1, <2>2, <2>3
<1>6. \A k \in keys \cap DOMAIN rows.by : by[k] = rows.by[k] /\ by[k] \in 1..n
  BY <1>3
<1>7. DOMAIN by = keys
  OBVIOUS
<1> HIDE DEF by
<1>8. \A k \in keys : k \in new \/ k \in keys \cap DOMAIN rows.by
  OBVIOUS
<1>9. \A k \in keys : by[k] \in 1..n + m
  BY <1>2, <1>3, <1>5, <1>6, <1>8
<1>10. ASSUME NEW k \in keys, NEW l \in keys, by[k] = by[l] PROVE k = l
  <2>1. CASE k \in new /\ l \in new
    BY <1>5, <1>10, <2>1
  <2>2. CASE k \notin new /\ l \notin new
    BY <1>3, <1>6, <1>8, <1>10, <2>2
  <2>3. \A a \in new, b \in keys \cap DOMAIN rows.by : by[a] # by[b]
    BY <1>2, <1>3, <1>5, <1>6
  <2> QED BY <1>8, <1>10, <2>1, <2>2, <2>3
<1>11. Len(r.vec) = n + m /\ DOMAIN r.vec = 1..n + m
  BY <1>2, <1>3, <1>4
<1>12. \A k \in keys : r.vec[by[k]] = want[k]
  <2> SUFFICES ASSUME NEW k \in keys PROVE r.vec[by[k]] = want[k]
    OBVIOUS
  <2>1. \A l \in keys : by[l] = by[k] => l = k
    BY <1>10
  <2>2. (CHOOSE l \in keys : by[l] = by[k]) = k
    BY <2>1
  <2> QED BY <1>2, <1>4, <1>9, <2>2
<1>13. \A i \in 1..n : \A k \in keys : by[k] = i => k \in keys \cap DOMAIN rows.by
  BY <1>2, <1>3, <1>5, <1>8
<1>14. ASSUME NEW i \in 1..n
       PROVE  \/ r.vec[i] = rows.vec[i]
              \/ \E k \in keys \cap DOMAIN rows.by : rows.by[k] = i /\ r.vec[i] = want[k]
  <2>1. i \in 1..n + m
    BY <1>2, <1>3
  <2>2. CASE \E k \in keys : by[k] = i
    <3>1. PICK k \in keys : by[k] = i
      BY <2>2
    <3> QED BY <1>6, <1>12, <1>13, <3>1
  <2>3. CASE ~ \E k \in keys : by[k] = i
    BY <1>2, <1>4, <2>1, <2>3
  <2> QED BY <2>2, <2>3
<1>15. RowsOk(r) /\ n <= Len(r.vec)
  <2>1. r.by \in [keys -> 1..Len(r.vec)] /\ DOMAIN r.by = keys
    <3>1. by = [k \in keys |-> by[k]]
      BY <1>7 DEF by
    <3> QED BY <1>4, <1>7, <1>9, <1>11, <3>1, Zenon
  <2>2. Len(r.vec) \in Nat /\ DOMAIN r.vec = 1..Len(r.vec) /\ n <= Len(r.vec)
    BY <1>2, <1>3, <1>11
  <2> QED BY <1>4, <1>10, <2>1, <2>2, Zenon DEF RowsOk
<1> QED BY <1>4, <1>7, <1>12, <1>14, <1>15, Zenon DEF n, Rebuilt

(* The assets of a finite set of instruments are finite.                   *)
LEMMA AssetsFinite ==
  ASSUME NEW c, IsFiniteSet(DOMAIN c.refdata) PROVE IsFiniteSet(AssetsOf(c))
<1> DEFINE D == DOMAIN c.refdata
           f == [i \in D |-> {c.refdata[i].base, c.refdata[i].quote}]
           T == {{c.refdata[i].base, c.refdata[i].quote} : i \in D}
<1>1. PICK g \in Surjection(D, T) : TRUE
  <2>1. f \in Surjection(D, T)
    BY Zenon DEF Surjection
  <2> QED BY <2>1, Zenon
<1>2. IsFiniteSet(T)
  <2> HIDE DEF T
  <2> QED BY <1>1, FS_Surjection
<1>3. \A x, y : IsFiniteSet({x, y})
  <2> SUFFICES ASSUME NEW x, NEW y PROVE IsFiniteSet({x, y})
    OBVIOUS
  <2>1. IsFiniteSet({x} \cup {y})
    BY FS_Singleton, FS_AddElement, Zenon
  <2>2. {x} \cup {y} = {x, y}
    OBVIOUS
  <2> QED BY <2>1, <2>2, Zenon
<1>4. \A U \in T : IsFiniteSet(U)
  BY <1>3, Zenon
<1>5. IsFiniteSet(UNION T)
  BY <1>2, <1>4, FS_UNION, Zenon
<1> QED BY <1>5, Zenon DEF AssetsOf

(* A build over sound rows makes sound tables, and no row changes hands.   *)
LEMMA BuiltOk ==
  ASSUME NEW c, IsFiniteSet(DOMAIN c.gws), IsFiniteSet(DOMAIN c.refdata),
         NEW old, NamesOk(old), NEW u \in Built(old, c)
  PROVE  TabOk(c, u) /\ NamesKept(old, u)
<1>0. PICK o \in Orderings(DOMAIN c.gws \ DOMAIN old.gws.by)
                 \X Orderings(AssetsOf(c) \ DOMAIN old.assets.by)
                 \X Orderings(DOMAIN c.refdata \ DOMAIN old.insts.by) :
        u = LET gws == GwRows(old.gws, c, o[1])
                assets == AssetRows(old.assets, c, o[2])
                insts == InstrumentRows(old.insts, c, assets, o[3])
            IN  [gws |-> gws, assets |-> assets, insts |-> insts, routes |-> RoutesOf(c, gws),
                 bySymbol |-> InstrumentByGwSymbol(old.bySymbol, c, gws, insts),
                 trading |-> TradingOf(c, insts)]
  BY Zenon DEF Built
<1>1. /\ o[1] \in Orderings(DOMAIN c.gws \ DOMAIN old.gws.by)
      /\ o[2] \in Orderings(AssetsOf(c) \ DOMAIN old.assets.by)
      /\ o[3] \in Orderings(DOMAIN c.refdata \ DOMAIN old.insts.by)
      /\ u.gws = GwRows(old.gws, c, o[1]) /\ u.assets = AssetRows(old.assets, c, o[2])
      /\ u.insts = InstrumentRows(old.insts, c, u.assets, o[3])
      /\ u.routes = RoutesOf(c, u.gws)
      /\ u.bySymbol = InstrumentByGwSymbol(old.bySymbol, c, u.gws, u.insts)
  BY <1>0, Zenon
<1> DEFINE wantGws == [k \in DOMAIN c.gws |-> [key |-> k, venue |-> c.gws[k]]]
           wantAssets == [a \in AssetsOf(c) |-> a]
           wantInsts == [i \in DOMAIN c.refdata |->
                           [code |-> i, exch |-> c.refdata[i].exch,
                            fund |-> u.assets.by[c.refdata[i].quote]]]
<1>2. /\ u.gws = StableRows(old.gws, wantGws, o[1]) /\ u.assets = StableRows(old.assets, wantAssets, o[2])
      /\ u.insts = StableRows(old.insts, wantInsts, o[3])
  BY <1>1, Zenon DEF GwRows, AssetRows, InstrumentRows
<1>3. /\ DOMAIN wantGws = DOMAIN c.gws /\ \A k \in DOMAIN c.gws : wantGws[k].key = k
      /\ DOMAIN wantAssets = AssetsOf(c) /\ \A k \in AssetsOf(c) : wantAssets[k] = k
      /\ DOMAIN wantInsts = DOMAIN c.refdata
      /\ \A k \in DOMAIN c.refdata : /\ wantInsts[k].code = k
                                     /\ wantInsts[k].fund = u.assets.by[c.refdata[k].quote]
  BY Zenon
<1> HIDE DEF wantGws, wantAssets, wantInsts
<1>4. RowsOk(old.gws) /\ RowsOk(old.assets) /\ RowsOk(old.insts) /\ IsFiniteSet(AssetsOf(c))
  BY AssetsFinite, SMT, ZenonT(20), SMTT(30) DEF NamesOk
<1>5. Rebuilt(old.gws, wantGws, u.gws)
  <2>1. o[1] \in Orderings(DOMAIN wantGws \ DOMAIN old.gws.by) /\ IsFiniteSet(DOMAIN wantGws)
    BY <1>1, <1>3, <1>4, Zenon
  <2> QED BY <1>2, <1>4, <2>1, StableRowsOk
<1>6. Rebuilt(old.assets, wantAssets, u.assets)
  <2>1. o[2] \in Orderings(DOMAIN wantAssets \ DOMAIN old.assets.by) /\ IsFiniteSet(DOMAIN wantAssets)
    BY <1>1, <1>3, <1>4, Zenon
  <2> QED BY <1>2, <1>4, <2>1, StableRowsOk
<1>7. Rebuilt(old.insts, wantInsts, u.insts)
  <2>1. o[3] \in Orderings(DOMAIN wantInsts \ DOMAIN old.insts.by) /\ IsFiniteSet(DOMAIN wantInsts)
    BY <1>1, <1>3, <1>4, Zenon
  <2> QED BY <1>2, <1>4, <2>1, StableRowsOk
<1>8. NamesOk(u)
  <2>1. RowsOk(u.gws) /\ \A k \in DOMAIN u.gws.by : u.gws.vec[u.gws.by[k]].key = k
    BY <1>3, <1>5, Zenon DEF Rebuilt
  <2>2. RowsOk(u.assets) /\ \A k \in DOMAIN u.assets.by : u.assets.vec[u.assets.by[k]] = k
    BY <1>3, <1>6, SMT, ZenonT(20), SMTT(30) DEF Rebuilt
  <2>3. RowsOk(u.insts) /\ \A k \in DOMAIN u.insts.by : u.insts.vec[u.insts.by[k]].code = k
    BY <1>3, <1>7, SMT, ZenonT(20), SMTT(30) DEF Rebuilt
  <2> QED BY <2>1, <2>2, <2>3, Zenon DEF NamesOk
<1>9. NamesKept(old, u)
  <2>2. ASSUME NEW i \in 1..Len(old.gws.vec)
       PROVE  i \in 1..Len(u.gws.vec) /\ u.gws.vec[i].key = old.gws.vec[i].key
    <3>1. i \in 1..Len(u.gws.vec)
      <4>1. Len(old.gws.vec) \in Nat /\ Len(u.gws.vec) \in Nat /\ Len(old.gws.vec) <= Len(u.gws.vec)
        BY <1>4, <1>5, Zenon DEF RowsOk, Rebuilt
      <4> QED BY <4>1
    <3>2. CASE \E k \in DOMAIN wantGws \cap DOMAIN old.gws.by : old.gws.by[k] = i /\ u.gws.vec[i] = wantGws[k]
      <4>1. PICK k \in DOMAIN wantGws \cap DOMAIN old.gws.by : old.gws.by[k] = i /\ u.gws.vec[i] = wantGws[k]
        BY <3>2
      <4>2. old.gws.vec[i].key = k
        BY <4>1, Zenon DEF NamesOk
      <4>3. wantGws[k].key = k
        BY <1>3, <4>1
      <4> QED BY <3>1, <4>1, <4>2, <4>3
    <3>3. CASE u.gws.vec[i] = old.gws.vec[i]
      BY <3>1, <3>3, Zenon
    <3> QED BY <1>5, <3>2, <3>3, Zenon DEF Rebuilt
  <2>3. ASSUME NEW i \in 1..Len(old.assets.vec)
       PROVE  i \in 1..Len(u.assets.vec) /\ u.assets.vec[i] = old.assets.vec[i]
    <3>1. i \in 1..Len(u.assets.vec)
      <4>1. Len(old.assets.vec) \in Nat /\ Len(u.assets.vec) \in Nat /\ Len(old.assets.vec) <= Len(u.assets.vec)
        BY <1>4, <1>6, Zenon DEF RowsOk, Rebuilt
      <4> QED BY <4>1, SMT, ZenonT(20), SMTT(30)
    <3>2. CASE \E k \in DOMAIN wantAssets \cap DOMAIN old.assets.by : old.assets.by[k] = i /\ u.assets.vec[i] = wantAssets[k]
      <4>1. PICK k \in DOMAIN wantAssets \cap DOMAIN old.assets.by : old.assets.by[k] = i /\ u.assets.vec[i] = wantAssets[k]
        BY <3>2
      <4>2. old.assets.vec[i] = k
        BY <4>1, Zenon DEF NamesOk
      <4>3. wantAssets[k] = k
        BY <1>3, <4>1
      <4> QED BY <3>1, <4>1, <4>2, <4>3, SMT, ZenonT(20), SMTT(30)
    <3>3. CASE u.assets.vec[i] = old.assets.vec[i]
      BY <3>1, <3>3, Zenon
    <3> QED BY <1>6, <3>2, <3>3, Zenon DEF Rebuilt
  <2>4. ASSUME NEW i \in 1..Len(old.insts.vec)
       PROVE  i \in 1..Len(u.insts.vec) /\ u.insts.vec[i].code = old.insts.vec[i].code
    <3>1. i \in 1..Len(u.insts.vec)
      <4>1. Len(old.insts.vec) \in Nat /\ Len(u.insts.vec) \in Nat /\ Len(old.insts.vec) <= Len(u.insts.vec)
        BY <1>4, <1>7, Zenon DEF RowsOk, Rebuilt
      <4> QED BY <4>1, SMT, ZenonT(20), SMTT(30)
    <3>2. CASE \E k \in DOMAIN wantInsts \cap DOMAIN old.insts.by : old.insts.by[k] = i /\ u.insts.vec[i] = wantInsts[k]
      <4>1. PICK k \in DOMAIN wantInsts \cap DOMAIN old.insts.by : old.insts.by[k] = i /\ u.insts.vec[i] = wantInsts[k]
        BY <3>2
      <4>2. old.insts.vec[i].code = k
        BY <4>1, Zenon DEF NamesOk
      <4>3. wantInsts[k].code = k
        BY <1>3, <4>1
      <4> QED BY <3>1, <4>1, <4>2, <4>3, SMT, ZenonT(20), SMTT(30)
    <3>3. CASE u.insts.vec[i] = old.insts.vec[i]
      BY <3>1, <3>3, Zenon
    <3> QED BY <1>7, <3>2, <3>3, Zenon DEF Rebuilt
  <2> QED BY <2>2, <2>3, <2>4, Zenon DEF NamesKept
<1>10. \A k \in DOMAIN u.insts.by : u.insts.vec[u.insts.by[k]].fund = u.assets.by[c.refdata[k].quote]
  BY <1>3, <1>7, Zenon DEF Rebuilt
<1>11. \A a \in DOMAIN u.routes : c.routes[a] \in DOMAIN u.gws.by /\ u.routes[a] = u.gws.by[c.routes[a]]
  BY <1>1, Zenon DEF RoutesOf
<1>12. \A e \in u.bySymbol : e[3] \in 1..Len(u.insts.vec)
  <2> SUFFICES ASSUME NEW e \in u.bySymbol PROVE e[3] \in 1..Len(u.insts.vec)
    OBVIOUS
  <2>1. \E i \in DOMAIN c.refdata : e[3] = u.insts.by[i]
    BY <1>1, SMT, ZenonT(20), SMTT(30) DEF InstrumentByGwSymbol
  <2> QED BY <1>3, <1>7, <2>1, SMT, ZenonT(20), SMTT(30) DEF RowsOk, Rebuilt
<1> QED BY <1>3, <1>6, <1>7, <1>8, <1>9, <1>10, <1>11, <1>12, Zenon DEF TabOk, Rebuilt

(* The tables speak of the resolved configuration's finite maps.           *)
LEMMA ConfigFinite ==
  ASSUME NEW raw \in MtConfigs
  PROVE  IsFiniteSet(DOMAIN ConfdataManager(raw).gws) /\ IsFiniteSet(DOMAIN ConfdataManager(raw).refdata)
<1> DEFINE c == ConfdataManager(raw)
<1>1. IsFiniteSet(DOMAIN raw.gws) /\ IsFiniteSet(DOMAIN raw.refdata)
  BY MtAssumption
<1>2. DOMAIN c.gws \subseteq DOMAIN raw.gws /\ DOMAIN c.refdata \subseteq DOMAIN raw.refdata
  BY SMT, ZenonT(20), SMTT(30) DEF ConfdataManager, Restrict
<1> HIDE DEF c
<1>3. IsFiniteSet(DOMAIN c.gws) /\ IsFiniteSet(DOMAIN c.refdata)
  BY <1>1, <1>2, FS_Subset
<1> QED BY <1>3 DEF c

LEMMA KeepOk ==
  ASSUME MtInv, NEW new, Keep(new), \A r \in new : RefOk(tab, r) PROVE MtInv'
<1>1. refs' = refs \cup new /\ UNCHANGED <<conf, tab>>
  BY DEF Keep
<1>2. \A r \in refs' : RefOk(tab, r)
  BY <1>1 DEF MtInv
<1> QED BY <1>1, <1>2, Zenon DEF MtInv

LEMMA MetadataStep ==
  ASSUME MtInv, [MtNext]_MtVars PROVE MtInv'
<1>0. TabOk(conf, tab) /\ NamesOk(tab) /\ RowsOk(tab.gws) /\ RowsOk(tab.assets) /\ RowsOk(tab.insts)
  BY Zenon DEF MtInv, TabOk, NamesOk
<1>1. ASSUME NEW raw \in MtConfigs, ReloadConfig(raw) PROVE MtInv'
  <2> DEFINE c == ConfdataManager(raw)
  <2>1. tab' \in Built(tab, c) /\ refs' = refs /\ conf' = [c EXCEPT !.reloads = conf.reloads + 1]
    BY <1>1 DEF ReloadConfig, RebuildFromConfig
  <2>2. /\ conf'.refdata = c.refdata /\ conf'.routes = c.routes
    BY <2>1 DEF ConfdataManager
  <2>3. IsFiniteSet(DOMAIN c.gws) /\ IsFiniteSet(DOMAIN c.refdata)
    BY ConfigFinite
  <2> HIDE DEF c
  <2>4. TabOk(c, tab') /\ NamesKept(tab, tab')
    BY <1>0, <2>1, <2>3, BuiltOk, SMT, ZenonT(20), SMTT(30)
  <2>5. TabOk(conf', tab')
    BY <2>2, <2>4 DEF TabOk, AssetsOf
  <2>6. ASSUME NEW r \in refs PROVE RefOk(tab', r)
    <3>1. RefOk(tab, r)
      BY DEF MtInv
    <3>2. CASE r.table = "gws"
      BY <2>4, <3>1, <3>2 DEF RefOk, RowsOf, NameOf, NamesKept
    <3>3. CASE r.table = "assets"
      BY <2>4, <3>1, <3>3 DEF RefOk, RowsOf, NameOf, NamesKept
    <3>4. CASE r.table = "insts"
      BY <2>4, <3>1, <3>4 DEF RefOk, RowsOf, NameOf, NamesKept
    <3> QED BY <3>1, <3>2, <3>3, <3>4 DEF RefOk
  <2> QED BY <2>1, <2>5, <2>6, Zenon DEF MtInv
<1>2. ASSUME NEW account, NEW code, ResolveOrderMeta(account, code) PROVE MtInv'
  <2> DEFINE g == [table |-> "gws", id |-> tab.routes[account], of |-> conf.routes[account]]
             i == [table |-> "insts", id |-> tab.insts.by[code], of |-> code]
             a == [table |-> "assets", id |-> tab.insts.vec[tab.insts.by[code]].fund,
                   of |-> conf.refdata[code].quote]
  <2>1. account \in DOMAIN tab.routes /\ code \in DOMAIN tab.insts.by /\ Keep({g, i, a})
    BY <1>2, Zenon DEF ResolveOrderMeta
  <2>2. conf.refdata[code].quote \in DOMAIN tab.assets.by
    <3>1. DOMAIN tab.assets.by = AssetsOf(conf) /\ DOMAIN tab.insts.by = DOMAIN conf.refdata
      BY <1>0, Zenon DEF TabOk
    <3>2. code \in DOMAIN conf.refdata
      BY <2>1, <3>1, Zenon
    <3>3. conf.refdata[code].quote \in AssetsOf(conf)
      BY <3>2 DEF AssetsOf
    <3> QED BY <3>1, <3>3, Zenon
  <2>3. /\ tab.gws.by[conf.routes[account]] \in 1..Len(tab.gws.vec) /\ tab.insts.by[code] \in 1..Len(tab.insts.vec)
        /\ tab.assets.by[conf.refdata[code].quote] \in 1..Len(tab.assets.vec)
        /\ tab.routes[account] = tab.gws.by[conf.routes[account]]
        /\ tab.insts.vec[tab.insts.by[code]].fund = tab.assets.by[conf.refdata[code].quote]
    BY <1>0, <2>1, <2>2, Zenon DEF TabOk, RowsOk
  <2>4. /\ tab.gws.vec[tab.routes[account]].key = conf.routes[account]
        /\ tab.insts.vec[tab.insts.by[code]].code = code
        /\ tab.assets.vec[tab.insts.vec[tab.insts.by[code]].fund] = conf.refdata[code].quote
    <3>1. conf.routes[account] \in DOMAIN tab.gws.by
      BY <1>0, <2>1, Zenon DEF TabOk
    <3>2. /\ tab.gws.vec[tab.gws.by[conf.routes[account]]].key = conf.routes[account]
          /\ tab.assets.vec[tab.assets.by[conf.refdata[code].quote]] = conf.refdata[code].quote
          /\ tab.insts.vec[tab.insts.by[code]].code = code
      BY <1>0, <2>1, <2>2, <3>1, Zenon DEF NamesOk
    <3> QED BY <2>3, <3>2, Zenon
  <2>5. RefOk(tab, g)
    BY <2>3, <2>4, Zenon DEF RefOk, RowsOf, NameOf
  <2>6. RefOk(tab, i)
    BY <2>3, <2>4, Zenon DEF RefOk, RowsOf, NameOf
  <2>7. RefOk(tab, a)
    BY <2>3, <2>4, Zenon DEF RefOk, RowsOf, NameOf
  <2> HIDE DEF g, i, a
  <2>8. \A r \in {g, i, a} : RefOk(tab, r)
    BY <2>5, <2>6, <2>7
  <2> QED BY <2>1, <2>8, KeepOk
<1>3. ASSUME NEW asset, BalanceEntry(asset) PROVE MtInv'
  <2> DEFINE a == [table |-> "assets", id |-> tab.assets.by[asset], of |-> asset]
  <2>1. asset \in DOMAIN tab.assets.by /\ Keep({a})
    BY <1>3, Zenon DEF BalanceEntry
  <2>2. tab.assets.by[asset] \in 1..Len(tab.assets.vec) /\ tab.assets.vec[tab.assets.by[asset]] = asset
    BY <1>0, <2>1, Zenon DEF NamesOk, RowsOk
  <2>3. RefOk(tab, a)
    BY <2>2 DEF RefOk, RowsOf, NameOf
  <2> HIDE DEF a
  <2>4. \A r \in {a} : RefOk(tab, r)
    BY <2>3
  <2> QED BY <2>1, <2>4, KeepOk
<1>4. ASSUME NEW account, NEW venue, PositionEntry(account, venue) PROVE MtInv'
  <2>1. PICK e \in tab.bySymbol : Keep({[table |-> "insts", id |-> e[3], of |-> tab.insts.vec[e[3]].code]})
    BY <1>4, Zenon DEF PositionEntry
  <2> DEFINE p == [table |-> "insts", id |-> e[3], of |-> tab.insts.vec[e[3]].code]
  <2>2. e[3] \in 1..Len(tab.insts.vec)
    BY <1>0 DEF TabOk
  <2>3. RefOk(tab, p)
    BY <2>2 DEF RefOk, RowsOf, NameOf
  <2>4. Keep({p})
    BY <2>1
  <2> HIDE DEF p
  <2>5. \A r \in {p} : RefOk(tab, r)
    BY <2>3
  <2> QED BY <2>4, <2>5, KeepOk
<1>5. CASE UNCHANGED MtVars
  BY <1>5, Zenon DEF MtVars, MtInv
<1> QED BY <1>1, <1>2, <1>3, <1>4, <1>5, Zenon DEF MtNext

(* Whatever configurations are loaded one after the other, an id that an   *)
(* order, a balance or a position holds names what it was given for.       *)
THEOREM HeldIdsKeepMeaning == MtSpec => []RefsKeepMeaning
<1>1. MtInit => MtInv
  <2> SUFFICES ASSUME MtInit PROVE MtInv
    OBVIOUS
  <2> DEFINE empty == [gws |-> EmptyRows, assets |-> EmptyRows, insts |-> EmptyRows, bySymbol |-> {}]
  <2>1. PICK raw \in MtConfigs : /\ conf = ConfdataManager(raw) /\ tab \in Built(empty, ConfdataManager(raw))
    BY DEF MtInit, FromConfdata
  <2>2. /\ empty.gws = EmptyRows /\ empty.assets = EmptyRows /\ empty.insts = EmptyRows
    OBVIOUS
  <2>3. RowsOk(EmptyRows) /\ DOMAIN EmptyRows.by = {}
    BY DEF EmptyRows, RowsOk
  <2> HIDE DEF empty
  <2>4. NamesOk(empty)
    BY <2>2, <2>3, Zenon DEF NamesOk
  <2>5. TabOk(conf, tab)
    BY <2>1, <2>4, BuiltOk, ConfigFinite
  <2> QED BY <2>5 DEF MtInit, MtInv
<1>2. MtInv /\ [MtNext]_MtVars => MtInv'
  BY MetadataStep
<1>3. MtInv => RefsKeepMeaning
  BY Zenon DEF MtInv, RefOk, NameOf, RefsKeepMeaning
<1> QED BY <1>1, <1>2, <1>3, PTL DEF MtSpec

-----------------------------------------------------------------------------
(* Order ids.  A generator used by one caller at a time hands out          *)
(* increasing ids, for every number of ids, every pace of the clock and    *)
(* every MAX_SEQUENCE that leaves room in the u16 for the number at which  *)
(* the caller starts to wait.  Two callers at a time are outside the       *)
(* theorem: the one that claims a millisecond resets the sequence in a     *)
(* later step, and numbers handed out in between come out again.           *)

OneCaller == \A c, d \in Caller : c = d

(* MAX_SEQUENCE + 1, reached before the caller waits, fits the AtomicU16.  *)
RoomInWord == MaxSequence < 65535

IdTypes ==
  /\ clock \in Nat /\ lastMs \in Nat /\ sequence \in Nat
  /\ at \in [Caller -> {"clock", "load", "claim", "reset", "add", "spin"}]
  /\ nowMs \in [Caller -> Nat] /\ last \in [Caller -> Nat]
  /\ issued \in Seq([ms : Nat, seq : Nat])

(* What the caller's local variables say of the shared ones at each step.  *)
(* The last conjunct of each line is why Add never runs past MAX_SEQUENCE: *)
(* a caller that exhausted the sequence only comes back in a later         *)
(* millisecond.                                                            *)
Local(c) ==
  /\ at[c] = "clock" => (clock = lastMs => sequence <= MaxSequence)
  /\ at[c] = "load" => nowMs[c] >= lastMs /\ (nowMs[c] = lastMs => sequence <= MaxSequence)
  /\ at[c] = "claim" => last[c] = lastMs /\ nowMs[c] > lastMs
  /\ at[c] = "reset" => nowMs[c] = lastMs
  /\ at[c] = "add" => nowMs[c] = lastMs /\ sequence <= MaxSequence
  /\ nowMs[c] <= clock

(* Every id issued lies before the next one that Add or Reset can issue.   *)
Behind(i) ==
  \/ i.ms < lastMs
  \/ i.ms = lastMs /\ i.seq <= sequence /\ \A c \in Caller : at[c] # "reset"

IdInv ==
  /\ IdTypes
  /\ lastMs <= clock /\ sequence <= MaxSequence + 1
  /\ \A c \in Caller : Local(c)
  /\ \A i \in DOMAIN issued : Behind(issued[i])
  /\ IdsIncrease

(* A new id that lies after everything issued keeps the ids increasing.    *)
LEMMA AppendIncreases ==
  ASSUME NEW s \in Seq([ms : Nat, seq : Nat]), NEW x \in [ms : Nat, seq : Nat],
         \A i, j \in DOMAIN s : i < j => Before(s[i], s[j]),
         \A i \in DOMAIN s : Before(s[i], x)
  PROVE  /\ Append(s, x) \in Seq([ms : Nat, seq : Nat])
         /\ DOMAIN Append(s, x) = 1..(Len(s) + 1)
         /\ \A i \in DOMAIN s : Append(s, x)[i] = s[i]
         /\ Append(s, x)[Len(s) + 1] = x
         /\ \A i, j \in DOMAIN Append(s, x) : i < j => Before(Append(s, x)[i], Append(s, x)[j])
<1>1. DOMAIN s = 1..Len(s) /\ Len(s) \in Nat
  OBVIOUS
<1>2. /\ Append(s, x) \in Seq([ms : Nat, seq : Nat])
      /\ DOMAIN Append(s, x) = 1..(Len(s) + 1)
      /\ \A i \in DOMAIN s : Append(s, x)[i] = s[i]
      /\ Append(s, x)[Len(s) + 1] = x
  BY <1>1
<1>3. SUFFICES ASSUME NEW i \in DOMAIN Append(s, x), NEW j \in DOMAIN Append(s, x), i < j
               PROVE  Before(Append(s, x)[i], Append(s, x)[j])
  BY <1>2, Zenon
<1>4. i \in DOMAIN s
  BY <1>1, <1>2, <1>3
<1>5. CASE j \in DOMAIN s
  BY <1>2, <1>3, <1>4, <1>5
<1>6. CASE j \notin DOMAIN s
  <2>1. j = Len(s) + 1
    BY <1>1, <1>2, <1>6
  <2> QED BY <1>2, <1>4, <2>1
<1> QED BY <1>5, <1>6

(* The invariant holds initially: nothing is issued, the clock is past 0.  *)
LEMMA IdInitInv == IdInit => IdInv
BY IdsAssumption DEF IdInit, IdInv, IdTypes, Local, Behind, IdsIncrease

(* The fields of an issued id are numbers.                                 *)
LEMMA IssuedNumbers ==
  ASSUME IdTypes
  PROVE  \A i \in DOMAIN issued : issued[i].ms \in Nat /\ issued[i].seq \in Nat
<1> SUFFICES ASSUME NEW i \in DOMAIN issued
             PROVE  issued[i].ms \in Nat /\ issued[i].seq \in Nat
  OBVIOUS
<1>1. issued \in Seq([ms : Nat, seq : Nat])
  BY DEF IdTypes
<1>2. issued[i] \in [ms : Nat, seq : Nat]
  BY <1>1, EntryInSet, Zenon
<1> QED BY <1>2

(* Issuing the id of the current millisecond and the new sequence number   *)
(* keeps the order, if everything issued lies before that id.              *)
LEMMA IssueKeepsOrder ==
  ASSUME IdTypes, IdsIncrease, NEW x \in [ms : Nat, seq : Nat],
         issued' = Append(issued, x), lastMs' = lastMs,
         x.ms = lastMs, x.seq = sequence',
         \A d \in Caller : at'[d] # "reset",
         \A i \in DOMAIN issued : Before(issued[i], x)
  PROVE  /\ issued' \in Seq([ms : Nat, seq : Nat])
         /\ (\A i \in DOMAIN issued : Behind(issued[i]))'
         /\ IdsIncrease'
<1>1. issued \in Seq([ms : Nat, seq : Nat])
  BY DEF IdTypes
<1>2. \A i, j \in DOMAIN issued : i < j => Before(issued[i], issued[j])
  BY DEF IdsIncrease
<1>3. /\ issued' \in Seq([ms : Nat, seq : Nat])
      /\ DOMAIN issued' = 1..(Len(issued) + 1)
      /\ \A i \in DOMAIN issued : issued'[i] = issued[i]
      /\ issued'[Len(issued) + 1] = x
      /\ \A i, j \in DOMAIN issued' : i < j => Before(issued'[i], issued'[j])
  BY <1>1, <1>2, AppendIncreases, Zenon
<1>4. ASSUME NEW i \in DOMAIN issued' PROVE Behind(issued[i])'
  <2>1. CASE i \in DOMAIN issued
    <3>1. Before(issued'[i], x)
      BY <1>3, <2>1
    <3>2. issued'[i].ms \in Nat /\ issued'[i].seq \in Nat
      BY <1>3, <2>1, IssuedNumbers
    <3> QED BY <3>1, <3>2 DEF Before, Behind
  <2>2. CASE i \notin DOMAIN issued
    <3>1. i = Len(issued) + 1
      BY <1>1, <1>3, <1>4, <2>2
    <3>2. issued'[i] = x
      BY <1>3, <3>1
    <3> QED BY <3>2 DEF Behind
  <2> QED BY <2>1, <2>2
<1> QED BY <1>3, <1>4, Zenon DEF IdsIncrease

(* Below 2^16 the u16 does not wrap.                                       *)
LEMMA SmallRemainder == ASSUME NEW n \in Nat, n < 65536 PROVE n % 65536 = n
BY SMT, SMTT(30)

(* The caller's steps.                                                     *)
LEMMA CallerKeepsInv ==
  ASSUME OneCaller, RoomInWord, IdInv, NEW c \in Caller, CallerStep(c)
  PROVE  IdInv'
<1> USE IdsAssumption
<1>0. /\ \A d \in Caller : d = c
      /\ IdTypes /\ IdsIncrease /\ Local(c)
      /\ \A i \in DOMAIN issued : Behind(issued[i])
      /\ \A i \in DOMAIN issued : issued[i].ms \in Nat /\ issued[i].seq \in Nat
  BY IssuedNumbers, SMT, ZenonT(20), SMTT(30) DEF OneCaller, IdInv
<1>1. CASE ReadClock(c)
  <2>1. IdTypes' /\ lastMs' <= clock' /\ sequence' <= MaxSequence + 1
    BY <1>0, <1>1, SMT, ZenonT(20), SMTT(30) DEF ReadClock, Goto, IdInv, IdTypes
  <2>2. Local(c)'
    <3>1. /\ at[c] = "clock" /\ at'[c] = "load" /\ nowMs'[c] = clock
          /\ UNCHANGED <<clock, lastMs, sequence>>
      BY <1>0, <1>1, Zenon DEF ReadClock, Goto, IdTypes
    <3>2. clock \in Nat /\ lastMs \in Nat /\ lastMs <= clock /\ (clock = lastMs => sequence <= MaxSequence)
      BY <1>0, <3>1, Zenon DEF IdInv, IdTypes, Local
    <3>3. clock >= lastMs /\ clock <= clock
      BY <3>2, SMT, ZenonT(20), SMTT(30)
    <3> QED BY <3>1, <3>2, <3>3 DEF Local
  <2>3. (\A i \in DOMAIN issued : Behind(issued[i]))'
    BY <1>0, <1>1 DEF ReadClock, Goto, IdTypes, Behind
  <2> QED BY <1>0, <1>1, <2>1, <2>2, <2>3, SMT, ZenonT(20), SMTT(30) DEF ReadClock, IdInv, IdsIncrease
<1>2. CASE LoadLast(c)
  <2>1. IdTypes' /\ lastMs' <= clock' /\ sequence' <= MaxSequence + 1
    BY <1>0, <1>2, Zenon DEF LoadLast, Goto, IdInv, IdTypes
  <2>2. Local(c)'
    <3>1. /\ at[c] = "load" /\ at'[c] = (IF nowMs[c] > lastMs THEN "claim" ELSE "add")
          /\ last'[c] = lastMs /\ UNCHANGED <<clock, lastMs, sequence, nowMs>>
      BY <1>0, <1>2, Zenon DEF LoadLast, Goto, IdTypes
    <3>2. /\ nowMs[c] >= lastMs /\ nowMs[c] <= clock
          /\ nowMs[c] = lastMs => sequence <= MaxSequence
      BY <1>0, <3>1, Zenon DEF Local
    <3>3. nowMs[c] \in Nat /\ lastMs \in Nat
      BY <1>0, Zenon DEF IdTypes
    <3>4. CASE nowMs[c] > lastMs
      <4>1. at'[c] = "claim"
        BY <3>1, <3>4, SMT, ZenonT(20), SMTT(30)
      <4> QED BY <3>1, <3>2, <3>4, <4>1, ZenonT(20) DEF Local
    <3>5. CASE ~(nowMs[c] > lastMs)
      <4>1. at'[c] = "add" /\ nowMs[c] = lastMs
        BY <3>1, <3>2, <3>3, <3>5
      <4> QED BY <3>1, <3>2, <4>1, SMT, ZenonT(20), SMTT(30) DEF Local
    <3> QED BY <3>4, <3>5
  <2>3. (\A i \in DOMAIN issued : Behind(issued[i]))'
    BY <1>0, <1>2, Zenon DEF LoadLast, Goto, IdTypes, Behind
  <2> QED BY <1>0, <1>2, <2>1, <2>2, <2>3, Zenon DEF LoadLast, IdInv, IdsIncrease
<1>3. CASE Claim(c)
  <2>1. lastMs = last[c] /\ lastMs' = nowMs[c] /\ at' = [at EXCEPT ![c] = "reset"] /\ nowMs[c] > lastMs
    BY <1>0, <1>3, Zenon DEF Claim, Goto, Local
  <2>2. IdTypes' /\ lastMs' <= clock' /\ sequence' <= MaxSequence + 1
    BY <1>0, <1>3, <2>1, ZenonT(30) DEF Claim, Goto, IdInv, IdTypes, Local
  <2>3. Local(c)'
    BY <1>0, <1>3, <2>1, ZenonT(30) DEF Claim, Goto, IdInv, IdTypes, Local
  <2>4. ASSUME NEW i \in DOMAIN issued PROVE issued[i].ms < lastMs'
    <3>1. Behind(issued[i]) /\ issued[i].ms \in Nat
      BY <1>0, ZenonT(20)
    <3>2. lastMs \in Nat /\ lastMs' \in Nat /\ lastMs < lastMs'
      BY <1>0, <2>1, ZenonT(30) DEF IdTypes
    <3>3. issued[i].ms < lastMs \/ issued[i].ms = lastMs
      BY <3>1 DEF Behind
    <3> QED BY <3>1, <3>2, <3>3
  <2>5. (\A i \in DOMAIN issued : Behind(issued[i]))'
    BY <1>3, <2>4, Zenon DEF Claim, Behind
  <2> QED BY <1>0, <1>3, <2>2, <2>3, <2>5, ZenonT(30) DEF Claim, IdInv, IdsIncrease
<1>4. CASE Reset(c)
  <2> DEFINE x == [ms |-> nowMs[c], seq |-> 0]
  <2>1. x \in [ms : Nat, seq : Nat] /\ x.ms = lastMs /\ x.seq = sequence' /\ lastMs' = lastMs
    BY <1>0, <1>4, ZenonT(20) DEF Reset, IdTypes, Local
  <2>2. \A i \in DOMAIN issued : issued[i].ms < lastMs
    BY <1>0, <1>4, Zenon DEF Reset, Behind
  <2>3. \A i \in DOMAIN issued : Before(issued[i], x)
    BY <2>1, <2>2, ZenonT(20) DEF Before
  <2>4. issued' = Append(issued, x) /\ \A d \in Caller : at'[d] # "reset"
    BY <1>0, <1>4, Zenon DEF Reset, Return, Goto, IdTypes
  <2> HIDE DEF x
  <2>5. /\ issued' \in Seq([ms : Nat, seq : Nat])
        /\ (\A i \in DOMAIN issued : Behind(issued[i]))'
        /\ IdsIncrease'
    BY <1>0, <2>1, <2>3, <2>4, IssueKeepsOrder, ZenonT(20)
  <2>6. IdTypes' /\ lastMs' <= clock' /\ sequence' <= MaxSequence + 1
    <3>1. 0 \in Nat /\ 0 <= MaxSequence + 1
      BY IdsAssumption DEF IdsAssumption
    <3>2. at' \in [Caller -> {"clock", "load", "claim", "reset", "add", "spin"}]
      BY <1>0, <1>4, ZenonT(30) DEF Reset, Return, Goto, IdTypes
    <3> QED BY <1>0, <1>4, <2>5, <3>1, <3>2, Zenon DEF Reset, IdInv, IdTypes
  <2>7. Local(c)'
    <3>1. at'[c] = "clock" /\ sequence' = 0 /\ UNCHANGED <<clock, lastMs, nowMs>>
      BY <1>0, <1>4, Zenon DEF Reset, Return, Goto, IdTypes
    <3>2. 0 <= MaxSequence
      BY IdsAssumption DEF IdsAssumption
    <3>3. nowMs[c] <= clock
      BY <1>0, Zenon DEF Local
    <3> QED BY <3>1, <3>2, <3>3, Zenon DEF Local
  <2> QED BY <1>0, <2>5, <2>6, <2>7, ZenonT(30) DEF IdInv
<1>5. CASE Add(c)
  <2>1. sequence <= MaxSequence /\ nowMs[c] = lastMs /\ at[c] = "add"
    <3>1. at[c] = "add"
      BY <1>5, SMT, SMTT(30) DEF Add
    <3> QED BY <1>0, <3>1, Zenon DEF Local
  <2>2. (sequence + 1) % 65536 = sequence + 1
    <3>1. sequence \in Nat /\ MaxSequence \in Nat /\ MaxSequence < 65535
      BY <1>0, IdsAssumption, SMT, SMTT(30) DEF IdTypes, RoomInWord, IdsAssumption
    <3>2. sequence + 1 \in Nat /\ sequence + 1 < 65536
      BY <2>1, <3>1, SMT, SMTT(30)
    <3> QED BY <3>2, SmallRemainder, SMT, SMTT(30)
  <2>3. sequence' = sequence + 1 /\ lastMs' = lastMs /\ clock' = clock /\ nowMs' = nowMs /\ last' = last
    BY <1>5, <2>2, SMT, SMTT(30) DEF Add
  <2>4. CASE sequence + 1 <= MaxSequence
    <3> DEFINE x == [ms |-> nowMs[c], seq |-> sequence + 1]
    <3>1. x \in [ms : Nat, seq : Nat] /\ x.ms = lastMs /\ x.seq = sequence'
      BY <1>0, <2>1, <2>3 DEF IdTypes
    <3>2. issued' = Append(issued, x) /\ at' = [at EXCEPT ![c] = "clock"]
      BY <1>5, <2>2, <2>4, SMT, SMTT(30) DEF Add, Return, Goto
    <3>3. ASSUME NEW i \in DOMAIN issued PROVE Before(issued[i], x)
      <4>1. issued[i].seq \in Nat /\ sequence \in Nat /\ Behind(issued[i])
        BY <1>0, ZenonT(20) DEF IdTypes
      <4>2. \/ issued[i].ms < lastMs
            \/ issued[i].ms = lastMs /\ issued[i].seq <= sequence
        BY <4>1 DEF Behind
      <4>3. issued[i].seq <= sequence => issued[i].seq < sequence + 1
        BY <4>1
      <4>4. x.ms = lastMs /\ x.seq = sequence + 1
        BY <2>3, <3>1, Zenon
      <4> QED BY <4>2, <4>3, <4>4, Zenon DEF Before
    <3>4. \A d \in Caller : at'[d] # "reset"
      BY <1>0, <3>2, ZenonT(30) DEF IdTypes
    <3> HIDE DEF x
    <3>5. /\ issued' \in Seq([ms : Nat, seq : Nat])
          /\ (\A i \in DOMAIN issued : Behind(issued[i]))'
          /\ IdsIncrease'
      BY <1>0, <2>3, <3>1, <3>2, <3>3, <3>4, IssueKeepsOrder, ZenonT(20)
    <3>6. IdTypes' /\ lastMs' <= clock' /\ sequence' <= MaxSequence + 1
      <4>1. sequence \in Nat /\ lastMs <= clock /\ MaxSequence \in Nat
        BY <1>0, IdsAssumption, Zenon DEF IdInv, IdTypes, IdsAssumption
      <4>2. sequence + 1 \in Nat /\ sequence + 1 <= MaxSequence + 1
        BY <2>1, <4>1
      <4>3. at' \in [Caller -> {"clock", "load", "claim", "reset", "add", "spin"}]
        BY <1>0, <3>2, SMT, ZenonT(20), SMTT(30) DEF IdTypes
      <4> QED BY <1>0, <2>3, <3>5, <4>1, <4>2, <4>3, Zenon DEF IdTypes
    <3>7. Local(c)'
      BY <1>0, <2>1, <2>3, <2>4, <3>2 DEF IdTypes, Local
    <3> QED BY <1>0, <3>5, <3>6, <3>7, ZenonT(20) DEF IdInv
  <2>5. CASE ~(sequence + 1 <= MaxSequence)
    <3>1. issued' = issued /\ at' = [at EXCEPT ![c] = "spin"]
      BY <1>5, <2>2, <2>5, SMT, SMTT(30) DEF Add, Goto
    <3>2. IdTypes' /\ lastMs' <= clock' /\ sequence' <= MaxSequence + 1
      <4>1. sequence \in Nat /\ lastMs <= clock /\ MaxSequence \in Nat
        BY <1>0, IdsAssumption, Zenon DEF IdInv, IdTypes, IdsAssumption
      <4>2. sequence + 1 \in Nat /\ sequence + 1 <= MaxSequence + 1
        BY <2>1, <4>1
      <4>3. at' \in [Caller -> {"clock", "load", "claim", "reset", "add", "spin"}]
        BY <1>0, <3>1 DEF IdTypes
      <4> QED BY <1>0, <2>3, <3>1, <4>1, <4>2, <4>3, Zenon DEF IdTypes
    <3>3. Local(c)'
      BY <1>0, <2>1, <2>3, <3>1, Zenon DEF IdTypes, Local
    <3>4. ASSUME NEW i \in DOMAIN issued PROVE Behind(issued[i])'
      <4>1. issued[i].seq \in Nat /\ sequence \in Nat /\ Behind(issued[i])
        BY <1>0 DEF IdTypes
      <4>2. \/ issued[i].ms < lastMs
            \/ issued[i].ms = lastMs /\ issued[i].seq <= sequence + 1
        BY <4>1 DEF Behind
      <4>3. \A d \in Caller : at'[d] # "reset"
        BY <1>0, <3>1 DEF IdTypes
      <4> QED BY <2>3, <3>1, <4>2, <4>3, Zenon DEF Behind
    <3> QED BY <1>0, <3>1, <3>2, <3>3, <3>4, Zenon DEF IdInv, IdsIncrease
  <2> QED BY <2>4, <2>5
<1>6. CASE Spin(c)
  <2>1. IdTypes' /\ lastMs' <= clock' /\ sequence' <= MaxSequence + 1
    BY <1>0, <1>6 DEF Spin, Goto, IdInv, IdTypes
  <2>2. Local(c)'
    <3>1. clock > lastMs /\ at'[c] = "clock" /\ UNCHANGED <<clock, lastMs, sequence, nowMs, last>>
      BY <1>0, <1>6, Zenon DEF Spin, Goto, IdTypes
    <3>2. clock \in Nat /\ lastMs \in Nat /\ nowMs[c] <= clock
      BY <1>0, Zenon DEF IdTypes, Local
    <3>3. clock # lastMs
      BY <3>1, <3>2
    <3> QED BY <3>1, <3>2, <3>3 DEF Local
  <2>3. (\A i \in DOMAIN issued : Behind(issued[i]))'
    BY <1>0, <1>6 DEF Spin, Goto, IdTypes, Behind
  <2> QED BY <1>0, <1>6, <2>1, <2>2, <2>3, ZenonT(30) DEF Spin, IdInv, IdsIncrease
<1> QED BY <1>1, <1>2, <1>3, <1>4, <1>5, <1>6 DEF CallerStep

(* A clock tick only widens the bounds.                                    *)
LEMMA TickKeepsInv == ASSUME IdInv, Tick PROVE IdInv'
<1>1. IdTypes' /\ lastMs' <= clock' /\ sequence' <= MaxSequence + 1
  BY DEF Tick, IdInv, IdTypes
<1>2. \A c \in Caller : Local(c)'
  BY IdsAssumption DEF Tick, IdInv, IdTypes, Local
<1>3. (\A i \in DOMAIN issued : Behind(issued[i]))'
  BY DEF Tick, IdInv, Behind
<1> QED BY <1>1, <1>2, <1>3 DEF Tick, IdInv, IdsIncrease

(* next_id(), called by one thread at a time, returns increasing ids: no   *)
(* order id comes out twice, however the calls fall on the milliseconds.   *)
THEOREM IdsAlwaysIncrease ==
  ASSUME OneCaller, RoomInWord
  PROVE  IdSpec => []IdsIncrease
<1>1. IdInv /\ [IdNext]_IdVars => IdInv'
  <2> SUFFICES ASSUME IdInv, [IdNext]_IdVars PROVE IdInv'
    OBVIOUS
  <2>1. CASE Tick
    BY <2>1, TickKeepsInv
  <2>2. ASSUME NEW c \in Caller, CallerStep(c) PROVE IdInv'
    BY <2>2, CallerKeepsInv, ZenonT(20)
  <2>3. CASE UNCHANGED IdVars
    BY <2>3 DEF IdVars, IdInv, IdTypes, Local, Behind, IdsIncrease
  <2> QED BY <2>1, <2>2, <2>3 DEF IdNext
<1>2. IdInv => IdsIncrease
  BY DEF IdInv
<1> QED BY <1>1, <1>2, IdInitInv, PTL DEF IdSpec

-----------------------------------------------------------------------------
(* The reference data cache, for any number of clients and instruments.    *)

(* What the cache, the tasks and the service hold.                        *)
CacheEntry == [ver : Nat, valid : BOOLEAN, deprecated : BOOLEAN]
Notice == [inst : Inst, deprecate : BOOLEAN]
Calling == [at : {"lookup", "rpc"}, inst : Inst, data : Nat \cup {NoData}]
Writing == [at : {"upsert"}, inst : Inst, data : Nat]

RefTypes ==
  /\ version \in [Inst -> Nat] /\ notices \in Seq(Notice)
  /\ entry \in [Inst -> CacheEntry \cup {NoData}]
  /\ doing \in [Task -> {Idle} \cup Calling \cup Writing]
  /\ rpcErrors \in Nat

(* An entry that is neither usable nor deprecated is being reloaded by the *)
(* invalidation task, unless a call has failed.                            *)
Usable(i) == entry[i] # NoData => entry[i].valid # entry[i].deprecated
Reloading(i) == doing[Reloader].at \in {"lookup", "rpc", "upsert"} /\ doing[Reloader].inst = i

Covered(i) == Usable(i) \/ (Reloading(i) /\ ~entry[i].deprecated)

RefInv ==
  /\ RefTypes
  /\ rpcErrors = 0 => \A i \in Inst : Covered(i)

LEMMA RefInitInv == RefInit => RefInv
<1> SUFFICES ASSUME RefInit PROVE RefInv
  OBVIOUS
<1>1. RefTypes
  BY DEF RefInit, RefTypes
<1>2. \A i \in Inst : Usable(i)
  BY DEF RefInit, Usable
<1> QED BY <1>1, <1>2 DEF RefInv, Covered

(* A task moves on to another record of what it is doing.                  *)
LEMMA DoingTyped ==
  ASSUME RefTypes, NEW t \in Task, NEW d \in {Idle} \cup Calling \cup Writing,
         doing' = [doing EXCEPT ![t] = d],
         version' \in [Inst -> Nat], notices' \in Seq(Notice), rpcErrors' \in Nat,
         entry' \in [Inst -> CacheEntry \cup {NoData}]
  PROVE  RefTypes' /\ doing'[t] = d /\ \A u \in Task \ {t} : doing'[u] = doing[u]
<1>1. doing \in [Task -> {Idle} \cup Calling \cup Writing]
  BY DEF RefTypes
<1>2. doing' \in [Task -> {Idle} \cup Calling \cup Writing]
  BY <1>1, ZenonT(20)
<1> QED BY <1>1, <1>2 DEF RefTypes

(* Under the lock, a lookup answers or goes on to call the service.        *)
LEMMA LookupCases ==
  ASSUME RefTypes, NEW t \in Task, NEW i \in Inst, Lookup(t, i)
  PROVE  \/ /\ entry[i] # NoData /\ (entry[i].valid \/ entry[i].deprecated)
            /\ doing' = [doing EXCEPT ![t] = Idle]
         \/ \E d \in Calling : d.at = "rpc" /\ d.inst = i /\ doing' = [doing EXCEPT ![t] = d]
<1>1. entry[i] # NoData => /\ entry[i] \in CacheEntry
                           /\ entry[i].ver \in Nat
                           /\ entry[i].valid \in BOOLEAN
                           /\ entry[i].deprecated \in BOOLEAN
  BY DEF RefTypes, CacheEntry
<1>2. CASE entry[i] # NoData /\ entry[i].deprecated /\ Answered(t, Error)
  BY <1>2, ZenonT(20) DEF Answered
<1>3. CASE /\ entry[i] # NoData /\ ~entry[i].deprecated /\ entry[i].valid
           /\ Answered(t, Data(entry[i].ver, FALSE))
  BY <1>1, <1>3 DEF Answered
<1>4. CASE Go(t, "rpc", i, IF entry[i] = NoData THEN NoData ELSE entry[i].ver)
  <2> DEFINE d == [at |-> "rpc", inst |-> i, data |-> IF entry[i] = NoData THEN NoData ELSE entry[i].ver]
  <2>1. d \in Calling /\ d.at = "rpc" /\ d.inst = i
    BY <1>1, ZenonT(20) DEF Calling
  <2>2. doing' = [doing EXCEPT ![t] = d]
    BY <1>4, ZenonT(20) DEF Go
  <2> QED BY <2>1, <2>2, Zenon
<1> QED BY <1>2, <1>3, <1>4, Zenon DEF Lookup

(* The lookup leaves the cache alone; the invalidation task gives its      *)
(* instrument up only if the entry is usable or deprecated.                *)
LEMMA LookupKeepsInv ==
  ASSUME RefInv, NEW t \in Task, NEW i \in Inst, Lookup(t, i),
         UNCHANGED <<version, notices, entry, rpcErrors>>,
         doing[t] = Idle \/ doing[t].inst = i
  PROVE  RefInv'
<1>1. RefTypes
  BY DEF RefInv
<1>2. \E d \in {Idle} \cup Calling \cup Writing : doing' = [doing EXCEPT ![t] = d]
  BY <1>1, LookupCases
<1>3. RefTypes' /\ \A u \in Task \ {t} : doing'[u] = doing[u]
  BY <1>1, <1>2, DoingTyped, ZenonT(20) DEF RefTypes
<1>4. ASSUME rpcErrors' = 0, NEW j \in Inst PROVE Covered(j)'
  <2>1. Covered(j)
    BY <1>4 DEF RefInv
  <2>2. CASE Usable(j)
    BY <2>2 DEF Covered, Usable
  <2>3. CASE ~Usable(j) /\ Reloading(j) /\ ~entry[j].deprecated
    <3>1. CASE t = Reloader
      <4>1. i = j
        BY <2>3, <3>1, SMT, ZenonT(20), SMTT(30) DEF Reloading, Idle
      <4>2. PICK d \in Calling : d.at = "rpc" /\ d.inst = i /\ doing' = [doing EXCEPT ![t] = d]
        BY <1>1, <2>3, <4>1, LookupCases DEF Usable
      <4>3. doing'[t] = d
        BY <1>1, <4>2, DoingTyped DEF RefTypes
      <4> QED BY <2>3, <3>1, <4>1, <4>2, <4>3, ZenonT(20) DEF Covered, Reloading
    <3>2. CASE t # Reloader
      <4>1. doing'[Reloader] = doing[Reloader]
        BY <1>3, <3>2 DEF Task
      <4> QED BY <2>3, <4>1, ZenonT(30) DEF Covered, Reloading
    <3> QED BY <3>1, <3>2
  <2> QED BY <2>1, <2>2, <2>3 DEF Covered
<1> QED BY <1>3, <1>4 DEF RefInv

(* A step of a task that leaves the cache and the calls' failures alone    *)
(* and does not let go of an instrument keeps the invariant.               *)
LEMMA GoKeepsInv ==
  ASSUME RefInv, NEW t \in Task, NEW d \in Calling \cup Writing,
         doing' = [doing EXCEPT ![t] = d],
         UNCHANGED <<version, notices, entry, rpcErrors>>,
         doing[t] = Idle \/ d.inst = doing[t].inst
  PROVE  RefInv'
<1>1. RefTypes' /\ doing'[t] = d /\ \A u \in Task \ {t} : doing'[u] = doing[u]
  BY DoingTyped DEF RefInv, RefTypes
<1>2. d.at \in {"lookup", "rpc", "upsert"}
  BY DEF Calling, Writing
<1>3. ASSUME NEW j \in Inst, Covered(j) PROVE Covered(j)'
  <2>1. Reloading(j) => Reloading(j)'
    BY <1>1, <1>2 DEF Reloading, Idle, Task
  <2> QED BY <1>3, <2>1 DEF Covered, Usable
<1> QED BY <1>1, <1>3 DEF RefInv

(* No step of the cache, the service or the tasks leaves an entry marked   *)
(* and not being reloaded.                                                 *)
LEMMA RefStepInv == ASSUME RefInv, RefNext PROVE RefInv'
<1>0. RefTypes /\ Reloader \in Task
  BY ZenonT(20) DEF RefInv, Task
<1>1. ASSUME NEW i \in Inst, publish_change_events(i) PROVE RefInv'
  <2>1. PICK dep \in BOOLEAN : notices' = Append(notices, [inst |-> i, deprecate |-> dep])
    BY <1>1 DEF publish_change_events
  <2>2. [inst |-> i, deprecate |-> dep] \in Notice
    BY DEF Notice
  <2>3. notices' \in Seq(Notice)
    BY <1>0, <2>1, <2>2, AppendTyped DEF RefTypes
  <2>4. version' \in [Inst -> Nat]
    BY <1>0, <1>1 DEF publish_change_events, RefTypes
  <2> QED BY <1>0, <1>1, <2>3, <2>4, Zenon DEF publish_change_events, RefInv, RefTypes, Covered, Usable, Reloading
<1>2. ASSUME NEW t \in Client, NEW i \in Inst, query_instrument(t, i) PROVE RefInv'
  BY <1>2, LookupKeepsInv DEF query_instrument, Begin, Task
<1>3. ASSUME NEW t \in Client, NEW i \in Inst, query_by_venue_symbol(t, i) PROVE RefInv'
  <2> DEFINE d == [at |-> IF i \in indexed THEN "lookup" ELSE "rpc", inst |-> i, data |-> NoData]
  <2>1. d \in Calling
    BY DEF Calling
  <2>2. doing' = [doing EXCEPT ![t] = d] /\ doing[t] = Idle /\ UNCHANGED <<version, notices, entry, rpcErrors>>
    BY <1>3 DEF query_by_venue_symbol, Begin, Go
  <2> QED BY <2>1, <2>2, GoKeepsInv, Zenon DEF Task
<1>4. ASSUME NEW t \in Task, LookupIndexed(t) PROVE RefInv'
  <2>1. doing[t].inst \in Inst
    BY <1>0, <1>4 DEF LookupIndexed, RefTypes, Idle, Calling, Writing
  <2> QED BY <1>4, <2>1, LookupKeepsInv, Zenon DEF LookupIndexed
<1>5. ASSUME NEW t \in Task, RpcAnswers(t) PROVE RefInv'
  <2> DEFINE i == doing[t].inst
             d == [at |-> "upsert", inst |-> i, data |-> version[i]]
  <2>1. i \in Inst
    BY <1>0, <1>5 DEF RpcAnswers, RefTypes, Idle, Calling, Writing
  <2>2. d \in Writing
    BY <1>0, <2>1 DEF RefTypes, Writing
  <2>3. doing' = [doing EXCEPT ![t] = d] /\ d.inst = doing[t].inst
    BY <1>5 DEF RpcAnswers, Go
  <2>4. UNCHANGED <<version, notices, entry, rpcErrors>>
    BY <1>5 DEF RpcAnswers
  <2> QED BY <2>2, <2>3, <2>4, GoKeepsInv, Zenon
<1>6. ASSUME NEW t \in Task, RpcFails(t) PROVE RefInv'
  <2>1. doing' = [doing EXCEPT ![t] = Idle] /\ rpcErrors' = rpcErrors + 1 /\ UNCHANGED <<version, notices, entry>>
    BY <1>6 DEF RpcFails, Answered
  <2>2. rpcErrors' \in Nat /\ rpcErrors' # 0
    BY <1>0, <2>1, SMT, ZenonT(20), SMTT(30) DEF RefTypes
  <2>3. RefTypes'
    BY <1>0, <2>1, <2>2, DoingTyped DEF RefTypes
  <2> QED BY <2>2, <2>3 DEF RefInv
<1>7. ASSUME NEW t \in Task, upsert_instrument(t) PROVE RefInv'
  <2> DEFINE i == doing[t].inst
             new == [ver |-> doing[t].data, valid |-> TRUE, deprecated |-> FALSE]
  <2>1. /\ entry' = [entry EXCEPT ![i] = new] /\ doing' = [doing EXCEPT ![t] = Idle]
        /\ UNCHANGED <<version, notices, rpcErrors>>
    BY <1>7, ZenonT(20) DEF upsert_instrument, Answered
  <2>2. i \in Inst /\ new \in CacheEntry
    <3>1. doing[t] \in Writing
      <4>1. doing[t] \in {Idle} \cup Calling \cup Writing /\ doing[t].at = "upsert"
        BY <1>0, <1>7, Zenon DEF upsert_instrument, RefTypes
      <4>2. Idle.at # "upsert"
        BY DEF Idle
      <4>3. ASSUME NEW d \in Calling PROVE d.at # "upsert"
        BY DEF Calling
      <4> QED BY <4>1, <4>2, <4>3, Zenon
    <3> QED BY <3>1 DEF Writing, CacheEntry
  <2>3. entry' \in [Inst -> CacheEntry \cup {NoData}] /\ entry'[i] = new
    BY <1>0, <2>1, <2>2, ZenonT(20) DEF RefTypes
  <2>4. RefTypes' /\ \A u \in Task \ {t} : doing'[u] = doing[u]
    BY <1>0, <2>1, <2>3, DoingTyped DEF RefTypes
  <2>5. ASSUME NEW j \in Inst, Covered(j) PROVE Covered(j)'
    <3>1. CASE j = i
      BY <2>3, <3>1 DEF Covered, Usable
    <3>2. CASE j # i
      <4>1. entry'[j] = entry[j]
        BY <1>0, <2>1, <3>2 DEF RefTypes
      <4>2. Reloading(j) => Reloading(j)'
        BY <1>0, <2>4, <3>2 DEF Reloading
      <4> QED BY <2>5, <4>1, <4>2 DEF Covered, Usable
    <3> QED BY <3>1, <3>2
  <2> QED BY <2>1, <2>4, <2>5 DEF RefInv
<1>8. CASE HandleNotice
  <2>0. Head(notices) \in Notice /\ Tail(notices) \in Seq(Notice)
    BY <1>0, <1>8, HeadTailTyped DEF HandleNotice, RefTypes
  <2>1. PICK n \in Notice :
          /\ entry' = invalidate(n.inst, n.deprecate) /\ Reload(n.deprecate, n.inst)
          /\ doing[Reloader] = Idle /\ notices' = Tail(notices) /\ UNCHANGED <<version, rpcErrors>>
    BY <1>8, <2>0 DEF HandleNotice
  <2>2. notices' \in Seq(Notice)
    BY <2>0, <2>1
  <2>3. n.inst \in Inst /\ n.deprecate \in BOOLEAN
    BY DEF Notice
  <2>4. /\ entry' \in [Inst -> CacheEntry \cup {NoData}]
        /\ \A j \in Inst \ {n.inst} : entry'[j] = entry[j]
        /\ entry[n.inst] = NoData => entry'[n.inst] = NoData
        /\ entry[n.inst] # NoData => entry'[n.inst] = [entry[n.inst] EXCEPT !.valid = FALSE, !.deprecated = n.deprecate]
    BY <1>0, <2>1, <2>3, Zenon DEF invalidate, RefTypes, CacheEntry
  <2>5. RefTypes' /\ (n.deprecate \/ Reloading(n.inst)')
    <3>1. CASE n.deprecate
      BY <1>0, <2>1, <2>2, <2>4, <3>1, Zenon DEF Reload, RefTypes
    <3>2. CASE ~n.deprecate
      <4> DEFINE d == [at |-> "lookup", inst |-> n.inst, data |-> NoData]
      <4>1. d \in Calling
        BY <2>3 DEF Calling
      <4>2. doing' = [doing EXCEPT ![Reloader] = d]
        BY <2>1, <3>2 DEF Reload, Go
      <4>3. RefTypes' /\ doing'[Reloader] = d
        BY <1>0, <2>1, <2>2, <2>4, <4>1, <4>2, DoingTyped DEF RefTypes
      <4> QED BY <4>3 DEF Reloading
    <3> QED BY <3>1, <3>2
  <2>6. ASSUME NEW j \in Inst, Covered(j) PROVE Covered(j)'
    <3>1. Usable(j)
      BY <2>1, <2>6 DEF Covered, Reloading, Idle
    <3>2. CASE j # n.inst \/ entry[j] = NoData
      BY <2>4, <3>1, <3>2 DEF Covered, Usable
    <3>3. CASE j = n.inst /\ entry[j] # NoData
      <4>1. entry'[j].valid = FALSE /\ entry'[j].deprecated = n.deprecate
        BY <1>0, <2>4, <3>3, Zenon DEF RefTypes, CacheEntry
      <4>2. CASE n.deprecate
        BY <2>3, <4>1, <4>2, Zenon DEF Covered, Usable
      <4>3. CASE ~n.deprecate
        BY <2>5, <3>3, <4>1, <4>3 DEF Covered
      <4> QED BY <4>2, <4>3
    <3> QED BY <3>2, <3>3, SMT, ZenonT(20), SMTT(30)
  <2> QED BY <2>1, <2>5, <2>6 DEF RefInv
<1> QED BY <1>1, <1>2, <1>3, <1>4, <1>5, <1>6, <1>7, <1>8 DEF RefNext

(* Whatever queries, invalidations and reloads overlap, a quiet cache      *)
(* without failed calls holds no entry that was invalidated and forgotten. *)
THEOREM CacheSettlesUsable == RefSpec => []SettledEntriesUsable
<1>1. RefInv /\ UNCHANGED RefVars => RefInv'
  BY DEF RefVars, RefInv, RefTypes, Covered, Usable, Reloading
<1>2. RefInv => SettledEntriesUsable
  BY DEF RefInv, SettledEntriesUsable, Covered, Usable, Reloading, Idle, Task
<1> QED BY <1>1, <1>2, RefInitInv, RefStepInv, PTL DEF RefSpec

-----------------------------------------------------------------------------
(* The mirror of the registry, for any number of OMS, changes and breaks.  *)

Value == Entry \cup {NoEntry}
Delivery == [key : Oms, entry : Value]

RouteTypes ==
  /\ bucket \in [Oms -> Value] /\ staging \in [Oms -> Value] /\ mirror \in [Oms -> Value]
  /\ stream \in Seq(Delivery)

(* The map that the watch loop is filling.                                 *)
Filling == IF phase = "live" THEN mirror ELSE staging

(* What map s still lacks of value v for key o is the last delivery on o.  *)
Awaits(s, o, v) ==
  \E i \in DOMAIN s : /\ s[i].key = o /\ s[i].entry = v
                      /\ \A j \in DOMAIN s : j > i => s[j].key # o
NoNewsOf(s, o) == \A i \in DOMAIN s : s[i].key # o

Tracked(o) ==
  \/ o \in expired
  \/ NoNewsOf(stream, o) /\ Filling[o] = bucket[o]
  \/ Awaits(stream, o, bucket[o])

RouteInv ==
  /\ RouteTypes
  /\ phase # "connect" => \A o \in Oms : Tracked(o)

(* One more delivery: it is the last on its key and changes no other key's.*)
LEMMA AppendAwaits ==
  ASSUME NEW s \in Seq(Delivery), NEW x \in Delivery, NEW o, NEW v
  PROVE  /\ Append(s, x) \in Seq(Delivery)
         /\ Awaits(Append(s, x), x.key, x.entry)
         /\ o # x.key => /\ Awaits(s, o, v) => Awaits(Append(s, x), o, v)
                         /\ NoNewsOf(s, o) => NoNewsOf(Append(s, x), o)
<1> DEFINE t == Append(s, x)
<1>1. /\ Len(s) \in Nat /\ DOMAIN s = 1..Len(s) /\ DOMAIN t = 1..(Len(s) + 1)
      /\ \A i \in DOMAIN s : t[i] = s[i]
      /\ t[Len(s) + 1] = x
      /\ t \in Seq(Delivery)
  OBVIOUS
<1> HIDE DEF t
<1>2. Awaits(t, x.key, x.entry)
  BY <1>1 DEF Awaits
<1>3. ASSUME o # x.key, Awaits(s, o, v) PROVE Awaits(t, o, v)
  <2>1. PICK i \in DOMAIN s : /\ s[i].key = o /\ s[i].entry = v
                              /\ \A j \in DOMAIN s : j > i => s[j].key # o
    BY <1>3 DEF Awaits
  <2>2. i \in DOMAIN t /\ t[i].key = o /\ t[i].entry = v
    BY <1>1, <2>1, SMT, ZenonT(20), SMTT(30)
  <2>3. ASSUME NEW j \in DOMAIN t, j > i PROVE t[j].key # o
    BY <1>1, <1>3, <2>1, <2>3
  <2> QED BY <2>2, <2>3 DEF Awaits
<1>4. ASSUME o # x.key, NoNewsOf(s, o) PROVE NoNewsOf(t, o)
  BY <1>1, <1>4, SMT, ZenonT(20), SMTT(30) DEF NoNewsOf
<1> QED BY <1>1, <1>2, <1>3, <1>4, Zenon DEF t

(* Taking the first delivery: its key has the awaited value now or awaits  *)
(* it still, the other keys are as before.                                 *)
LEMMA TailAwaits ==
  ASSUME NEW s \in Seq(Delivery), s # << >>, NEW o, NEW v
  PROVE  /\ Head(s) \in Delivery /\ Tail(s) \in Seq(Delivery)
         /\ NoNewsOf(s, o) => Head(s).key # o /\ NoNewsOf(Tail(s), o)
         /\ Awaits(s, o, v) => \/ Awaits(Tail(s), o, v)
                               \/ Head(s).key = o /\ Head(s).entry = v /\ NoNewsOf(Tail(s), o)
<1> DEFINE t == Tail(s)
<1>1. /\ Len(s) \in Nat /\ Len(s) > 0 /\ DOMAIN s = 1..Len(s) /\ DOMAIN t = 1..(Len(s) - 1)
      /\ \A i \in DOMAIN t : t[i] = s[i + 1] /\ i + 1 \in DOMAIN s
      /\ Head(s) = s[1] /\ 1 \in DOMAIN s
      /\ t \in Seq(Delivery) /\ s[1] \in Delivery
  OBVIOUS
<1> HIDE DEF t
<1>2. ASSUME NoNewsOf(s, o) PROVE Head(s).key # o /\ NoNewsOf(t, o)
  BY <1>1, <1>2 DEF NoNewsOf
<1>3. ASSUME Awaits(s, o, v)
      PROVE  Awaits(t, o, v) \/ (Head(s).key = o /\ Head(s).entry = v /\ NoNewsOf(t, o))
  <2>1. PICK i \in DOMAIN s : /\ s[i].key = o /\ s[i].entry = v
                              /\ \A j \in DOMAIN s : j > i => s[j].key # o
    BY <1>3 DEF Awaits
  <2>2. CASE i = 1
    <3>1. \A j \in DOMAIN t : t[j].key # o
      BY <1>1, <2>1, <2>2
    <3> QED BY <1>1, <2>1, <2>2, <3>1 DEF NoNewsOf
  <2>3. CASE i # 1
    <3>1. i - 1 \in DOMAIN t /\ t[i - 1] = s[i]
      BY <1>1, <2>3
    <3>2. \A j \in DOMAIN t : j > i - 1 => t[j].key # o
      BY <1>1, <2>1
    <3> QED BY <2>1, <3>1, <3>2 DEF Awaits
  <2> QED BY <2>2, <2>3
<1> QED BY <1>1, <1>2, <1>3 DEF t

(* The watch starts with one delivery for every key of the bucket.         *)
LEMMA ConnectTracks ==
  ASSUME RouteInv, Connect PROVE RouteInv'
<1> DEFINE keys == {o \in Oms : bucket[o] # NoEntry}
<1>1. Cardinality(keys) \in Nat
  BY RoutingAssumption, FS_Subset, FS_CardinalityType DEF RoutingAssumption
<1>2. PICK order \in Bijection(1..Cardinality(keys), keys) :
        stream' = [i \in DOMAIN order |-> [key |-> order[i], entry |-> bucket[order[i]]]]
  BY Zenon DEF Connect
<1>3. /\ order \in [1..Cardinality(keys) -> keys]
      /\ \A i, j \in 1..Cardinality(keys) : order[i] = order[j] => i = j
      /\ \A o \in keys : \E i \in 1..Cardinality(keys) : order[i] = o
  BY DEF Bijection, Injection, Surjection, IsInjective
<1>4. /\ DOMAIN stream' = 1..Cardinality(keys)
      /\ \A i \in 1..Cardinality(keys) : stream'[i] = [key |-> order[i], entry |-> bucket[order[i]]]
  BY <1>2, <1>3
<1>8. \A o \in Oms \ keys : bucket[o] = NoEntry
  OBVIOUS
<1>9. keys \subseteq Oms
  OBVIOUS
<1> HIDE DEF keys
<1>5. stream' \in Seq(Delivery)
  <2>1. \A i \in 1..Cardinality(keys) : stream'[i] \in Delivery
    BY <1>3, <1>4, <1>9, SMT, ZenonT(20), SMTT(30) DEF RouteInv, RouteTypes, Delivery
  <2>2. stream' \in [1..Cardinality(keys) -> Delivery]
    BY <1>2, <1>4, <2>1
  <2> QED BY <1>1, <2>2, FunctionIsSeq, ZenonT(30)
<1>6. RouteTypes' /\ bucket' = bucket
  BY <1>5 DEF RouteInv, RouteTypes, Connect, Empty, Value
<1>7. ASSUME NEW o \in Oms PROVE Tracked(o)'
  <2>1. CASE o \in keys
    <3>1. PICK i \in 1..Cardinality(keys) : order[i] = o
      BY <1>3, <2>1
    <3>2. \A j \in 1..Cardinality(keys) : j > i => order[j] # o
      BY <1>1, <1>3, <3>1, SMT, ZenonT(20), SMTT(30)
    <3>3. stream'[i].key = o /\ stream'[i].entry = bucket[o] /\ i \in DOMAIN stream'
      BY <1>4, <3>1
    <3>4. \A j \in DOMAIN stream' : j > i => stream'[j].key # o
      BY <1>4, <3>2
    <3>5. Awaits(stream', o, bucket[o])
      BY <3>3, <3>4 DEF Awaits
    <3> QED BY <1>6, <3>5, Zenon DEF Tracked
  <2>2. CASE o \notin keys
    <3>1. NoNewsOf(stream', o)
      BY <1>3, <1>4, <2>2, SMT, ZenonT(20), SMTT(30) DEF NoNewsOf
    <3>2. Filling'[o] = bucket'[o]
      BY <1>6, <1>8, <2>2 DEF Filling, Connect, Empty
    <3> QED BY <3>1, <3>2, ZenonT(20) DEF Tracked
  <2> QED BY <2>1, <2>2, ZenonT(20)
<1> QED BY <1>6, <1>7 DEF RouteInv

(* A change of the registry is delivered, unless no watch is open.         *)
LEMMA AnnounceTracks ==
  ASSUME RouteInv, NEW o \in Oms, NEW e \in Value, Announce(o, e) PROVE RouteInv'
<1> DEFINE x == [key |-> o, entry |-> e]
<1>1. /\ bucket' = [bucket EXCEPT ![o] = e] /\ expired' = expired \ {o}
      /\ UNCHANGED <<phase, staging, mirror>>
      /\ phase = "connect" => stream' = stream
      /\ phase # "connect" => stream' = Append(stream, x)
  BY DEF Announce, watchVars
<1>2. x \in Delivery /\ x.key = o /\ x.entry = e /\ stream \in Seq(Delivery)
  BY DEF Delivery, RouteInv, RouteTypes
<1>3. bucket' \in [Oms -> Value] /\ bucket'[o] = e /\ \A p \in Oms \ {o} : bucket'[p] = bucket[p]
  BY <1>1 DEF RouteInv, RouteTypes
<1> HIDE DEF x
<1>4. RouteTypes'
  BY <1>1, <1>2, <1>3, AppendAwaits DEF RouteInv, RouteTypes
<1>5. ASSUME phase' # "connect", NEW p \in Oms PROVE Tracked(p)'
  <2>1. CASE p = o
    <3>1. Awaits(stream', x.key, x.entry)
      BY <1>1, <1>2, <1>5, AppendAwaits, Zenon
    <3>2. Awaits(stream', p, bucket'[p])
      BY <1>2, <1>3, <2>1, <3>1, Zenon
    <3> QED BY <3>2, Zenon DEF Tracked
  <2>2. CASE p # o
    <3>1. Tracked(p) /\ Filling' = Filling /\ bucket'[p] = bucket[p] /\ (p \in expired => p \in expired')
      BY <1>1, <1>3, <1>5, <2>2 DEF RouteInv, Filling
    <3>2. /\ Awaits(stream, p, bucket[p]) => Awaits(stream', p, bucket[p])
          /\ NoNewsOf(stream, p) => NoNewsOf(stream', p)
      BY <1>1, <1>2, <1>5, <2>2, AppendAwaits, Zenon
    <3> QED BY <3>1, <3>2, Zenon DEF Tracked
  <2> QED BY <2>1, <2>2
<1> QED BY <1>4, <1>5 DEF RouteInv

(* Applying the first delivery to the map that is being filled.            *)
LEMMA EntryTracks ==
  ASSUME RouteInv, phase # "connect", stream # << >>,
         Filling' = apply_entry(Filling, Head(stream)), stream' = Tail(stream),
         UNCHANGED <<bucket, expired, phase>>, RouteTypes'
  PROVE  RouteInv'
<1>1. /\ stream \in Seq(Delivery) /\ Filling \in [Oms -> Value]
      /\ Head(stream) \in Delivery
  BY TailAwaits, ZenonT(30) DEF RouteInv, RouteTypes, Filling
<1>2. /\ Head(stream).key \in Oms
      /\ Filling'[Head(stream).key] = Head(stream).entry
      /\ \A p \in Oms \ {Head(stream).key} : Filling'[p] = Filling[p]
  BY <1>1 DEF apply_entry, Delivery
<1>3. ASSUME NEW o \in Oms PROVE Tracked(o)'
  <2>1. Tracked(o) /\ bucket'[o] = bucket[o]
    BY DEF RouteInv
  <2>2. CASE o \in expired
    BY <2>2, Zenon DEF Tracked
  <2>3. CASE NoNewsOf(stream, o) /\ Filling[o] = bucket[o]
    BY <1>1, <1>2, <2>1, <2>3, TailAwaits, Zenon DEF Tracked
  <2>4. CASE Awaits(stream, o, bucket[o])
    BY <1>1, <1>2, <2>1, <2>4, TailAwaits, Zenon DEF Tracked
  <2> QED BY <2>1, <2>2, <2>3, <2>4, Zenon DEF Tracked
<1> QED BY <1>3 DEF RouteInv

(* Every step of the registry, the watch loop and the client.              *)
LEMMA RouteStepInv == ASSUME RouteInv, RouteNext PROVE RouteInv'
<1>1. ASSUME NEW o \in Oms, OmsRegisters(o) \/ OmsDeregisters(o) PROVE RouteInv'
  <2>1. \E e \in Value : Announce(o, e)
    BY <1>1, ZenonT(20) DEF OmsRegisters, OmsDeregisters, Value
  <2> QED BY <2>1, AnnounceTracks
<1>2. ASSUME NEW o \in Oms, OmsExpires(o) PROVE RouteInv'
  <2>1. /\ bucket' = [bucket EXCEPT ![o] = NoEntry] /\ expired' = expired \cup {o}
        /\ UNCHANGED <<stream, phase, staging, mirror>>
    BY <1>2 DEF OmsExpires, watchVars
  <2>2. RouteTypes' /\ \A p \in Oms \ {o} : bucket'[p] = bucket[p]
    BY <2>1 DEF RouteInv, RouteTypes, Value
  <2> QED BY <2>1, <2>2 DEF RouteInv, Tracked, Filling
<1>3. CASE Connect
  BY <1>3, ConnectTracks
<1>4. CASE SnapshotEntry
  <2>1. /\ phase = "snapshot" /\ stream # << >> /\ staging' = apply_entry(staging, Head(stream))
        /\ stream' = Tail(stream) /\ UNCHANGED <<bucket, expired, phase, mirror>>
    BY <1>4, ZenonT(20) DEF SnapshotEntry, registryVars
  <2>2. Head(stream) \in Delivery /\ stream' \in Seq(Delivery)
    BY <2>1, TailAwaits DEF RouteInv, RouteTypes
  <2>3. RouteTypes'
    BY <2>1, <2>2 DEF RouteInv, RouteTypes, apply_entry, Delivery
  <2>4. Filling' = apply_entry(Filling, Head(stream))
    BY <2>1 DEF Filling
  <2> QED BY <2>1, <2>3, <2>4, EntryTracks
<1>5. CASE Swap
  <2>1. UNCHANGED <<bucket, expired, stream, staging>> /\ phase = "snapshot" /\ phase' = "live" /\ mirror' = staging
    BY <1>5 DEF Swap, registryVars
  <2> QED BY <2>1 DEF RouteInv, RouteTypes, Tracked, Filling
<1>6. CASE LiveEntry
  <2>1. /\ phase = "live" /\ stream # << >> /\ mirror' = apply_entry(mirror, Head(stream))
        /\ stream' = Tail(stream) /\ UNCHANGED <<bucket, expired, phase, staging>>
    BY <1>6, ZenonT(20) DEF LiveEntry, registryVars
  <2>2. Head(stream) \in Delivery /\ stream' \in Seq(Delivery)
    BY <2>1, TailAwaits DEF RouteInv, RouteTypes
  <2>3. RouteTypes'
    BY <2>1, <2>2 DEF RouteInv, RouteTypes, apply_entry, Delivery
  <2>4. Filling' = apply_entry(Filling, Head(stream))
    BY <2>1 DEF Filling
  <2> QED BY <2>1, <2>3, <2>4, EntryTracks
<1>7. CASE StreamBreaks
  <2>1. << >> \in Seq(Delivery)
    OBVIOUS
  <2> QED BY <1>7, <2>1 DEF StreamBreaks, registryVars, RouteInv, RouteTypes
<1>8. CASE UNCHANGED <<registryVars, stream, watchVars>>
  BY <1>8 DEF registryVars, watchVars, RouteInv, RouteTypes, Tracked, Filling
<1>9. (WaitForSnapshot \/ WaitTimesOut \/ refresh_account_cache) => UNCHANGED <<registryVars, stream, watchVars>>
  BY DEF WaitForSnapshot, WaitTimesOut, refresh_account_cache, Starts
<1>10. ASSUME NEW a \in Acct, preconnect_oms(a) \/ Call(a) PROVE UNCHANGED <<registryVars, stream, watchVars>>
  BY <1>10, Zenon DEF preconnect_oms, Call, Connected
<1> QED BY <1>1, <1>2, <1>3, <1>4, <1>5, <1>6, <1>7, <1>8, <1>9, <1>10 DEF RouteNext, WatchStep

(* The mirror of the registry loses nothing: neither an early end of the   *)
(* snapshot nor a broken watch leaves an announced change out for good.    *)
THEOREM MirrorSettles == RouteSpec => []SettledMirror
<1>1. RouteInit => RouteInv
  <2>1. << >> \in Seq(Delivery)
    OBVIOUS
  <2> QED BY <2>1 DEF RouteInit, RouteInv, RouteTypes, Empty, Value
<1>2. RouteInv /\ UNCHANGED RouteVars => RouteInv'
  BY ZenonT(20) DEF RouteVars, RouteInv, RouteTypes, Tracked, Filling
<1>3. RouteInv => SettledMirror
  <2> SUFFICES ASSUME RouteInv, phase = "live", stream = << >>, NEW o \in Oms
               PROVE  mirror[o] = bucket[o] \/ o \in expired
    BY Zenon DEF SettledMirror
  <2>1. phase # "connect"
    OBVIOUS
  <2>2. Tracked(o)
    BY <2>1, Zenon DEF RouteInv
  <2>3. DOMAIN stream = {}
    OBVIOUS
  <2>4. ~Awaits(stream, o, bucket[o])
    BY <2>3, Zenon DEF Awaits
  <2> QED BY <2>2, <2>4, Zenon DEF Tracked, Filling
<1> QED BY <1>1, <1>2, <1>3, RouteStepInv, PTL DEF RouteSpec

=============================================================================
