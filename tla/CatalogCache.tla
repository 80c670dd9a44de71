---------------------------- MODULE CatalogCache ----------------------------
(***************************************************************************)
(* The read-through cache of the storefront (shared/cache/catalog-cache)   *)
(* around the listings and around the home page, which is built from a     *)
(* cached listing.  Every key holds the catalogue's version and a          *)
(* fingerprint of the variants that are in stock; administrators' writes   *)
(* commit in Postgres and then bump the version.  One action is one call   *)
(* of Redis or Postgres.  Any call of Redis may fail, and is then ignored. *)
(***************************************************************************)
EXTENDS Integers, FiniteSets

CONSTANTS Readers,   \* requests of the storefront
          Stocks,    \* the sets of variants that are ever in stock
          MaxWrites, \* bound: administrators' writes
          MaxPages   \* bound: pages in the cache at once

ASSUME CacheAssumption == MaxWrites \in Nat /\ MaxPages \in Nat

VARIABLES db,       \* how many catalogue writes are committed
          unbumped, \* the writes that are committed and not yet bumped
          version,  \* Redis: cache:catalog:version
          cache,    \* Redis: cache:v<version>:<page>:stock:<fingerprint>
          stock,    \* the variants in stock
          reader,   \* the requests
          busted    \* history: the newest write whose bump led up to a version
vars == <<db, unbumped, version, cache, stock, reader, busted>>

Pages == {"list", "home"}
Versions == 0..MaxWrites
Keys == [page : Pages, version : Versions, stock : Stocks]
\* What a page shows.  A page that was built from an older version's listing
\* (after a version fallback) is marked as not sound.
Content == [writes : Nat, sound : BOOLEAN]
Nothing == [writes |-> 0]
NoKey == [version |-> 0]
Idle == [at |-> "idle"]
Steps == {"stock", "version", "lookup", "load", "store"}
Request == [at : Steps, asked : Pages, page : Pages, key : [Pages -> Keys \cup {NoKey}],
            value : Content \cup {Nothing},
            begun : Versions] \* history: the version when the request came

At(r, step) == reader[r].at = step
StockKey(page) == [page |-> page, version |-> 0, stock |-> stock]
Key(r) == reader[r].key[reader[r].page]
Cached == {k \in Keys : cache[k] # Nothing}
Newer(m, n) == IF m < n THEN n ELSE m

-----------------------------------------------------------------------------
(* Administrators: commit, then INCR.  One that fails never comes.         *)

CommitWrite ==
    /\ db < MaxWrites
    /\ db' = db + 1
    /\ unbumped' = unbumped \cup {db'}
    /\ UNCHANGED <<version, cache, stock, reader, busted>>

BumpVersion(n) ==
    /\ n \in unbumped
    /\ unbumped' = unbumped \ {n}
    /\ version' = version + 1
    /\ busted' = [busted EXCEPT ![version'] = Newer(busted[version], n)]
    /\ UNCHANGED <<db, cache, stock, reader>>

\* Customers buy, staff restock.
ChangeStock ==
    /\ stock' \in Stocks \ {stock}
    /\ UNCHANGED <<db, unbumped, version, cache, reader, busted>>

-----------------------------------------------------------------------------
(* A request: cacheAside of the page asked, and of the listing within.     *)

\* The fingerprint is of the stock as it is now; the version is read after it.
Ask(r, page) ==
    /\ At(r, "idle")
    /\ reader' = [reader EXCEPT ![r] =
         [at |-> "version", asked |-> page, page |-> page,
          key |-> [p \in Pages |-> IF p = page THEN StockKey(p) ELSE NoKey],
          value |-> Nothing, begun |-> version]]
    /\ UNCHANGED <<db, unbumped, version, cache, stock, busted>>

ReadStock(r) ==
    /\ At(r, "stock")
    /\ reader' = [reader EXCEPT ![r].at = "version", ![r].key["list"] = StockKey("list")]
    /\ UNCHANGED <<db, unbumped, version, cache, stock, busted>>

\* A bug: the counter as Redis has it, -1 for what is no number.
GetVersionAsIs(r) ==
    /\ At(r, "version")
    /\ \E v \in {version, -1} :
          reader' = [reader EXCEPT ![r].at = "lookup", ![r].key[reader[r].page].version = v]
    /\ UNCHANGED <<db, unbumped, version, cache, stock, busted>>

GetVersion(r) ==
    /\ At(r, "version")
    /\ \E v \in {version, 0} :
          reader' = [reader EXCEPT ![r].at = "lookup", ![r].key[reader[r].page].version = v]
    /\ UNCHANGED <<db, unbumped, version, cache, stock, busted>>

\* The value of a page is the answer, or what the page asked is built from.
Return(r, value) ==
    LET key == reader[r].key IN
    reader' = IF reader[r].page = reader[r].asked
              THEN [reader EXCEPT ![r] = Idle]
              ELSE [reader EXCEPT
                      ![r].at = "store", ![r].page = "home", ![r].key["list"] = NoKey,
                      ![r].value = [value EXCEPT !.sound =
                                      key["list"].version >= key["home"].version]]

Hit(r) ==
    /\ At(r, "lookup")
    /\ cache[Key(r)] # Nothing
    /\ Return(r, cache[Key(r)])
    /\ UNCHANGED <<db, unbumped, version, cache, stock, busted>>

\* Nothing there, or not readable: load the page.
Miss(r) ==
    /\ At(r, "lookup")
    /\ reader' = [reader EXCEPT ![r].at = IF reader[r].page = "home" THEN "stock" ELSE "load",
                                ![r].page = "list"]
    /\ UNCHANGED <<db, unbumped, version, cache, stock, busted>>

LoadListing(r) ==
    /\ At(r, "load")
    /\ reader' = [reader EXCEPT ![r].at = "store",
                                ![r].value = [writes |-> db, sound |-> TRUE]]
    /\ UNCHANGED <<db, unbumped, version, cache, stock, busted>>

\* A bug: the set builds its key again, with the version as it is by then.
StoreUnderCurrentVersion(r) ==
    /\ At(r, "store")
    /\ Return(r, reader[r].value)
    /\ cache' \in {cache, [cache EXCEPT ![[Key(r) EXCEPT !.version = version]]
                                           = reader[r].value]}
    /\ UNCHANGED <<db, unbumped, version, stock, busted>>

\* SET ... EX, or not.
StorePage(r) ==
    /\ At(r, "store")
    /\ Return(r, reader[r].value)
    /\ \/ UNCHANGED cache
       \/ /\ Cardinality(Cached \cup {Key(r)}) <= MaxPages
          /\ cache' = [cache EXCEPT ![Key(r)] = reader[r].value]
    /\ UNCHANGED <<db, unbumped, version, stock, busted>>

\* EX ttl.
Expire(k) ==
    /\ cache[k] # Nothing
    /\ cache' = [cache EXCEPT ![k] = Nothing]
    /\ UNCHANGED <<db, unbumped, version, stock, reader, busted>>

Init ==
    /\ db = 0 /\ unbumped = {} /\ version = 0
    /\ cache = [k \in Keys |-> Nothing]
    /\ stock \in Stocks
    /\ reader = [r \in Readers |-> Idle]
    /\ busted = [v \in Versions |-> 0]

Serve(r) == \/ ReadStock(r) \/ GetVersion(r) \/ Hit(r) \/ Miss(r)
            \/ LoadListing(r) \/ StorePage(r)

Next ==
    \/ CommitWrite \/ ChangeStock
    \/ \E n \in unbumped : BumpVersion(n)
    \/ \E r \in Readers : Serve(r) \/ \E page \in Pages : Ask(r, page)
    \/ \E k \in Keys : Expire(k)

Spec == Init /\ [][Next]_vars

-----------------------------------------------------------------------------
(* Properties.                                                             *)

\* The keys are within the versions that were reached, the requests and
\* pages well formed.
TypeOK ==
    /\ db \in 0..MaxWrites /\ unbumped \subseteq 1..db /\ version \in 0..db
    /\ cache \in [Keys -> Content \cup {Nothing}]
    /\ stock \in Stocks
    /\ reader \in [Readers -> {Idle} \cup Request]
    /\ busted \in [Versions -> 0..db]

\* What a request answers in this step.
Answers(r) == ~At(r, "idle") /\ At(r, "idle")'
Answer(r) == IF At(r, "lookup") THEN cache[Key(r)] ELSE reader[r].value

\* "Nothing can ever be served stale past a write": unless a version fallback
\* took part, an answer shows every write that had been bumped when the
\* request came, whatever other calls of Redis failed, however late a slow
\* request stores what it loaded, and through the nested listing.
FreshPastWrite ==
    [][\A r \in Readers :
          Answers(r) /\ Answer(r).sound /\ Key(r).version >= reader[r].begun
          => Answer(r).writes >= busted[reader[r].begun]]_vars
=============================================================================
