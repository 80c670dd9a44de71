------------------------ MODULE CatalogCacheProofs ------------------------
(***************************************************************************)
(* Proofs about CatalogCache, for any number of requests, writes and sets  *)
(* of variants.  A version is reached by a bump (Bumped), so that what the  *)
(* writes of a version are does not change once a key holds it; then every *)
(* page that is cached, or about to be, shows the writes of its key.       *)
(***************************************************************************)
EXTENDS CatalogCache, FiniteSetTheorems, TLAPS

-----------------------------------------------------------------------------
(* The inductive invariant.                                                *)

\* Each bump is of one write, and a later version has all that an earlier had.
Bumped ==
    /\ version + Cardinality(unbumped) = db
    /\ \A v, w \in Versions : v <= w /\ w <= version => busted[v] <= busted[w]

\* The page at work is the one asked, or the listing within the home page;
\* it has its key from before it is looked up.
Formed(q) == q.at # "idle" =>
    /\ q.page # q.asked => q.page = "list"
    /\ q.key[q.asked] \in Keys
    /\ q.at # "stock" => q.key[q.page] \in Keys
    /\ q.at = "stock" => q.page = "list" /\ q.asked = "home"
    /\ q.at = "load" => q.page = "list"
    /\ q.at = "store" => q.value \in Content
    /\ \A p \in Pages : q.key[p] \in Keys => q.key[p].page = p
Shape == \A r \in Readers : Formed(reader[r])

\* A page shows the writes of the version, as far as it is sound.
Shows(content, v) == content.sound => content.writes >= busted[v]

CacheSound ==
    \A k \in Keys : cache[k] # Nothing =>
        /\ k.version <= version
        /\ Shows(cache[k], k.version)
        /\ k.page = "list" => cache[k].sound

Faithful(q) == q.at # "idle" =>
    /\ q.begun <= version
    /\ \A p \in Pages : q.key[p].version <= version
    /\ q.at = "store" => /\ Shows(q.value, q.key[q.page].version)
                         /\ q.page = "list" => q.value.sound
ReaderSound == \A r \in Readers : Faithful(reader[r])

TypeInv == TypeOK /\ Bumped /\ Shape
CacheInv == TypeInv /\ CacheSound /\ ReaderSound

-----------------------------------------------------------------------------
(* Types, versions and shapes.                                             *)

LEMMA InitTypeInv == Init => TypeInv
<1> SUFFICES ASSUME Init PROVE TypeInv
  OBVIOUS
<1>1. Cardinality({}) = 0
  BY FS_EmptySet
<1> QED
  BY <1>1, CacheAssumption DEF Init, TypeInv, TypeOK, Bumped, Shape, Formed, Versions, Content, Nothing, Idle, At

LEMMA UnbumpedFinite == ASSUME TypeOK PROVE IsFiniteSet(unbumped)
<1>1. unbumped \in SUBSET (1..db) /\ 1 \in Int /\ db \in Int
  BY DEF TypeOK
<1>2. IsFiniteSet(1..db)
  BY <1>1, FS_Interval, Zenon
<1> QED
  BY <1>1, <1>2, FS_Subset, Zenon

LEMMA CommitKeepsTypeInv ==
    ASSUME TypeInv, CommitWrite
    PROVE  TypeInv'
<1>1. IsFiniteSet(unbumped) /\ db + 1 \notin unbumped
  BY UnbumpedFinite DEF TypeInv, TypeOK
<1>2. Cardinality(unbumped') = Cardinality(unbumped) + 1 /\ Cardinality(unbumped) \in Nat
  BY <1>1, FS_AddElement, FS_CardinalityType DEF CommitWrite
<1>3. TypeOK' /\ Bumped'
  BY <1>2, CacheAssumption DEF TypeInv, TypeOK, Bumped, CommitWrite, Versions
<1>4. Shape'
  BY DEF TypeInv, Shape, CommitWrite
<1> QED
  BY <1>3, <1>4 DEF TypeInv

LEMMA BumpKeepsTypeInv ==
    ASSUME TypeInv, NEW n \in unbumped, BumpVersion(n)
    PROVE  TypeInv'
<1>1. IsFiniteSet(unbumped)
  BY UnbumpedFinite DEF TypeInv
<1>2. /\ Cardinality(unbumped') = Cardinality(unbumped) - 1
      /\ Cardinality(unbumped) \in Nat /\ Cardinality(unbumped') \in Nat
  BY <1>1, FS_RemoveElement, FS_CardinalityType, FS_Subset DEF BumpVersion
<1>3. version' \in 0..db /\ version' + Cardinality(unbumped') = db
  BY <1>2 DEF TypeInv, TypeOK, Bumped, BumpVersion
<1>4. version' \in Versions /\ version \in Versions /\ n \in 0..db /\ db' = db
  BY <1>3, CacheAssumption DEF TypeInv, TypeOK, BumpVersion, Versions
<1>5. Newer(busted[version], n) \in 0..db /\ busted[version] <= Newer(busted[version], n)
  BY <1>4, CacheAssumption DEF TypeInv, TypeOK, Newer, Versions
<1>6. busted' \in [Versions -> 0..db']
  BY <1>4, <1>5 DEF TypeInv, TypeOK, BumpVersion
<1>7. ASSUME NEW v \in Versions, NEW w \in Versions, v <= w, w <= version'
      PROVE  busted'[v] <= busted'[w]
  <2>1. CASE w = version'
    <3>1. v # version' => v <= version
      BY <1>4, <1>7, <2>1 DEF TypeInv, TypeOK, BumpVersion, Versions
    <3>2. v # version' => busted[v] <= busted[version]
      BY <1>4, <3>1 DEF TypeInv, Bumped, Versions
    <3> QED
      BY <1>4, <1>5, <2>1, <3>2, CacheAssumption DEF TypeInv, TypeOK, BumpVersion, Versions
  <2>2. CASE w # version'
    <3>1. w <= version /\ v # version'
      BY <1>4, <1>7, <2>2 DEF TypeInv, TypeOK, BumpVersion, Versions
    <3> QED
      BY <1>4, <1>7, <2>2, <3>1 DEF TypeInv, TypeOK, Bumped, BumpVersion
  <2> QED
    BY <2>1, <2>2
<1>8. Shape'
  BY DEF TypeInv, Shape, BumpVersion
<1> QED
  BY <1>3, <1>6, <1>7, <1>8 DEF TypeInv, TypeOK, Bumped, BumpVersion

\* A step of one request: what it becomes is a request, and well formed.
LEMMA ReaderKeepsTypeInv ==
    ASSUME TypeInv, NEW r \in Readers, NEW q \in {Idle} \cup Request, Formed(q),
           reader' = [reader EXCEPT ![r] = q],
           UNCHANGED <<db, unbumped, version, stock, busted>>,
           cache' \in [Keys -> Content \cup {Nothing}]
    PROVE  TypeInv'
  BY DEF TypeInv, TypeOK, Bumped, Shape

LEMMA RequestAt ==
    ASSUME TypeInv, NEW r \in Readers, ~At(r, "idle")
    PROVE  reader[r] \in Request /\ Formed(reader[r])
  BY DEF TypeInv, TypeOK, Shape, At, Idle

LEMMA KeyAt ==
    ASSUME TypeInv, NEW r \in Readers, At(r, "lookup") \/ At(r, "store")
    PROVE  Key(r) \in Keys /\ Key(r).page = reader[r].page
  BY RequestAt DEF Key, Formed, At, Request

LEMMA AskKeepsTypeInv ==
    ASSUME TypeInv, NEW r \in Readers, NEW page \in Pages, Ask(r, page)
    PROVE  TypeInv'
<1> DEFINE q == [at |-> "version", asked |-> page, page |-> page,
                 key |-> [p \in Pages |-> IF p = page THEN StockKey(p) ELSE NoKey],
                 value |-> Nothing, begun |-> version]
<1>1. StockKey(page) \in Keys /\ StockKey(page).page = page /\ version \in Versions
  BY CacheAssumption DEF StockKey, Keys, TypeInv, TypeOK, Versions
<1>2. q \in Request
  BY <1>1 DEF Request, Steps
<1>3. Formed(q)
  BY <1>1 DEF Formed, Keys, NoKey
<1> QED
  BY <1>2, <1>3, ReaderKeepsTypeInv DEF Ask, TypeInv, TypeOK

LEMMA ReadStockKeepsTypeInv ==
    ASSUME TypeInv, NEW r \in Readers, ReadStock(r)
    PROVE  TypeInv'
<1> DEFINE q == [reader[r] EXCEPT !.at = "version", !.key["list"] = StockKey("list")]
<1>1. StockKey("list") \in Keys /\ StockKey("list").page = "list"
  BY CacheAssumption DEF StockKey, Keys, TypeInv, TypeOK, Versions, Pages
<1>2. reader[r] \in Request /\ Formed(reader[r])
  BY RequestAt DEF ReadStock, At
<1>3. q \in Request
  BY <1>1, <1>2 DEF Request, Steps, Pages
<1>4. Formed(q)
  BY <1>1, <1>2 DEF Formed, Request, Pages, ReadStock, At
<1>5. reader' = [reader EXCEPT ![r] = q]
  BY DEF ReadStock
<1> QED
  BY <1>3, <1>4, <1>5, ReaderKeepsTypeInv DEF ReadStock, TypeInv, TypeOK

LEMMA GetVersionKeepsTypeInv ==
    ASSUME TypeInv, NEW r \in Readers, GetVersion(r)
    PROVE  TypeInv'
<1>1. PICK v \in {version, 0} :
        reader' = [reader EXCEPT ![r].at = "lookup", ![r].key[reader[r].page].version = v]
  BY DEF GetVersion
<1> DEFINE q == [reader[r] EXCEPT !.at = "lookup", !.key[reader[r].page].version = v]
<1>2. reader[r] \in Request /\ Formed(reader[r])
  BY RequestAt DEF GetVersion, At
<1>3. v \in Versions
  BY CacheAssumption DEF TypeInv, TypeOK, Versions
<1>4. [reader[r].key[reader[r].page] EXCEPT !.version = v] \in Keys
  BY <1>2, <1>3 DEF Formed, Keys, GetVersion, At
<1>5. q \in Request
  BY <1>2, <1>4 DEF Request, Steps
<1>6. Formed(q)
  BY <1>2, <1>4 DEF Formed, Request, Keys, GetVersion, At
<1>7. reader' = [reader EXCEPT ![r] = q]
  BY <1>1
<1> QED
  BY <1>5, <1>6, <1>7, ReaderKeepsTypeInv DEF GetVersion, TypeInv, TypeOK

LEMMA ReturnKeepsTypeInv ==
    ASSUME TypeInv, NEW r \in Readers, NEW value \in Content,
           At(r, "lookup") \/ At(r, "store"), Return(r, value),
           UNCHANGED <<db, unbumped, version, stock, busted>>,
           cache' \in [Keys -> Content \cup {Nothing}]
    PROVE  TypeInv'
<1>1. CASE reader[r].page = reader[r].asked
  BY <1>1, ReaderKeepsTypeInv DEF Return, Idle, Formed
<1>2. CASE reader[r].page # reader[r].asked
  <2> DEFINE sound == reader[r].key["list"].version >= reader[r].key["home"].version
             q == [reader[r] EXCEPT !.at = "store", !.page = "home", !.key["list"] = NoKey,
                                    !.value = [value EXCEPT !.sound = sound]]
  <2>1. reader[r] \in Request /\ Formed(reader[r])
    BY RequestAt DEF At
  <2>2. [value EXCEPT !.sound = sound] \in Content
    <3>1. \A p \in Pages : reader[r].key[p].version \in Int
      BY <2>1, CacheAssumption DEF Request, Keys, NoKey, Versions
    <3>2. sound \in BOOLEAN
      BY <3>1 DEF Pages
    <3> QED
      BY <3>2 DEF Content
  <2>3. q \in Request
    BY <2>1, <2>2 DEF Request, Steps, Pages
  <2>4. reader[r].asked = "home" /\ NoKey \notin Keys
    BY <1>2, <2>1 DEF Formed, Request, Pages, NoKey, Keys, At
  <2>5. Formed(q)
    BY <2>1, <2>2, <2>4 DEF Formed, Request, Pages, At
  <2>6. reader' = [reader EXCEPT ![r] = q]
    BY <1>2 DEF Return
  <2> QED
    BY <2>3, <2>5, <2>6, ReaderKeepsTypeInv
<1> QED
  BY <1>1, <1>2

LEMMA MissKeepsTypeInv ==
    ASSUME TypeInv, NEW r \in Readers, Miss(r)
    PROVE  TypeInv'
<1> DEFINE q == [reader[r] EXCEPT !.at = IF reader[r].page = "home" THEN "stock" ELSE "load",
                                  !.page = "list"]
<1>1. reader[r] \in Request /\ Formed(reader[r])
  BY RequestAt DEF Miss, At
<1>2. q \in Request
  BY <1>1 DEF Request, Steps, Pages
<1>3. Formed(q)
  BY <1>1 DEF Formed, Request, Pages, Miss, At
<1>4. reader' = [reader EXCEPT ![r] = q]
  BY DEF Miss
<1> QED
  BY <1>2, <1>3, <1>4, ReaderKeepsTypeInv DEF Miss, TypeInv, TypeOK

LEMMA LoadKeepsTypeInv ==
    ASSUME TypeInv, NEW r \in Readers, LoadListing(r)
    PROVE  TypeInv'
<1> DEFINE value == [writes |-> db, sound |-> TRUE]
           q == [reader[r] EXCEPT !.at = "store", !.value = value]
<1>1. reader[r] \in Request /\ Formed(reader[r])
  BY RequestAt DEF LoadListing, At
<1>2. value \in Content
  BY CacheAssumption DEF Content, TypeInv, TypeOK
<1>3. q \in Request
  BY <1>1, <1>2 DEF Request, Steps
<1>4. Formed(q)
  BY <1>1, <1>2 DEF Formed, Request, Pages, LoadListing, At
<1>5. reader' = [reader EXCEPT ![r] = q]
  BY DEF LoadListing
<1> QED
  BY <1>3, <1>4, <1>5, ReaderKeepsTypeInv DEF LoadListing, TypeInv, TypeOK

LEMMA ServeKeepsTypeInv ==
    ASSUME TypeInv, NEW r \in Readers, Serve(r)
    PROVE  TypeInv'
<1>1. CASE Hit(r)
  <2>1. cache[Key(r)] \in Content
    BY <1>1, KeyAt DEF Hit, TypeInv, TypeOK
  <2> QED
    BY <1>1, <2>1, ReturnKeepsTypeInv DEF Hit, TypeInv, TypeOK
<1>2. CASE StorePage(r)
  <2>1. reader[r].value \in Content
    BY <1>2, RequestAt DEF StorePage, At, Formed
  <2>2. cache' \in [Keys -> Content \cup {Nothing}]
    BY <1>2, <2>1, KeyAt DEF StorePage, TypeInv, TypeOK
  <2> QED
    BY <1>2, <2>1, <2>2, ReturnKeepsTypeInv DEF StorePage
<1> QED
  BY <1>1, <1>2, ReadStockKeepsTypeInv, GetVersionKeepsTypeInv, MissKeepsTypeInv,
     LoadKeepsTypeInv DEF Serve

LEMMA NextKeepsTypeInv == TypeInv /\ [Next]_vars => TypeInv'
<1> SUFFICES ASSUME TypeInv, [Next]_vars
             PROVE  TypeInv'
  OBVIOUS
<1>1. CASE ChangeStock
  BY <1>1 DEF ChangeStock, TypeInv, TypeOK, Bumped, Shape
<1>2. ASSUME NEW k \in Keys, Expire(k)
      PROVE  TypeInv'
  BY <1>2 DEF Expire, TypeInv, TypeOK, Bumped, Shape
<1>3. CASE UNCHANGED vars
  BY <1>3 DEF vars, TypeInv, TypeOK, Bumped, Shape
<1> QED
  BY <1>1, <1>2, <1>3, CommitKeepsTypeInv, BumpKeepsTypeInv, ServeKeepsTypeInv,
     AskKeepsTypeInv DEF Next

\* Keys are within the versions that were reached; requests and pages are
\* well formed at every call of cacheAside, however calls fail.
THEOREM TypeCorrect == Spec => []TypeOK
<1>1. TypeInv => TypeOK
  BY DEF TypeInv
<1> QED
  BY <1>1, InitTypeInv, NextKeepsTypeInv, PTL DEF Spec

-----------------------------------------------------------------------------
(* What pages show.                                                        *)

\* A page shows the writes of every version up to the one it is of.
LEMMA ShowsEarlier ==
    ASSUME TypeInv, NEW content \in Content, NEW v \in Versions, NEW w \in Versions,
           v <= w, w <= version, Shows(content, w)
    PROVE  Shows(content, v)
  BY CacheAssumption DEF TypeInv, TypeOK, Bumped, Shows, Content, Versions

\* What is loaded now shows all there is.
LEMMA LoadedShows ==
    ASSUME TypeInv, NEW v \in Versions
    PROVE  Shows([writes |-> db, sound |-> TRUE], v)
  BY CacheAssumption DEF TypeInv, TypeOK, Shows

LEMMA ReaderKeepsSound ==
    ASSUME CacheInv, NEW r \in Readers, NEW q, Faithful(q),
           reader' = [reader EXCEPT ![r] = q], UNCHANGED <<version, busted>>
    PROVE  ReaderSound'
  BY DEF CacheInv, TypeInv, TypeOK, ReaderSound, Faithful, Shows

LEMMA CacheKeepsSound ==
    ASSUME CacheSound, UNCHANGED <<version, busted, cache>>
    PROVE  CacheSound'
  BY DEF CacheSound, Shows

LEMMA BumpKeepsSound ==
    ASSUME CacheInv, NEW n \in unbumped, BumpVersion(n)
    PROVE  CacheSound' /\ ReaderSound'
<1>1. version' = version + 1 /\ version \in Nat /\ version \in Versions
  BY CacheAssumption DEF BumpVersion, CacheInv, TypeInv, TypeOK, Versions
<1>2. \A v \in Versions : v <= version => busted'[v] = busted[v]
  BY <1>1 DEF BumpVersion, CacheInv, TypeInv, TypeOK, Versions
<1>3. CacheSound'
  <2> SUFFICES ASSUME NEW k \in Keys, cache[k] # Nothing
               PROVE  /\ k.version <= version'
                      /\ Shows(cache[k], k.version)'
                      /\ k.page = "list" => cache[k].sound
    BY DEF CacheSound, BumpVersion
  <2>1. k.version \in Versions /\ k.version <= version
    BY DEF CacheInv, CacheSound, Keys
  <2> QED
    BY <1>1, <1>2, <2>1 DEF CacheInv, CacheSound, Shows, BumpVersion, Versions
<1>4. ReaderSound'
  <2> SUFFICES ASSUME NEW r \in Readers, reader[r].at # "idle"
               PROVE  Faithful(reader[r])'
    BY DEF ReaderSound, Faithful, BumpVersion
  <2>1. reader[r] \in Request /\ Formed(reader[r]) /\ Faithful(reader[r])
    BY RequestAt DEF CacheInv, ReaderSound, At
  <2>2. reader[r].begun \in Versions /\ \A p \in Pages : reader[r].key[p].version \in Versions
    BY <2>1, CacheAssumption DEF Request, Keys, NoKey, Versions
  <2>3. reader[r].page \in Pages
    BY <2>1 DEF Request
  <2> QED
    BY <1>1, <1>2, <2>1, <2>2, <2>3 DEF Faithful, Shows, BumpVersion, Versions
<1> QED
  BY <1>3, <1>4

LEMMA AskKeepsSound ==
    ASSUME CacheInv, NEW r \in Readers, NEW page \in Pages, Ask(r, page)
    PROVE  ReaderSound'
<1> DEFINE q == [at |-> "version", asked |-> page, page |-> page,
                 key |-> [p \in Pages |-> IF p = page THEN StockKey(p) ELSE NoKey],
                 value |-> Nothing, begun |-> version]
<1>1. version \in Nat
  BY CacheAssumption DEF CacheInv, TypeInv, TypeOK
<1>2. Faithful(q)
  BY <1>1 DEF Faithful, StockKey, NoKey
<1> QED
  BY <1>2, ReaderKeepsSound DEF Ask

LEMMA RequestFaithful ==
    ASSUME CacheInv, NEW r \in Readers, ~At(r, "idle")
    PROVE  /\ reader[r] \in Request /\ Formed(reader[r]) /\ Faithful(reader[r])
           /\ version \in Nat
           /\ \A p \in Pages : reader[r].key[p].version \in Versions
<1>1. reader[r] \in Request /\ Formed(reader[r]) /\ Faithful(reader[r])
  BY RequestAt DEF CacheInv, ReaderSound
<1>2. \A p \in Pages : reader[r].key[p].version \in Versions
  BY <1>1, CacheAssumption DEF Request, Keys, NoKey, Versions
<1> QED
  BY <1>1, <1>2, CacheAssumption DEF CacheInv, TypeInv, TypeOK

LEMMA ReadStockKeepsSound ==
    ASSUME CacheInv, NEW r \in Readers, ReadStock(r)
    PROVE  ReaderSound'
<1> DEFINE q == [reader[r] EXCEPT !.at = "version", !.key["list"] = StockKey("list")]
<1>1. reader[r] \in Request /\ Faithful(reader[r]) /\ version \in Nat
  BY RequestFaithful DEF ReadStock, At
<1>2. Faithful(q)
  BY <1>1 DEF Faithful, Request, StockKey, ReadStock, At
<1>3. reader' = [reader EXCEPT ![r] = q]
  BY DEF ReadStock
<1> QED
  BY <1>2, <1>3, ReaderKeepsSound DEF ReadStock

LEMMA GetVersionKeepsSound ==
    ASSUME CacheInv, NEW r \in Readers, GetVersion(r)
    PROVE  ReaderSound'
<1>1. PICK v \in {version, 0} :
        reader' = [reader EXCEPT ![r].at = "lookup", ![r].key[reader[r].page].version = v]
  BY DEF GetVersion
<1> DEFINE q == [reader[r] EXCEPT !.at = "lookup", !.key[reader[r].page].version = v]
<1>2. /\ reader[r] \in Request /\ Formed(reader[r]) /\ Faithful(reader[r])
      /\ version \in Nat
  BY RequestFaithful DEF GetVersion, At
<1>3. \A p \in Pages : q.key[p].version <= version
  BY <1>2 DEF Faithful, Formed, Request, Keys, GetVersion, At
<1>4. Faithful(q)
  BY <1>2, <1>3 DEF Faithful, Request, GetVersion, At
<1>5. reader' = [reader EXCEPT ![r] = q]
  BY <1>1
<1> QED
  BY <1>4, <1>5, ReaderKeepsSound DEF GetVersion

\* A home page that is built from a listing of its version or a later one
\* shows what the listing shows.
LEMMA ReturnKeepsSound ==
    ASSUME CacheInv, NEW r \in Readers, NEW value \in Content,
           At(r, "lookup") \/ At(r, "store"), Return(r, value), UNCHANGED <<version, busted>>,
           Shows(value, Key(r).version), reader[r].page = "list" => value.sound
    PROVE  ReaderSound'
<1>1. CASE reader[r].page = reader[r].asked
  BY <1>1, ReaderKeepsSound DEF Return, Idle, Faithful
<1>2. CASE reader[r].page # reader[r].asked
  <2> DEFINE list == reader[r].key["list"].version
             home == reader[r].key["home"].version
             built == [value EXCEPT !.sound = (list >= home)]
             q == [reader[r] EXCEPT !.at = "store", !.page = "home", !.key["list"] = NoKey,
                                    !.value = built]
  <2>1. /\ reader[r] \in Request /\ Formed(reader[r]) /\ Faithful(reader[r])
        /\ version \in Nat /\ list \in Versions /\ home \in Versions
    BY RequestFaithful DEF At, Pages
  <2>2. reader[r].page = "list" /\ value.sound /\ list <= version
    BY <1>2, <2>1 DEF Formed, Faithful, Pages, At
  <2>3. Shows(value, list)
    BY <2>2 DEF Key
  <2>4. list >= home => Shows(value, home)
    BY <2>1, <2>2, <2>3, ShowsEarlier DEF CacheInv, Versions
  <2>5. Shows(built, home)
    BY <2>2, <2>4 DEF Shows, Content
  <2>6. Faithful(q)
    BY <2>1, <2>5 DEF Faithful, Request, NoKey, Pages, At
  <2>7. reader' = [reader EXCEPT ![r] = q]
    BY <1>2 DEF Return
  <2> QED
    BY <2>6, <2>7, ReaderKeepsSound
<1> QED
  BY <1>1, <1>2

LEMMA HitKeepsSound ==
    ASSUME CacheInv, NEW r \in Readers, Hit(r)
    PROVE  ReaderSound'
<1>1. Key(r) \in Keys /\ Key(r).page = reader[r].page
  BY KeyAt DEF Hit, CacheInv
<1>2. /\ cache[Key(r)] \in Content /\ Shows(cache[Key(r)], Key(r).version)
      /\ reader[r].page = "list" => cache[Key(r)].sound
  BY <1>1 DEF Hit, CacheInv, CacheSound, TypeInv, TypeOK
<1> QED
  BY <1>2, ReturnKeepsSound DEF Hit

LEMMA MissKeepsSound ==
    ASSUME CacheInv, NEW r \in Readers, Miss(r)
    PROVE  ReaderSound'
<1> DEFINE q == [reader[r] EXCEPT !.at = IF reader[r].page = "home" THEN "stock" ELSE "load",
                                  !.page = "list"]
<1>1. reader[r] \in Request /\ Faithful(reader[r])
  BY RequestFaithful DEF Miss, At
<1>2. Faithful(q)
  BY <1>1 DEF Faithful, Request, Miss, At
<1>3. reader' = [reader EXCEPT ![r] = q]
  BY DEF Miss
<1> QED
  BY <1>2, <1>3, ReaderKeepsSound DEF Miss

LEMMA LoadKeepsSound ==
    ASSUME CacheInv, NEW r \in Readers, LoadListing(r)
    PROVE  ReaderSound'
<1> DEFINE value == [writes |-> db, sound |-> TRUE]
           q == [reader[r] EXCEPT !.at = "store", !.value = value]
<1>1. /\ reader[r] \in Request /\ Faithful(reader[r])
      /\ \A p \in Pages : reader[r].key[p].version \in Versions
  BY RequestFaithful DEF LoadListing, At
<1>2. Shows(value, reader[r].key[reader[r].page].version)
  BY <1>1, LoadedShows DEF CacheInv, Request
<1>3. Faithful(q)
  BY <1>1, <1>2 DEF Faithful, Request, LoadListing, At
<1>4. reader' = [reader EXCEPT ![r] = q]
  BY DEF LoadListing
<1> QED
  BY <1>3, <1>4, ReaderKeepsSound DEF LoadListing

LEMMA StoredShows ==
    ASSUME CacheInv, NEW r \in Readers, At(r, "store")
    PROVE  /\ reader[r].value \in Content /\ Shows(reader[r].value, Key(r).version)
           /\ reader[r].page = "list" => reader[r].value.sound
           /\ Key(r).version <= version
<1>1. reader[r] \in Request /\ Formed(reader[r]) /\ Faithful(reader[r])
  BY RequestFaithful DEF At
<1>2. reader[r].value \in Content
  BY <1>1 DEF Formed, At
<1>3. reader[r].page \in Pages
  BY <1>1 DEF Request
<1>4. reader[r].at # "idle" /\ reader[r].at = "store"
  BY DEF At
<1>5. Shows(reader[r].value, Key(r).version) /\ Key(r).version <= version
  BY <1>1, <1>3, <1>4 DEF Faithful, Key
<1>6. reader[r].page = "list" => reader[r].value.sound
  BY <1>1, <1>4 DEF Faithful
<1> QED
  BY <1>2, <1>5, <1>6

LEMMA StoreKeepsSound ==
    ASSUME CacheInv, NEW r \in Readers, StorePage(r)
    PROVE  CacheSound' /\ ReaderSound'
<1>1. Key(r) \in Keys /\ Key(r).page = reader[r].page
  BY KeyAt DEF StorePage, CacheInv
<1>2. /\ reader[r].value \in Content /\ Shows(reader[r].value, Key(r).version)
      /\ reader[r].page = "list" => reader[r].value.sound
      /\ Key(r).version <= version
  BY StoredShows DEF StorePage
<1>3. ReaderSound'
  BY <1>2, ReturnKeepsSound DEF StorePage
<1>4. CASE UNCHANGED cache
  BY <1>3, <1>4, CacheKeepsSound DEF StorePage, CacheInv
<1>5. CASE cache' = [cache EXCEPT ![Key(r)] = reader[r].value]
  BY <1>1, <1>2, <1>3, <1>5 DEF StorePage, CacheInv, CacheSound, TypeInv, TypeOK, Shows
<1> QED
  BY <1>4, <1>5 DEF StorePage

LEMMA NextKeepsCacheInv == CacheInv /\ [Next]_vars => CacheInv'
<1> SUFFICES ASSUME CacheInv, [Next]_vars
             PROVE  CacheInv'
  OBVIOUS
<1>t. TypeInv'
  BY NextKeepsTypeInv DEF CacheInv
<1>1. ASSUME UNCHANGED <<version, cache, reader, busted>>
      PROVE  CacheSound' /\ ReaderSound'
  BY <1>1 DEF CacheInv, CacheSound, ReaderSound, Faithful, Shows
<1>2. ASSUME CommitWrite \/ ChangeStock \/ UNCHANGED vars
      PROVE  CacheSound' /\ ReaderSound'
  <2>1. UNCHANGED <<version, cache, reader, busted>>
    BY <1>2 DEF CommitWrite, ChangeStock, vars
  <2> QED
    BY <1>1, <2>1
<1>3. ASSUME NEW r \in Readers, Serve(r)
      PROVE  CacheSound' /\ ReaderSound'
  <2>1. CASE StorePage(r)
    BY <2>1, StoreKeepsSound
  <2>2. CASE ReadStock(r) \/ GetVersion(r) \/ Hit(r) \/ Miss(r) \/ LoadListing(r)
    <3>1. CacheSound'
      BY <2>2, CacheKeepsSound DEF CacheInv, ReadStock, GetVersion, Hit, Miss, LoadListing
    <3> QED
      BY <2>2, <3>1, ReadStockKeepsSound, GetVersionKeepsSound, HitKeepsSound, MissKeepsSound,
         LoadKeepsSound
  <2> QED
    BY <1>3, <2>1, <2>2 DEF Serve
<1>4. ASSUME NEW r \in Readers, NEW page \in Pages, Ask(r, page)
      PROVE  CacheSound' /\ ReaderSound'
  BY <1>4, AskKeepsSound, CacheKeepsSound DEF CacheInv, Ask
<1>5. ASSUME NEW k \in Keys, Expire(k)
      PROVE  CacheSound' /\ ReaderSound'
  BY <1>5 DEF Expire, CacheInv, CacheSound, ReaderSound, Faithful, Shows, TypeInv, TypeOK
<1>6. ASSUME NEW n \in unbumped, BumpVersion(n)
      PROVE  CacheSound' /\ ReaderSound'
  BY <1>6, BumpKeepsSound
<1>7. CacheSound' /\ ReaderSound'
  BY <1>2, <1>3, <1>4, <1>5, <1>6 DEF Next
<1> QED
  BY <1>t, <1>7 DEF CacheInv

LEMMA InitCacheInv == Init => CacheInv
  BY InitTypeInv DEF Init, CacheInv, CacheSound, ReaderSound, Faithful, Idle

\* Every page in the cache, and every page about to be stored, shows the
\* writes of the version in its key, however late it is stored.
THEOREM InvariantHolds == Spec => []CacheInv
  BY InitCacheInv, NextKeepsCacheInv, PTL DEF Spec

\* A request answers with what it found, or with what it loaded.
LEMMA AnswersOnReturn ==
    ASSUME CacheInv, [Next]_vars, NEW r \in Readers, Answers(r)
    PROVE  Hit(r) \/ StorePage(r)
<1> USE DEF Answers, At
<1>1. reader[r].at # "idle" /\ reader'[r].at = "idle"
  OBVIOUS
<1>2. reader \in [Readers -> {Idle} \cup Request]
  BY DEF CacheInv, TypeInv, TypeOK
<1>3. reader' # reader
  BY <1>1
<1>4. PICK s \in Readers : Serve(s) \/ \E page \in Pages : Ask(s, page)
  BY <1>3 DEF Next, vars, CommitWrite, ChangeStock, BumpVersion, Expire
<1>5. s = r
  BY <1>1, <1>2, <1>4 DEF Serve, Ask, ReadStock, GetVersion, Hit, Miss, LoadListing, StorePage,
     Return
<1>6. reader[r] \in Request
  BY <1>1, <1>2 DEF Idle
<1>7. \A page \in Pages : ~Ask(r, page)
  BY <1>1 DEF Ask
<1>8. ~ReadStock(r)
  BY <1>1, <1>2, <1>6 DEF ReadStock, Request
<1>9. ~LoadListing(r)
  BY <1>1, <1>2, <1>6 DEF LoadListing, Request
<1>10. ~GetVersion(r)
  BY <1>1, <1>2, <1>6 DEF GetVersion, Request
<1>11. ~Miss(r)
  BY <1>1, <1>2, <1>6 DEF Miss, Request
<1> QED
  BY <1>4, <1>5, <1>7, <1>8, <1>9, <1>10, <1>11 DEF Serve

\* "Nothing can ever be served stale past a write": what a request answers
\* shows all that was bumped when the request came (catalog-cache.ts:44).
THEOREM NothingStale == Spec => FreshPastWrite
<1>1. ASSUME CacheInv, [Next]_vars, NEW r \in Readers, Answers(r), Answer(r).sound,
             Key(r).version >= reader[r].begun
      PROVE  Answer(r).writes >= busted[reader[r].begun]
  <2>1. (At(r, "lookup") /\ cache[Key(r)] # Nothing) \/ At(r, "store")
    BY <1>1, AnswersOnReturn DEF Hit, StorePage
  <2>2. /\ reader[r] \in Request /\ Formed(reader[r]) /\ Faithful(reader[r])
        /\ Key(r) \in Keys
    BY <1>1, <2>1, RequestFaithful, KeyAt DEF At, CacheInv
  <2>3. Answer(r) \in Content /\ Shows(Answer(r), Key(r).version) /\ Key(r).version <= version
    <3>1. CASE At(r, "lookup")
      BY <1>1, <2>1, <2>2, <3>1 DEF Answer, At, CacheInv, CacheSound, TypeInv, TypeOK
    <3>2. CASE At(r, "store")
      BY <1>1, <3>2, StoredShows DEF Answer, At
    <3> QED
      BY <2>1, <3>1, <3>2
  <2>4. reader[r].begun \in Versions /\ Key(r).version \in Versions
    BY <2>2 DEF Request, Keys
  <2>5. Shows(Answer(r), reader[r].begun)
    BY <1>1, <2>3, <2>4, ShowsEarlier DEF CacheInv, Versions
  <2> QED
    BY <1>1, <2>5 DEF Shows
<1>2. CacheInv /\ [Next]_vars =>
        [\A r \in Readers :
            Answers(r) /\ Answer(r).sound /\ Key(r).version >= reader[r].begun
            => Answer(r).writes >= busted[reader[r].begun]]_vars
  BY <1>1
<1> QED
  BY <1>2, InvariantHolds, PTL DEF Spec, FreshPastWrite
=============================================================================
