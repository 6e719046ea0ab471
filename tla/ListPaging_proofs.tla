-------------------------- MODULE ListPaging_proofs --------------------------
(***************************************************************************)
(* Proofs about ListPaging for every set of playlists, batches, documents, *)
(* page size and bounds.  The keys of a list are ordered totally (Less is  *)
(* a strict order of tuples of one length), the token stands at the last   *)
(* key shown (Behind, Ahead), and what a membership token is bound to, the *)
(* container's id and revision, only grows (Doc).                          *)
(***************************************************************************)
EXTENDS ListPaging, FiniteSetTheorems, SequenceTheorems, WellFoundedInduction, TLAPS

-----------------------------------------------------------------------------
(* Keys *)

Keys(n) == [1 .. n -> Nat]

LEMMA LeastOf ==
    ASSUME NEW S \in SUBSET Nat, S # {}
    PROVE  \E m \in S : \A n \in S : m <= n
<1>1. PICK m \in S : \A n \in S : ~(<<n, m>> \in OpToRel(<, Nat))
  BY NatLessThanWellFounded, WFMin
<1>2. ASSUME NEW n \in S PROVE m <= n
  <2>1. n \in Nat /\ m \in Nat
    OBVIOUS
  <2>2. ASSUME n < m PROVE <<n, m>> \in OpToRel(<, Nat)
    BY <2>1, <2>2 DEF OpToRel
  <2>3. ~(n < m)
    BY <1>1, <2>2
  <2> QED
    BY <2>1, <2>3
<1> QED
  BY <1>2

LEMMA LessTransitive ==
    ASSUME NEW n \in Nat, NEW a \in Keys(n), NEW b \in Keys(n), NEW c \in Keys(n),
           Less(a, b), Less(b, c)
    PROVE  Less(a, c)
<1>1. DOMAIN a = 1 .. n /\ DOMAIN b = 1 .. n /\ DOMAIN c = 1 .. n
  BY DEF Keys
<1>2. PICK i \in 1 .. n : a[i] < b[i] /\ \A j \in 1 .. i - 1 : a[j] = b[j]
  BY <1>1 DEF Less
<1>3. PICK k \in 1 .. n : b[k] < c[k] /\ \A j \in 1 .. k - 1 : b[j] = c[j]
  BY <1>1 DEF Less
<1>4. \A j \in 1 .. n : a[j] \in Nat /\ b[j] \in Nat /\ c[j] \in Nat
  BY DEF Keys
<1>5. CASE i <= k
  <2>1. a[i] < c[i]
    BY <1>2, <1>3, <1>4, <1>5
  <2>2. \A j \in 1 .. i - 1 : a[j] = c[j]
    BY <1>2, <1>3, <1>5
  <2> QED
    BY <1>1, <2>1, <2>2 DEF Less
<1>6. CASE k < i
  <2>1. a[k] < c[k]
    BY <1>2, <1>3, <1>4, <1>6
  <2>2. \A j \in 1 .. k - 1 : a[j] = c[j]
    BY <1>2, <1>3, <1>6
  <2> QED
    BY <1>1, <2>1, <2>2 DEF Less
<1> QED
  BY <1>5, <1>6

LEMMA LessTotal ==
    ASSUME NEW n \in Nat, NEW a \in Keys(n), NEW b \in Keys(n), a # b
    PROVE  Less(a, b) \/ Less(b, a)
<1> DEFINE S == {i \in 1 .. n : a[i] # b[i]}
<1>1. DOMAIN a = 1 .. n /\ DOMAIN b = 1 .. n
  BY DEF Keys
<1>2. S \in SUBSET Nat /\ S # {}
  BY DEF Keys
<1>3. PICK m \in S : \A i \in S : m <= i
  BY <1>2, LeastOf
<1>4. \A j \in 1 .. m - 1 : a[j] = b[j]
  <2> SUFFICES ASSUME NEW j \in 1 .. m - 1, a[j] # b[j] PROVE FALSE
    OBVIOUS
  <2>1. m \in 1 .. n /\ j \in 1 .. n /\ j < m
    BY <1>3
  <2>2. j \in S
    BY <2>1
  <2>3. m <= j
    BY <1>3, <2>2
  <2> QED
    BY <2>1, <2>3
<1>5. m \in 1 .. n /\ a[m] \in Nat /\ b[m] \in Nat /\ a[m] # b[m]
  BY <1>3 DEF Keys
<1>6. a[m] < b[m] \/ b[m] < a[m]
  BY <1>5
<1> HIDE DEF S
<1> QED
  BY <1>1, <1>4, <1>5, <1>6 DEF Less

LEMMA LessIrreflexive ==
    ASSUME NEW n \in Nat, NEW a \in Keys(n)
    PROVE  ~ Less(a, a)
BY DEF Less, Keys

(* Either direction is a strict total order. *)
LEMMA Order ==
    ASSUME NEW n \in Nat, NEW dir, NEW a \in Keys(n), NEW b \in Keys(n), NEW c \in Keys(n)
    PROVE  /\ ~ After(a, a, dir)
           /\ After(a, b, dir) /\ After(b, c, dir) => After(a, c, dir)
           /\ a = b \/ After(a, b, dir) \/ After(b, a, dir)
           /\ ~ After(a, b, dir) /\ After(c, b, dir) => After(c, a, dir)
<1>1. ~ After(a, a, dir)
  BY LessIrreflexive DEF After
<1>2. \A x, y, z \in Keys(n) : After(x, y, dir) /\ After(y, z, dir) => After(x, z, dir)
  BY LessTransitive DEF After
<1>3. \A x, y \in Keys(n) : x = y \/ After(x, y, dir) \/ After(y, x, dir)
  BY LessTotal DEF After
<1>4. ASSUME ~ After(a, b, dir), After(c, b, dir) PROVE After(c, a, dir)
  <2>1. a = b \/ After(b, a, dir)
    BY <1>3, <1>4
  <2> QED
    BY <1>2, <1>4, <2>1
<1> QED
  BY <1>1, <1>2, <1>3, <1>4

(* A page has a last row. *)
LEMMA LastRow ==
    ASSUME NEW n \in Nat, NEW dir, NEW page, IsFiniteSet(page), page # {},
           \A r \in page : r.key \in Keys(n)
    PROVE  \E r \in page : \A q \in page : ~ After(q.key, r.key, dir)
<1> DEFINE Later(r) == {q \in page : After(q.key, r.key, dir)}
           Counts == {Cardinality(Later(r)) : r \in page}
<1>1. ASSUME NEW r \in page PROVE IsFiniteSet(Later(r)) /\ Cardinality(Later(r)) \in Nat
  BY FS_Subset, FS_CardinalityType
<1>2. Counts \in SUBSET Nat /\ Counts # {}
  BY <1>1
<1>3. PICK m \in Counts : \A k \in Counts : m <= k
  BY <1>2, LeastOf
<1>4. PICK r \in page : m = Cardinality(Later(r))
  BY <1>3
<1>5. ASSUME NEW q \in page, After(q.key, r.key, dir) PROVE FALSE
  <2>1. Later(q) \subseteq Later(r)
    BY <1>5, Order
  <2>2. q \in Later(r) /\ q \notin Later(q)
    BY <1>5, Order
  <2>3. Cardinality(Later(q)) <= Cardinality(Later(r)) /\ Cardinality(Later(q)) # Cardinality(Later(r))
    BY <1>1, <2>1, <2>2, FS_Subset
  <2>4. m <= Cardinality(Later(q))
    BY <1>3
  <2>5. Cardinality(Later(q)) \in Nat /\ Cardinality(Later(r)) \in Nat
    BY <1>1
  <2> HIDE DEF Later
  <2> QED
    BY <1>4, <2>3, <2>4, <2>5
<1> QED
  BY <1>5

-----------------------------------------------------------------------------
(* Tokens *)

Dim(l) == CASE l = "members" -> 1 [] l = "playlists" -> 2 [] OTHER -> 3

RowsOfList(l) == [key : Keys(Dim(l)), of : Playlists]

Directions == {"asc", "desc"}

Tokens(l) ==
    CASE l = "playlists" -> [t : Nat, id : Nat]
      [] l = "members"   -> [kind : {"container"}, cid : Nat, sort : Directions, rev : Nat, pos : Nat]
      [] OTHER           -> [t : Nat, pos : Nat, iid : Nat]

LEMMA PlainTokens ==
    ASSUME NEW tok \in [t : Nat, id : Nat]
    PROVE  /\ DecodesAsPlain(tok) /\ ~ DecodesAsMembership(tok) /\ ~ DecodesAsItem(tok)
           /\ KeyOf(tok) = <<tok.t, tok.id>> /\ tok # NoToken
<1>1. DOMAIN tok = {"t", "id"}
  OBVIOUS
<1>2. DecodesAsPlain(tok) /\ ~ DecodesAsMembership(tok) /\ ~ DecodesAsItem(tok)
  BY <1>1 DEF DecodesAsPlain, DecodesAsMembership, DecodesAsItem, Has, Lacks
<1>3. KeyOf(tok) = <<tok.t, tok.id>>
  BY <1>2 DEF KeyOf
<1>4. tok # NoToken
  BY <1>1 DEF NoToken
<1> QED
  BY <1>2, <1>3, <1>4

LEMMA MembershipTokens ==
    ASSUME NEW tok \in [kind : {"container"}, cid : Nat, sort : Directions, rev : Nat, pos : Nat]
    PROVE  /\ DecodesAsMembership(tok) /\ ~ DecodesAsPlain(tok) /\ ~ DecodesAsItem(tok)
           /\ KeyOf(tok) = <<tok.pos>> /\ tok # NoToken
<1>1. DOMAIN tok = {"kind", "cid", "sort", "rev", "pos"}
  OBVIOUS
<1>2. DecodesAsMembership(tok) /\ ~ DecodesAsPlain(tok) /\ ~ DecodesAsItem(tok)
  BY <1>1 DEF DecodesAsPlain, DecodesAsMembership, DecodesAsItem, Has, Lacks
<1>3. KeyOf(tok) = <<tok.pos>>
  BY <1>2 DEF KeyOf
<1>4. tok # NoToken
  BY <1>1 DEF NoToken
<1> QED
  BY <1>2, <1>3, <1>4

LEMMA ItemTokens ==
    ASSUME NEW tok \in [t : Nat, pos : Nat, iid : Nat]
    PROVE  /\ DecodesAsItem(tok) /\ ~ DecodesAsPlain(tok) /\ ~ DecodesAsMembership(tok)
           /\ KeyOf(tok) = <<tok.t, tok.pos, tok.iid>> /\ tok # NoToken
<1>1. DOMAIN tok = {"t", "pos", "iid"}
  OBVIOUS
<1>2. DecodesAsItem(tok) /\ ~ DecodesAsPlain(tok) /\ ~ DecodesAsMembership(tok)
  BY <1>1 DEF DecodesAsPlain, DecodesAsMembership, DecodesAsItem, Has, Lacks
<1>3. KeyOf(tok) = <<tok.t, tok.pos, tok.iid>>
  BY <1>2 DEF KeyOf
<1>4. tok # NoToken
  BY <1>1 DEF NoToken
<1> QED
  BY <1>2, <1>3, <1>4

(* A token is read by the kind of list that issued it, and by no other. *)
LEMMA TokenFacts ==
    ASSUME NEW l \in Lists, NEW tok \in Tokens(l)
    PROVE  /\ DecodesAsPlain(tok) <=> l = "playlists"
           /\ DecodesAsMembership(tok) <=> l = "members"
           /\ DecodesAsItem(tok) <=> l \in {"items", "scoped"}
           /\ tok # NoToken
           /\ KeyOf(tok) \in Keys(Dim(l))
<1>1. CASE l = "playlists"
  <2>1. tok \in [t : Nat, id : Nat] /\ Dim(l) = 2
    BY <1>1 DEF Tokens, Dim
  <2>2. <<tok.t, tok.id>> \in Keys(2)
    BY <2>1 DEF Keys
  <2> QED
    BY <1>1, <2>1, <2>2, PlainTokens
<1>2. CASE l = "members"
  <2>1. /\ tok \in [kind : {"container"}, cid : Nat, sort : Directions, rev : Nat, pos : Nat]
        /\ Dim(l) = 1
    BY <1>2 DEF Tokens, Dim
  <2>2. <<tok.pos>> \in Keys(1)
    BY <2>1 DEF Keys
  <2> QED
    BY <1>2, <2>1, <2>2, MembershipTokens
<1>3. CASE l \in {"items", "scoped"}
  <2>1. tok \in [t : Nat, pos : Nat, iid : Nat] /\ Dim(l) = 3
    BY <1>3 DEF Tokens, Dim
  <2>2. <<tok.t, tok.pos, tok.iid>> \in Keys(3)
    BY <2>1 DEF Keys
  <2> QED
    BY <1>3, <2>1, <2>2, ItemTokens
<1> QED
  BY <1>1, <1>2, <1>3 DEF Lists

(* The token names the key of the row it was issued for. *)
LEMMA IssuedToken ==
    ASSUME list \in Lists, sort \in Directions, container.id \in Nat, container.rev \in Nat,
           NEW row \in RowsOfList(list)
    PROVE  /\ TokenFor(list, row) \in Tokens(list)
           /\ KeyOf(TokenFor(list, row)) = row.key
           /\ list = "members" => /\ TokenFor(list, row).cid = container.id
                                  /\ TokenFor(list, row).rev = container.rev
                                  /\ TokenFor(list, row).sort = sort
<1>1. CASE list = "playlists"
  <2> DEFINE tok == [t |-> row.key[1], id |-> row.key[2]]
  <2>1. row.key \in [1 .. 2 -> Nat]
    BY <1>1 DEF RowsOfList, Dim, Keys
  <2>2. TokenFor(list, row) = tok
    BY <1>1 DEF TokenFor
  <2>3. tok \in [t : Nat, id : Nat] /\ tok.t = row.key[1] /\ tok.id = row.key[2]
    BY <2>1
  <2>4. <<row.key[1], row.key[2]>> = row.key
    BY <2>1
  <2> HIDE DEF tok
  <2>5. KeyOf(tok) = row.key
    BY <2>3, <2>4, PlainTokens
  <2> QED
    BY <1>1, <2>2, <2>3, <2>5 DEF Tokens
<1>2. CASE list = "members"
  <2> DEFINE tok == [kind |-> "container", cid |-> container.id, sort |-> sort,
                     rev |-> container.rev, pos |-> row.key[1]]
  <2>1. row.key \in [1 .. 1 -> Nat]
    BY <1>2 DEF RowsOfList, Dim, Keys
  <2>2. TokenFor(list, row) = tok
    BY <1>2 DEF TokenFor
  <2>3. /\ tok \in [kind : {"container"}, cid : Nat, sort : Directions, rev : Nat, pos : Nat]
        /\ tok.pos = row.key[1] /\ tok.cid = container.id /\ tok.rev = container.rev /\ tok.sort = sort
    BY <2>1
  <2>4. <<row.key[1]>> = row.key
    BY <2>1
  <2> HIDE DEF tok
  <2>5. KeyOf(tok) = row.key
    BY <2>3, <2>4, MembershipTokens
  <2> QED
    BY <1>2, <2>2, <2>3, <2>5 DEF Tokens
<1>3. CASE list \in {"items", "scoped"}
  <2> DEFINE tok == [t |-> row.key[1], pos |-> row.key[2], iid |-> row.key[3]]
  <2>1. row.key \in [1 .. 3 -> Nat]
    BY <1>3 DEF RowsOfList, Dim, Keys
  <2>2. TokenFor(list, row) = tok
    BY <1>3 DEF TokenFor
  <2>3. tok \in [t : Nat, pos : Nat, iid : Nat]
        /\ tok.t = row.key[1] /\ tok.pos = row.key[2] /\ tok.iid = row.key[3]
    BY <2>1
  <2>4. <<row.key[1], row.key[2], row.key[3]>> = row.key
    BY <2>1
  <2> HIDE DEF tok
  <2>5. KeyOf(tok) = row.key
    BY <2>3, <2>4, ItemTokens
  <2> QED
    BY <1>3, <2>2, <2>3, <2>5 DEF Tokens
<1> QED
  BY <1>1, <1>2, <1>3 DEF Lists

-----------------------------------------------------------------------------
(* The tables *)

MembersTyped ==
    /\ container \in [id : 1 .. MaxWrites, there : BOOLEAN, rev : 1 .. MaxWrites,
                      rows : SUBSET RowsOfList("members")]
    /\ IsFiniteSet(container.rows)
    /\ \A m \in container.rows : version[m.of] > 0
    /\ \A m, n \in container.rows : m.key = n.key => m = n
    /\ container.rows # {} => container.there

TablesTyped ==
    /\ now \in 1 .. MaxTime
    /\ open \in [Batches -> 0 .. MaxTime]
    /\ created \in [Playlists -> 0 .. MaxTime]
    /\ version \in [Playlists -> Nat]
    /\ \A p \in Playlists : version[p] <= Len(Versions[p]) /\ (version[p] > 0 => created[p] > 0)

LEMMA ConstantFacts ==
    /\ Limit \in Nat \ {0} /\ MaxTime \in Nat \ {0} /\ MaxWrites \in Nat \ {0}
    /\ IsFiniteSet(Playlists) /\ Playlists \subseteq Nat
    /\ \A p \in Playlists : /\ Len(Versions[p]) \in Nat \ {0}
                            /\ \A v \in 1 .. Len(Versions[p]) :
                                  Versions[p][v].listed \in BOOLEAN /\ Versions[p][v].items \in Seq(Nat)
    /\ \A b \in Batches : b \subseteq Playlists
<1>1. \A p \in Playlists : Versions[p] \in Seq([listed : BOOLEAN, items : Seq(Nat)]) /\ Versions[p] # <<>>
  BY PagingAssumption
<1>2. ASSUME NEW p \in Playlists
      PROVE  /\ Len(Versions[p]) \in Nat \ {0}
             /\ \A v \in 1 .. Len(Versions[p]) :
                   Versions[p][v].listed \in BOOLEAN /\ Versions[p][v].items \in Seq(Nat)
  <2>1. Len(Versions[p]) \in Nat /\ Len(Versions[p]) # 0
    BY <1>1, EmptySeq, LenProperties
  <2>2. \A v \in 1 .. Len(Versions[p]) : Versions[p][v] \in [listed : BOOLEAN, items : Seq(Nat)]
    BY <1>1, ElementOfSeq
  <2> QED
    BY <2>1, <2>2
<1>3. \A b \in Batches : b \subseteq Playlists
  BY PagingAssumption
<1> QED
  BY <1>2, <1>3, PagingAssumption

LEMMA ImageFinite ==
    ASSUME NEW S, IsFiniteSet(S), NEW f, DOMAIN f = S, f = [x \in S |-> f[x]]
    PROVE  IsFiniteSet({f[x] : x \in S})
<1>1. f \in Surjection(S, {f[x] : x \in S})
  BY DEF Surjection
<1> QED
  BY <1>1, FS_Surjection

LEMMA BodyFacts ==
    ASSUME TablesTyped, NEW p \in Stored
    PROVE  /\ p \in Playlists /\ created[p] \in Nat /\ created[p] > 0
           /\ version[p] \in 1 .. Len(Versions[p])
           /\ Body(p).listed \in BOOLEAN /\ Body(p).items \in Seq(Nat)
           /\ DOMAIN Body(p).items = 1 .. Len(Body(p).items) /\ Len(Body(p).items) \in Nat
           /\ \A i \in DOMAIN Body(p).items : Body(p).items[i] \in Nat
<1>1. /\ p \in Playlists /\ created[p] \in Nat /\ created[p] > 0
      /\ version[p] \in 1 .. Len(Versions[p])
  BY ConstantFacts DEF TablesTyped, Stored
<1>2. Body(p).listed \in BOOLEAN /\ Body(p).items \in Seq(Nat)
  BY <1>1, ConstantFacts DEF Body
<1> QED
  BY <1>1, <1>2, LenProperties, ElementOfSeq

-----------------------------------------------------------------------------
(* The rows of a list: typed, finite, and of one key only when Tied. *)

Dated(rows) == list # "members" => \A r \in rows : r.of \in Stored /\ r.key[1] = created[r.of]

Good(rows) ==
    /\ rows \in SUBSET RowsOfList(list) /\ IsFiniteSet(rows)
    /\ Dated(rows)
    /\ \A r, q \in rows : r.key = q.key => r = q \/ Tied(r)

LEMMA GoodPlaylists ==
    ASSUME TablesTyped, list = "playlists"
    PROVE  Good(PlaylistRows)
<1> DEFINE f == [p \in Listed |-> [key |-> <<created[p], p>>, of |-> p]]
<1>1. Listed \subseteq Stored /\ Listed \subseteq Playlists
  BY DEF Listed, Stored
<1>2. \A p \in Listed : created[p] \in Nat /\ p \in Nat
  BY <1>1, BodyFacts, ConstantFacts
<1>3. PlaylistRows = {f[p] : p \in Listed}
  BY DEF PlaylistRows
<1>4. IsFiniteSet(PlaylistRows)
  <2>1. IsFiniteSet(Listed)
    BY <1>1, ConstantFacts, FS_Subset
  <2>2. DOMAIN f = Listed /\ f = [p \in Listed |-> f[p]]
    OBVIOUS
  <2> HIDE DEF f
  <2> QED
    BY <1>3, <2>1, <2>2, ImageFinite
<1>5. ASSUME NEW r \in PlaylistRows
      PROVE  /\ r \in RowsOfList(list) /\ r.of \in Listed /\ r.key = <<created[r.of], r.of>>
             /\ r = [key |-> <<created[r.of], r.of>>, of |-> r.of]
  <2>1. PICK p \in Listed : r = [key |-> <<created[p], p>>, of |-> p]
    BY DEF PlaylistRows
  <2>2. <<created[p], p>> \in [1 .. 2 -> Nat]
    BY <1>2
  <2> QED
    BY <1>1, <2>1, <2>2 DEF RowsOfList, Dim, Keys
<1>6. \A r, q \in PlaylistRows : r.key = q.key => r = q
  BY <1>5
<1>7. Dated(PlaylistRows)
  BY <1>1, <1>5 DEF Dated
<1> QED
  BY <1>4, <1>5, <1>6, <1>7 DEF Good

(* Two index rows with one key are rows of playlists that hold the same item at
   the same position and were inserted together. *)
LEMMA GoodIndex ==
    ASSUME TablesTyped, list \in {"items", "scoped"}, NEW P \in SUBSET Stored
    PROVE  Good(IndexRows(P))
<1> DEFINE E(p) == {[key |-> <<created[p], i, Body(p).items[i]>>, of |-> p] : i \in DOMAIN Body(p).items}
<1>1. IndexRows(P) = UNION {E(p) : p \in P}
  BY DEF IndexRows
<1>2. ASSUME NEW p \in P PROVE IsFiniteSet(E(p))
  <2> DEFINE D == DOMAIN Body(p).items
             f == [i \in D |-> [key |-> <<created[p], i, Body(p).items[i]>>, of |-> p]]
  <2>1. IsFiniteSet(D)
    <3>1. p \in Stored
      OBVIOUS
    <3>2. PICK n \in Nat : D = 1 .. n
      BY <3>1, BodyFacts
    <3> HIDE DEF D, f
    <3>3. 1 \in Int /\ n \in Int
      OBVIOUS
    <3> QED
      BY <3>2, <3>3, FS_Interval
  <2>2. DOMAIN f = D /\ f = [i \in D |-> f[i]] /\ E(p) = {f[i] : i \in D}
    OBVIOUS
  <2> HIDE DEF f, D, E
  <2> QED
    BY <2>1, <2>2, ImageFinite
<1>3. IsFiniteSet(IndexRows(P))
  <2> DEFINE g == [p \in P |-> E(p)]
  <2>1. IsFiniteSet(P)
    BY BodyFacts, ConstantFacts, FS_Subset
  <2>2. DOMAIN g = P /\ g = [p \in P |-> g[p]] /\ IndexRows(P) = UNION {g[p] : p \in P}
        /\ \A p \in P : IsFiniteSet(g[p])
    BY <1>1, <1>2
  <2> HIDE DEF g
  <2>3. IsFiniteSet({g[p] : p \in P})
    BY <2>1, <2>2, ImageFinite
  <2> QED
    BY <2>2, <2>3, FS_UNION
<1>4. ASSUME NEW r \in IndexRows(P)
      PROVE  /\ r \in RowsOfList(list) /\ r.of \in P /\ r.key[1] = created[r.of]
             /\ r.key[2] \in DOMAIN Body(r.of).items
             /\ r.key[3] = Body(r.of).items[r.key[2]]
             /\ r = [key |-> <<created[r.of], r.key[2], r.key[3]>>, of |-> r.of]
  <2>1. PICK p \in P : r \in E(p)
    BY <1>1
  <2>2. PICK i \in DOMAIN Body(p).items : r = [key |-> <<created[p], i, Body(p).items[i]>>, of |-> p]
    BY <2>1
  <2>3. created[p] \in Nat /\ i \in Nat /\ Body(p).items[i] \in Nat /\ p \in Playlists
    BY <2>2, BodyFacts
  <2>4. <<created[p], i, Body(p).items[i]>> \in [1 .. 3 -> Nat]
    BY <2>3
  <2>5. Dim(list) = 3
    BY DEF Dim
  <2> HIDE DEF E
  <2>6. r.of = p /\ r.key = <<created[p], i, Body(p).items[i]>>
    BY <2>2
  <2>7. r \in RowsOfList(list)
    BY <2>2, <2>3, <2>4, <2>5 DEF RowsOfList, Keys
  <2> QED
    BY <2>2, <2>6, <2>7
<1>5. ASSUME NEW r \in IndexRows(P), NEW q \in IndexRows(P), r.key = q.key, r # q PROVE Tied(r)
  <2>1. r.of # q.of
    BY <1>4, <1>5
  <2>2. q.of \in Stored /\ r.of \in Stored /\ created[q.of] = created[r.of]
    BY <1>4, <1>5
  <2>3. version[q.of] \in DOMAIN Versions[q.of] /\ q.of \in Playlists
    BY <2>2, BodyFacts, PagingAssumption, LenProperties
  <2>4. r.key[2] \in DOMAIN Versions[q.of][version[q.of]].items
        /\ Versions[q.of][version[q.of]].items[r.key[2]] = r.key[3]
    BY <1>4, <1>5 DEF Body
  <2> QED
    BY <2>1, <2>2, <2>3, <2>4 DEF Tied
<1>6. Dated(IndexRows(P))
  BY <1>4 DEF Dated
<1> HIDE DEF E
<1> QED
  BY <1>3, <1>4, <1>5, <1>6 DEF Good

LEMMA GoodMembers ==
    ASSUME MembersTyped, list = "members", NEW id
    PROVE  Good(MemberRows(id))
<1>1. MemberRows(id) = container.rows \/ MemberRows(id) = {}
  BY DEF MemberRows
<1> QED
  BY <1>1, FS_EmptySet DEF MembersTyped, Good, Dated

LEMMA MembersStored ==
    ASSUME MembersTyped, NEW id
    PROVE  Members(id) \subseteq Stored
<1>1. MemberRows(id) \subseteq container.rows /\ \A m \in container.rows : m.of \in Playlists
  BY DEF MemberRows, MembersTyped, RowsOfList
<1> QED
  BY <1>1 DEF Members, MembersTyped, Stored

LEMMA GoodRows ==
    ASSUME TablesTyped, MembersTyped, list \in Lists
    PROVE  Good(Rows)
<1>1. CASE list = "playlists"
  BY <1>1, GoodPlaylists DEF Rows
<1>2. CASE list = "items"
  <2>1. Rows = IndexRows(Listed) /\ Listed \in SUBSET Stored
    BY <1>2 DEF Rows, Listed
  <2> QED
    BY <1>2, <2>1, GoodIndex
<1>3. CASE list = "scoped"
  <2>1. Rows = IndexRows(Members(container.id)) /\ Members(container.id) \in SUBSET Stored
    BY <1>3, MembersStored DEF Rows
  <2> QED
    BY <1>3, <2>1, GoodIndex
<1>4. CASE list = "members"
  <2>1. Rows = MemberRows(container.id)
    BY <1>4 DEF Rows
  <2> QED
    BY <1>4, <2>1, GoodMembers
<1> QED
  BY <1>1, <1>2, <1>3, <1>4 DEF Lists

(* A list under a container that is not there is empty. *)
LEMMA NoRows ==
    ASSUME list \in {"scoped", "members"}, ~ container.there
    PROVE  Rows = {}
<1>1. MemberRows(container.id) = {} /\ Members(container.id) = {}
  BY DEF MemberRows, Members
<1> QED
  BY <1>1 DEF Rows, IndexRows

-----------------------------------------------------------------------------
(* Writes *)

(* What a write does to the container: its rows shrink, or its id or revision
   grows, and a new id takes the place of a container that is gone. *)
ContainerMoves ==
    \/ /\ container'.id = container.id /\ container'.rev = container.rev
       /\ container'.rows \subseteq container.rows
       /\ container'.there => container.there
       /\ replaced => replaced'
    \/ container'.id = container.id /\ container'.rev > container.rev /\ replaced'
    \/ container'.id > container.id /\ ~ container.there /\ replaced'

LEMMA WriteTables ==
    ASSUME TablesTyped, MembersTyped, Write
    PROVE  /\ TablesTyped'
           /\ \A p \in Playlists : created[p] > 0 => created'[p] = created[p]
<1> USE DEF TablesTyped
<1>1. ASSUME NEW b \in Batches, BeginInsert(b)
      PROVE  /\ TablesTyped'
             /\ \A p \in Playlists : created[p] > 0 => created'[p] = created[p]
  <2>1. now' \in 1 .. MaxTime
    BY <1>1, ConstantFacts DEF BeginInsert
  <2> QED
    BY <1>1, <2>1 DEF BeginInsert
<1>2. ASSUME NEW b \in Batches, CommitInsert(b)
      PROVE  /\ TablesTyped'
             /\ \A p \in Playlists : created[p] > 0 => created'[p] = created[p]
  <2>1. open[b] \in 1 .. MaxTime
    BY <1>2, ConstantFacts DEF CommitInsert
  <2>2. created' \in [Playlists -> 0 .. MaxTime] /\ version' \in [Playlists -> Nat]
    BY <1>2, <2>1 DEF CommitInsert
  <2>3. \A p \in Playlists : Len(Versions[p]) \in Nat \ {0}
    BY ConstantFacts
  <2>4. \A p \in Playlists : version'[p] <= Len(Versions[p]) /\ (version'[p] > 0 => created'[p] > 0)
    BY <1>2, <2>1, <2>3 DEF CommitInsert
  <2> QED
    BY <1>2, <2>2, <2>4 DEF CommitInsert
<1>3. ASSUME NEW p \in Playlists, Replace(p)
      PROVE  /\ TablesTyped'
             /\ \A q \in Playlists : created[q] > 0 => created'[q] = created[q]
  <2>1. version[p] > 0 /\ Len(Versions[p]) \in Nat /\ version[p] < Len(Versions[p])
    BY <1>3, ConstantFacts DEF Replace, Stored
  <2> QED
    BY <1>3, <2>1 DEF Replace
<1>4. ASSUME NEW p \in Playlists, Delete(p)
      PROVE  /\ TablesTyped'
             /\ \A q \in Playlists : created[q] > 0 => created'[q] = created[q]
  BY <1>4, ConstantFacts DEF Delete
<1>5. (\E doc \in Documents : WriteContainer(doc)) \/ DeleteContainer
      => UNCHANGED <<now, open, created, version>>
  BY DEF WriteContainer, DeleteContainer
<1> QED
  BY <1>1, <1>2, <1>3, <1>4, <1>5 DEF Write

LEMMA DocumentRows ==
    ASSUME NEW doc \in Documents
    PROVE  /\ RowsOf(doc) \in SUBSET RowsOfList("members") /\ IsFiniteSet(RowsOf(doc))
           /\ \A m \in RowsOf(doc) : \E i \in DOMAIN doc : m.of = doc[i]
           /\ \A m, n \in RowsOf(doc) : m.key = n.key => m = n
<1> DEFINE f == [i \in DOMAIN doc |-> [key |-> <<i>>, of |-> doc[i]]]
<1>1. doc \in Seq(Playlists)
  BY PagingAssumption
<1>2. DOMAIN doc = 1 .. Len(doc) /\ Len(doc) \in Nat /\ \A i \in DOMAIN doc : doc[i] \in Playlists
  BY <1>1, LenProperties, ElementOfSeq
<1>3. IsFiniteSet(RowsOf(doc))
  <2>1. DOMAIN f = DOMAIN doc /\ f = [i \in DOMAIN doc |-> f[i]] /\ RowsOf(doc) = {f[i] : i \in DOMAIN doc}
    BY DEF RowsOf
  <2>2. IsFiniteSet(DOMAIN doc)
    BY <1>2, FS_Interval
  <2> HIDE DEF f
  <2> QED
    BY <2>1, <2>2, ImageFinite
<1>4. ASSUME NEW m \in RowsOf(doc)
      PROVE  /\ m \in RowsOfList("members")
             /\ \E i \in DOMAIN doc : m = [key |-> <<i>>, of |-> doc[i]]
  <2>1. PICK i \in DOMAIN doc : m = [key |-> <<i>>, of |-> doc[i]]
    BY DEF RowsOf
  <2>2. <<i>> \in [1 .. 1 -> Nat] /\ doc[i] \in Playlists
    BY <1>2
  <2>3. Dim("members") = 1
    BY DEF Dim
  <2> QED
    BY <2>1, <2>2, <2>3 DEF RowsOfList, Keys
<1>5. \A i, j : <<i>> = <<j>> => i = j
  OBVIOUS
<1>6. \A m, n \in RowsOf(doc) : m.key = n.key => m = n
  BY <1>4, <1>5
<1> QED
  BY <1>3, <1>4, <1>6

LEMMA WriteMembers ==
    ASSUME TablesTyped, MembersTyped, Write
    PROVE  MembersTyped' /\ ContainerMoves
<1>0. container.id \in Nat /\ container.rev \in Nat /\ container.there \in BOOLEAN
      /\ container.rows \in SUBSET RowsOfList("members")
  BY DEF MembersTyped
<1>1. ASSUME UNCHANGED <<container, replaced>>,
             \A m \in container.rows : version[m.of] > 0 => version'[m.of] > 0
      PROVE  MembersTyped' /\ ContainerMoves
  BY <1>1 DEF MembersTyped, ContainerMoves
<1>2. ASSUME NEW b \in Batches, BeginInsert(b) PROVE MembersTyped' /\ ContainerMoves
  BY <1>1, <1>2 DEF BeginInsert
<1>3. ASSUME NEW b \in Batches, CommitInsert(b) PROVE MembersTyped' /\ ContainerMoves
  <2>1. \A m \in container.rows : m.of \in Playlists
    BY <1>0 DEF RowsOfList
  <2>2. \A p \in Playlists : version'[p] = 1 \/ version'[p] = version[p]
    BY <1>3 DEF CommitInsert
  <2> QED
    BY <1>1, <1>3, <2>1, <2>2 DEF CommitInsert
<1>4. ASSUME NEW p \in Playlists, Replace(p) PROVE MembersTyped' /\ ContainerMoves
  <2>1. \A q \in Playlists : version'[q] = version[q] \/ version'[q] = version[q] + 1
    BY <1>4 DEF Replace, TablesTyped
  <2>2. \A m \in container.rows : m.of \in Playlists /\ version[m.of] \in Nat
    BY <1>0 DEF RowsOfList, TablesTyped
  <2>3. \A m \in container.rows : version[m.of] > 0 => version'[m.of] > 0
    BY <2>1, <2>2
  <2> QED
    BY <1>1, <1>4, <2>3 DEF Replace
<1>5. ASSUME NEW p \in Playlists, Delete(p) PROVE MembersTyped' /\ ContainerMoves
  <2> DEFINE R == {m \in container.rows : m.of # p}
  <2>1. container' = [container EXCEPT !.rows = R] /\ replaced' = replaced
    BY <1>5 DEF Delete
  <2>2. R \subseteq container.rows /\ \A m \in R : version'[m.of] = version[m.of]
    <3>1. \A q \in Playlists : q # p => version'[q] = version[q]
      BY <1>5 DEF Delete, TablesTyped
    <3> QED
      BY <1>0, <3>1 DEF RowsOfList
  <2>3. IsFiniteSet(R)
    BY <2>2, FS_Subset DEF MembersTyped
  <2> HIDE DEF R
  <2>4. /\ container' \in [id : 1 .. MaxWrites, there : BOOLEAN, rev : 1 .. MaxWrites,
                           rows : SUBSET RowsOfList("members")]
        /\ container'.rows = R /\ container'.id = container.id /\ container'.rev = container.rev
        /\ container'.there = container.there
    BY <2>1, <2>2 DEF MembersTyped
  <2>5. MembersTyped'
    BY <2>2, <2>3, <2>4 DEF MembersTyped
  <2> QED
    BY <2>1, <2>2, <2>4, <2>5 DEF ContainerMoves
<1>6. ASSUME NEW doc \in Documents, WriteContainer(doc) PROVE MembersTyped' /\ ContainerMoves
  <2> DEFINE R == RowsOf(doc)
             id == IF container.there THEN container.id ELSE container.id + 1
             rev == IF container.there THEN container.rev + 1 ELSE 1
  <2>1. container' = [container EXCEPT !.there = TRUE, !.rows = R, !.id = id, !.rev = rev]
        /\ container'.id <= MaxWrites /\ container'.rev <= MaxWrites /\ replaced' = TRUE
        /\ version' = version
    BY <1>6 DEF WriteContainer
  <2>2. \A m \in R : version[m.of] > 0
    BY <1>6, DocumentRows DEF WriteContainer, Stored
  <2>3. R \in SUBSET RowsOfList("members") /\ IsFiniteSet(R)
        /\ \A m, n \in R : m.key = n.key => m = n
    BY DocumentRows
  <2>4. id \in Nat \ {0} /\ rev \in Nat \ {0}
    BY DEF MembersTyped
  <2>5. /\ container.there => id = container.id /\ rev > container.rev
        /\ ~ container.there => id > container.id
    BY <1>0
  <2> HIDE DEF R, id, rev
  <2>6. /\ container'.id = id /\ container'.rev = rev /\ container'.there = TRUE /\ container'.rows = R
        /\ container' = [id |-> id, there |-> TRUE, rev |-> rev, rows |-> R]
    BY <2>1 DEF MembersTyped
  <2>7. id \in 1 .. MaxWrites /\ rev \in 1 .. MaxWrites
    BY <2>1, <2>4, <2>6, ConstantFacts
  <2>8. MembersTyped'
    BY <2>1, <2>2, <2>3, <2>6, <2>7 DEF MembersTyped
  <2> QED
    BY <1>0, <2>1, <2>5, <2>6, <2>8 DEF ContainerMoves
<1>7. ASSUME DeleteContainer PROVE MembersTyped' /\ ContainerMoves
  <2>1. container' = [container EXCEPT !.there = FALSE, !.rows = {}] /\ replaced' = TRUE
    BY <1>7 DEF DeleteContainer
  <2>2. /\ container'.id = container.id /\ container'.rev = container.rev
        /\ container'.there = FALSE /\ container'.rows = {}
        /\ container' \in [id : 1 .. MaxWrites, there : BOOLEAN, rev : 1 .. MaxWrites,
                           rows : SUBSET RowsOfList("members")]
    BY <2>1 DEF MembersTyped
  <2>3. MembersTyped'
    BY <2>2, FS_EmptySet DEF MembersTyped
  <2> QED
    BY <2>1, <2>2, <2>3 DEF ContainerMoves
<1> QED
  BY <1>2, <1>3, <1>4, <1>5, <1>6, <1>7 DEF Write

-----------------------------------------------------------------------------
(* The client *)

Outcomes == {"paging", "ended", "refused", "misused"}

(* The lists that honour the tokens of the client's own. *)
Kin == IF list \in {"items", "scoped"} THEN {"items", "scoped"} ELSE {list}

ClientTyped ==
    /\ list \in Lists /\ sort \in Directions /\ outcome \in Outcomes
    /\ token = NoToken \/ token \in Tokens(list)
    /\ pages \in Seq([list : Kin, rows : SUBSET RowsOfList(list)])
    /\ steady \in SUBSET RowsOfList(list) /\ base \in SUBSET RowsOfList(list)

Stage == outcome = "paging" => (token = NoToken <=> pages = <<>>)

(* A container resolved for a page and replaced by another since had no rows. *)
Scope ==
    /\ resolved \in Nat
    /\ resolved # 0 => /\ list \in {"items", "scoped"} /\ outcome = "paging" /\ resolved <= container.id
                       /\ list = "scoped" /\ resolved # container.id => steady = {}
                       /\ list = "items" => token # NoToken

Current == outcome = "paging" => steady \subseteq Rows

DatedPages ==
    list # "members" => \A i \in DOMAIN pages : \A r \in pages[i].rows :
                            created[r.of] > 0 /\ r.key[1] = created[r.of]

Going == outcome = "paging" /\ token # NoToken

(* Nothing shown lies beyond the token. *)
Behind ==
    Going => \A i \in DOMAIN pages : \A r \in pages[i].rows : ~ After(r.key, KeyOf(token), sort)

Strict ==
    \A i, j \in DOMAIN pages : i < j =>
        \A r \in pages[i].rows, q \in pages[j].rows : After(q.key, r.key, sort)

(* What is listed all along and was not shown lies beyond the token. *)
Ahead ==
    Going /\ StaysWithList => \A r \in steady : r \in Shown \/ After(r.key, KeyOf(token), sort) \/ Tied(r)

(* What a membership token is bound to: the container's rows are those of the
   first page as long as id and revision are the token's. *)
Pinned ==
    /\ token.sort = sort /\ token.cid <= container.id
    /\ token.cid = container.id => token.rev <= container.rev
    /\ token.cid = container.id /\ token.rev = container.rev => container.rows \subseteq base
    /\ ~ replaced => token.cid = container.id /\ token.rev = container.rev

Doc == list = "members" => /\ \A i \in DOMAIN pages : pages[i].rows \subseteq base
                           /\ Going => Pinned

IInv ==
    /\ TablesTyped /\ MembersTyped /\ ClientTyped
    /\ Stage /\ Scope /\ Current
    /\ DatedPages /\ Strict /\ Behind /\ Ahead /\ NothingSkipped
    /\ Doc /\ RefusedOnlyAfterWrite

LEMMA PageFacts ==
    ASSUME ClientTyped
    PROVE  /\ Len(pages) \in Nat /\ DOMAIN pages = 1 .. Len(pages)
           /\ \A i \in DOMAIN pages : pages[i].list \in Kin /\ pages[i].rows \in SUBSET RowsOfList(list)
           /\ \A r \in RowsOfList(list) : r.key \in Keys(Dim(list)) /\ r.of \in Playlists
           /\ Dim(list) \in 1 .. 3
<1>1. Len(pages) \in Nat /\ DOMAIN pages = 1 .. Len(pages)
  BY LenProperties DEF ClientTyped
<1>2. \A i \in DOMAIN pages : pages[i] \in [list : Kin, rows : SUBSET RowsOfList(list)]
  BY <1>1, ElementOfSeq DEF ClientTyped
<1>3. \A r \in RowsOfList(list) : r.key \in Keys(Dim(list)) /\ r.of \in Playlists
  BY DEF RowsOfList
<1>4. Dim(list) \in 1 .. 3
  BY DEF Dim
<1> QED
  BY <1>1, <1>2, <1>3, <1>4

LEMMA Initially == Init => IInv
<1> SUFFICES ASSUME Init PROVE IInv
  OBVIOUS
<1>1. TablesTyped
  BY ConstantFacts DEF Init, TablesTyped
<1>2. MembersTyped
  BY ConstantFacts, FS_EmptySet DEF Init, MembersTyped
<1>3. pages = <<>> /\ DOMAIN pages = {}
  BY DEF Init
<1>4. ClientTyped
  BY <1>3, EmptySeq DEF Init, ClientTyped, Directions, Outcomes
<1>5. Stage /\ Scope /\ Current /\ Behind /\ Ahead /\ NothingSkipped
  BY <1>3 DEF Init, Stage, Scope, Current, Behind, Ahead, Going, NothingSkipped
<1>6. DatedPages /\ Strict /\ Doc /\ RefusedOnlyAfterWrite
  BY <1>3 DEF Init, DatedPages, Strict, Doc, Going, RefusedOnlyAfterWrite
<1> QED
  BY <1>1, <1>2, <1>4, <1>5, <1>6 DEF IInv

-----------------------------------------------------------------------------
(* The store moves *)

LEMMA TiedStays ==
    ASSUME TablesTyped, \A p \in Playlists : created[p] > 0 => created'[p] = created[p],
           UNCHANGED list, NEW r, r.of \in Playlists, created[r.of] > 0, Tied(r)
    PROVE  Tied(r)'
<1>1. list' \in {"items", "scoped"}
  BY DEF Tied
<1>2. PICK p \in Playlists \ {r.of} :
        /\ created[p] = created[r.of]
        /\ \E v \in DOMAIN Versions[p] :
             r.key[2] \in DOMAIN Versions[p][v].items /\ Versions[p][v].items[r.key[2]] = r.key[3]
  BY DEF Tied
<1>3. created'[p] = created'[r.of]
  BY <1>2
<1> QED
  BY <1>1, <1>2, <1>3 DEF Tied

LEMMA StoreStep ==
    ASSUME IInv, Store
    PROVE  IInv'
<1>1. outcome = "paging" /\ Write /\ UNCHANGED client /\ steady' = steady \cap Rows'
  BY DEF Store
<1>2. UNCHANGED <<list, sort, token, resolved, pages, outcome, base>> /\ steady' \subseteq steady
  BY <1>1 DEF client
<1>3. TablesTyped' /\ \A p \in Playlists : created[p] > 0 => created'[p] = created[p]
  BY <1>1, WriteTables DEF IInv
<1>4. MembersTyped' /\ ContainerMoves
  BY <1>1, WriteMembers DEF IInv
<1>5. ClientTyped'
  BY <1>2 DEF IInv, ClientTyped, Kin
<1>6. Stage' /\ Current' /\ NothingSkipped' /\ RefusedOnlyAfterWrite' /\ StaysWithList' = StaysWithList
  BY <1>1, <1>2 DEF IInv, Stage, Current, NothingSkipped, RefusedOnlyAfterWrite, StaysWithList
<1>7. Scope'
  <2> SUFFICES ASSUME resolved # 0
               PROVE  /\ resolved <= container'.id
                      /\ list = "scoped" /\ resolved # container'.id => steady' = {}
    BY <1>2 DEF IInv, Scope
  <2>1. /\ resolved \in Nat /\ resolved <= container.id
        /\ list = "scoped" /\ resolved # container.id => steady = {}
    BY DEF IInv, Scope
  <2>2. container.id \in Nat /\ container'.id \in Nat /\ container'.id >= container.id
    BY <1>4 DEF IInv, MembersTyped, ContainerMoves
  <2>3. CASE container'.id = container.id
    BY <1>2, <2>1, <2>3
  <2>4. CASE container'.id > container.id
    <3>1. ~ container.there
      BY <1>4, <2>2, <2>4 DEF ContainerMoves
    <3>2. list = "scoped" => steady = {}
      BY <1>1, <3>1, NoRows DEF IInv, Current
    <3> QED
      BY <1>2, <2>1, <2>2, <2>4, <3>2
  <2> QED
    BY <2>2, <2>3, <2>4
<1>8. Strict' /\ Behind'
  BY <1>2 DEF IInv, Strict, Behind, Going
<1>9. DatedPages'
  <2> SUFFICES ASSUME list # "members", NEW i \in DOMAIN pages, NEW r \in pages[i].rows
               PROVE  created'[r.of] > 0 /\ r.key[1] = created'[r.of]
    BY <1>2 DEF DatedPages
  <2>1. created[r.of] > 0 /\ r.key[1] = created[r.of] /\ r.of \in Playlists
    BY PageFacts DEF IInv, DatedPages
  <2> QED
    BY <1>3, <2>1
<1>10. Ahead'
  <2> SUFFICES ASSUME Going, StaysWithList, NEW r \in steady'
               PROVE  r \in Shown \/ After(r.key, KeyOf(token), sort) \/ Tied(r)'
    BY <1>2, <1>6 DEF Ahead, Going, Shown
  <2>1. r \in steady
    BY <1>2
  <2>2. r \in Shown \/ After(r.key, KeyOf(token), sort) \/ Tied(r)
    BY <2>1 DEF IInv, Ahead
  <2>3. CASE Tied(r)
    <3>1. list # "members" /\ r \in Rows /\ Good(Rows)
      BY <1>1, <2>1, <2>3, GoodRows DEF Tied, IInv, Current, ClientTyped
    <3>2. r.of \in Playlists /\ created[r.of] > 0
      BY <3>1, BodyFacts DEF Good, Dated, IInv
    <3> QED
      BY <1>2, <1>3, <2>3, <3>2, TiedStays DEF IInv
  <2> QED
    BY <2>2, <2>3
<1>11. Doc'
  <2> SUFFICES ASSUME list = "members", Going PROVE Pinned'
    BY <1>2 DEF IInv, Doc, Going
  <2>1. Pinned /\ token \in Tokens("members")
    BY DEF IInv, Doc, Going, ClientTyped
  <2>2. token.cid \in Nat /\ token.rev \in Nat
    BY <2>1 DEF Tokens
  <2>3. /\ container.id \in Nat /\ container.rev \in Nat
        /\ container'.id \in Nat /\ container'.rev \in Nat
    BY <1>4 DEF IInv, MembersTyped
  <2>4. /\ container'.id >= container.id
        /\ container'.id = container.id => container'.rev >= container.rev
        /\ container'.id = container.id /\ container'.rev = container.rev
             => container'.rows \subseteq container.rows
        /\ ~ replaced' => ~ replaced /\ container'.id = container.id /\ container'.rev = container.rev
    BY <1>4, <2>3 DEF ContainerMoves
  <2>5. token.sort = sort /\ token.cid <= container'.id
    BY <2>1, <2>2, <2>3, <2>4 DEF Pinned
  <2>6. token.cid = container'.id => token.cid = container.id /\ container'.id = container.id
    BY <2>1, <2>2, <2>3, <2>4 DEF Pinned
  <2>7. token.cid = container'.id => token.rev <= container'.rev
    BY <2>1, <2>2, <2>3, <2>4, <2>6 DEF Pinned
  <2>8. token.cid = container'.id /\ token.rev = container'.rev => container'.rows \subseteq base
    <3> SUFFICES ASSUME token.cid = container'.id, token.rev = container'.rev
                 PROVE  container'.rows \subseteq base
      OBVIOUS
    <3>1. container'.id = container.id /\ token.cid = container.id
      BY <2>6
    <3>2. container'.rev = container.rev
      BY <2>1, <2>2, <2>3, <2>4, <3>1 DEF Pinned
    <3> QED
      BY <2>1, <2>4, <3>1, <3>2 DEF Pinned
  <2>9. ~ replaced' => token.cid = container'.id /\ token.rev = container'.rev
    BY <2>1, <2>4 DEF Pinned
  <2> QED
    BY <1>2, <2>5, <2>7, <2>8, <2>9 DEF Pinned
<1> QED
  BY <1>3, <1>4, <1>5, <1>6, <1>7, <1>8, <1>9, <1>10, <1>11 DEF IInv

-----------------------------------------------------------------------------
(* The client asks *)

Rest(rows) == {r \in rows : token = NoToken \/ After(r.key, KeyOf(token), sort)}

(* A page of list l: page is the head of what rows hold beyond the token. *)
Served(l, rows, page) ==
    /\ outcome = "paging"
    /\ l \in Kin /\ (l = list \/ token # NoToken)
    /\ Good(rows) /\ (l = list => rows \subseteq Rows /\ steady \subseteq rows)
    /\ list = "members" => rows = container.rows /\ (token = NoToken \/ Bound(sort))
    /\ page \in SUBSET Rest(rows)
    /\ \A r \in page, q \in Rest(rows) \ page : ~ After(r.key, q.key, sort)
    /\ pages' = Append(pages, [list |-> l, rows |-> page])
    /\ \/ page = Rest(rows) /\ Ends
       \/ /\ outcome' = "paging"
          /\ \E last \in page : /\ token' = TokenFor(list, last)
                                /\ \A q \in page : ~ After(q.key, last.key, sort)
    /\ \/ pages = <<>> /\ steady' = rows /\ base' = rows /\ replaced' = FALSE
       \/ pages # <<>> /\ UNCHANGED <<steady, base, replaced>>
    /\ resolved' = 0
    /\ UNCHANGED <<store, list, sort>>

(* The last, empty page of a container that is not there. *)
Emptied(l) ==
    /\ outcome = "paging" /\ resolved = 0
    /\ l \in Kin /\ (l = list => steady = {})
    /\ pages' = Append(pages, [list |-> l, rows |-> {}])
    /\ Ends
    /\ UNCHANGED <<store, list, sort, resolved, steady, base, replaced>>

Refused ==
    /\ outcome' \in {"refused", "misused"}
    /\ outcome' = "refused" => list = "members" /\ replaced
    /\ resolved = 0
    /\ UNCHANGED <<store, list, sort, resolved, token, pages, base, steady, replaced>>

Resolved ==
    /\ list \in {"items", "scoped"} /\ (list = "items" => token # NoToken) /\ outcome = "paging" /\ container.there
    /\ resolved' = container.id
    /\ UNCHANGED <<store, list, sort, token, pages, outcome, base, steady, replaced>>

LEMMA ServeForm ==
    ASSUME IInv, outcome = "paging", NEW l \in Kin, l = list \/ token # NoToken,
           NEW rows, Good(rows), l = list => rows \subseteq Rows /\ steady \subseteq rows,
           list = "members" => rows = container.rows /\ (token = NoToken \/ Bound(sort)),
           Serve(l, rows), resolved' = 0, UNCHANGED <<store, list, sort>>
    PROVE  \E page : Served(l, rows, page)
<1>0. \A row : TokenFor(l, row) = TokenFor(list, row)
  BY DEF Kin, TokenFor
<1>1. PICK page \in SUBSET Rest(rows) :
        /\ Cardinality(page) = Limit \/ (page = Rest(rows) /\ Cardinality(Rest(rows)) <= Limit)
        /\ \A r \in page, q \in Rest(rows) \ page : ~ After(r.key, q.key, sort)
        /\ pages' = Append(pages, [list |-> l, rows |-> page])
        /\ IF page = Rest(rows) THEN Ends
           ELSE /\ outcome' = "paging"
                /\ token' = TokenFor(l, CHOOSE r \in page :
                                          \A q \in page : ~ After(q.key, r.key, sort))
        /\ IF pages = <<>> THEN steady' = rows /\ base' = rows /\ replaced' = FALSE
                           ELSE UNCHANGED <<steady, base, replaced>>
  BY DEF Serve, Rest
<1>2. ASSUME page # Rest(rows)
      PROVE  \E last \in page : /\ token' = TokenFor(list, last)
                                /\ \A q \in page : ~ After(q.key, last.key, sort)
  <2>1. Rest(rows) \subseteq rows /\ IsFiniteSet(rows) /\ rows \subseteq RowsOfList(list)
    BY DEF Rest, Good
  <2>2. IsFiniteSet(page) /\ \A r \in page : r.key \in Keys(Dim(list))
    BY <2>1, PageFacts, FS_Subset DEF IInv
  <2>3. page # {}
    BY <1>1, <1>2, ConstantFacts, FS_EmptySet
  <2>4. Dim(list) \in Nat
    BY PageFacts DEF IInv
  <2>5. \E r \in page : \A q \in page : ~ After(q.key, r.key, sort)
    BY <2>2, <2>3, <2>4, LastRow
  <2>6. token' = TokenFor(list, CHOOSE r \in page : \A q \in page : ~ After(q.key, r.key, sort))
    BY <1>0, <1>1, <1>2
  <2> QED
    BY <2>5, <2>6
<1>3. Served(l, rows, page)
  BY <1>1, <1>2 DEF Served
<1> QED
  BY <1>3

Asked == (\E l, rows, page : Served(l, rows, page)) \/ (\E l : Emptied(l)) \/ Refused \/ Resolved

LEMMA ServeAsked ==
    ASSUME IInv, outcome = "paging", NEW l \in Kin, l = list \/ token # NoToken,
           NEW rows, Good(rows), l = list => rows \subseteq Rows /\ steady \subseteq rows,
           list = "members" => rows = container.rows /\ (token = NoToken \/ Bound(sort)),
           Serve(l, rows), resolved' = 0, UNCHANGED <<store, list, sort>>
    PROVE  Asked
BY ServeForm DEF Asked

(* A token of another list is refused. *)
LEMMA MisusedToken ==
    ASSUME IInv, outcome = "paging", resolved = 0, NEW l, l # list, Refuse(l),
           UNCHANGED <<store, list, sort, resolved>>
    PROVE  Asked
BY DEF Refuse, Refused, Asked

LEMMA PlaylistsAsked ==
    ASSUME IInv, ReadPlaylists
    PROVE  Asked
<1>1. /\ outcome = "paging" /\ resolved = 0 /\ (list = "playlists" \/ token # NoToken)
      /\ UNCHANGED <<store, list, sort, resolved>>
      /\ IF token = NoToken \/ DecodesAsPlain(token) THEN Serve("playlists", PlaylistRows)
                                                    ELSE Refuse("playlists")
  BY DEF ReadPlaylists, Asks, ServeIf
<1>2. token = NoToken \/ (DecodesAsPlain(token) <=> list = "playlists")
  BY TokenFacts DEF IInv, ClientTyped
<1>3. CASE list = "playlists"
  <2>1. PICK rows : rows = PlaylistRows
    OBVIOUS
  <2>2. Serve(list, rows)
    BY <1>1, <1>2, <1>3, <2>1 DEF Serve
  <2>3. rows = Rows /\ Good(rows) /\ steady \subseteq rows
    BY <1>1, <1>3, <2>1, GoodPlaylists DEF IInv, Rows, Current
  <2>4. list \in Kin
    BY DEF Kin
  <2> QED
    BY <1>1, <1>3, <2>2, <2>3, <2>4, ServeAsked
<1>4. CASE list # "playlists"
  BY <1>1, <1>2, <1>4, MisusedToken
<1> QED
  BY <1>3, <1>4

LEMMA ItemsAsked ==
    ASSUME IInv, ReadItems
    PROVE  Asked
<1>1. /\ outcome = "paging" /\ resolved = 0 /\ (list = "items" \/ token # NoToken)
      /\ UNCHANGED <<store, list, sort, resolved>>
      /\ IF token = NoToken \/ DecodesAsItem(token) THEN Serve("items", IndexRows(Listed))
                                                   ELSE Refuse("items")
  BY DEF ReadItems, Asks, ServeIf
<1>2. token = NoToken \/ (DecodesAsItem(token) <=> list \in {"items", "scoped"})
  BY <1>1, TokenFacts DEF IInv, ClientTyped
<1>3. CASE list \in {"items", "scoped"}
  <2>1. PICK rows : rows = IndexRows(Listed)
    OBVIOUS
  <2>2. Serve("items", rows)
    BY <1>1, <1>2, <1>3, <2>1 DEF Serve
  <2>3. Good(rows)
    <3>1. Listed \in SUBSET Stored
      BY DEF Listed
    <3> QED
      BY <1>3, <2>1, <3>1, GoodIndex DEF IInv
  <2>4. list = "items" => rows \subseteq Rows /\ steady \subseteq rows
    BY <1>1, <2>1 DEF IInv, Current, Rows
  <2>5. "items" \in Kin
    BY <1>3 DEF Kin
  <2> QED
    BY <1>1, <1>3, <2>2, <2>3, <2>4, <2>5, ServeAsked
<1>4. CASE list \notin {"items", "scoped"}
  BY <1>1, <1>2, <1>4, MisusedToken
<1> QED
  BY <1>3, <1>4

LEMMA ScopeAsked ==
    ASSUME IInv, ResolveScope
    PROVE  Asked
<1>1. /\ outcome = "paging" /\ resolved = 0 /\ (list = "scoped" \/ token # NoToken)
      /\ UNCHANGED <<store, list, sort>>
  BY DEF ResolveScope, Asks
<1>2. token = NoToken \/ (DecodesAsItem(token) <=> list \in {"items", "scoped"})
  BY <1>1, TokenFacts DEF IInv, ClientTyped
<1>3. CASE list \in {"items", "scoped"}
  <2>1. IF container.there
          THEN resolved' = container.id /\ UNCHANGED <<token, pages, outcome, base, steady, replaced>>
          ELSE ServeUnknown("scoped") /\ UNCHANGED resolved
    BY <1>2, <1>3 DEF ResolveScope
  <2>2. CASE container.there
    BY <1>1, <1>3, <2>1, <2>2 DEF Resolved, Asked
  <2>3. CASE ~ container.there
    <3>1. list = "scoped" => steady = {}
      BY <1>1, <2>3, NoRows DEF IInv, Current
    <3>2. "scoped" \in Kin
      BY <1>3 DEF Kin
    <3>3. Emptied("scoped")
      BY <1>1, <1>3, <2>1, <2>3, <3>1, <3>2 DEF ServeUnknown, Emptied
    <3> QED
      BY <3>3 DEF Asked
  <2> QED
    BY <2>2, <2>3
<1>4. CASE list \notin {"items", "scoped"}
  <2>1. Refuse("scoped") /\ UNCHANGED resolved
    BY <1>1, <1>2, <1>4 DEF ResolveScope
  <2> QED
    BY <1>1, <1>4, <2>1, MisusedToken
<1> QED
  BY <1>3, <1>4

LEMMA ScopedAsked ==
    ASSUME IInv, ReadScoped
    PROVE  Asked
<1>1. /\ resolved # 0 /\ Serve("scoped", IndexRows(Members(resolved))) /\ resolved' = 0
      /\ UNCHANGED <<store, list, sort>>
  BY DEF ReadScoped
<1>2. /\ list \in {"items", "scoped"} /\ outcome = "paging"
      /\ list = "scoped" /\ resolved # container.id => steady = {}
      /\ list = "scoped" \/ token # NoToken
  BY <1>1 DEF IInv, Scope
<1>3. PICK rows : rows = IndexRows(Members(resolved))
  OBVIOUS
<1>4. Serve("scoped", rows) /\ "scoped" \in Kin
  BY <1>1, <1>2, <1>3 DEF Serve, Kin
<1>5. Good(rows)
  <2>1. Members(resolved) \in SUBSET Stored
    BY MembersStored DEF IInv
  <2> QED
    BY <1>2, <1>3, <2>1, GoodIndex DEF IInv
<1>6. list = "scoped" => steady \subseteq rows
  <2>1. CASE resolved = container.id
    BY <1>2, <1>3, <2>1 DEF IInv, Current, Rows
  <2> QED
    BY <1>2, <2>1
<1>7. list = "scoped" => rows \subseteq Rows
  <2>1. CASE resolved = container.id
    BY <1>3, <2>1 DEF Rows
  <2>2. CASE resolved # container.id
    <3>1. Members(resolved) = {}
      BY <2>2 DEF Members, MemberRows
    <3> QED
      BY <1>3, <3>1 DEF IndexRows
  <2> QED
    BY <2>1, <2>2
<1> QED
  BY <1>1, <1>2, <1>4, <1>5, <1>6, <1>7, ServeAsked

LEMMA MembersAsked ==
    ASSUME IInv, NEW dir \in {"asc", "desc"}, ReadMembers(dir)
    PROVE  Asked
<1>1. /\ outcome = "paging" /\ resolved = 0 /\ (list = "members" \/ token # NoToken)
      /\ dir = sort \/ token # NoToken
      /\ UNCHANGED <<store, list, sort, resolved>>
      /\ IF token # NoToken /\ ~ DecodesAsMembership(token) THEN Refuse("members")
         ELSE IF ~ container.there THEN ServeUnknown("members")
         ELSE IF token = NoToken \/ Bound(dir) THEN Serve("members", MemberRows(container.id))
         ELSE Refuse(IF dir = sort THEN "members" ELSE "other direction")
  BY DEF ReadMembers, Asks
<1>2. token = NoToken \/ (DecodesAsMembership(token) <=> list = "members")
  BY TokenFacts DEF IInv, ClientTyped
<1>3. CASE list # "members"
  BY <1>1, <1>2, <1>3, MisusedToken
<1>4. CASE list = "members" /\ ~ container.there
  <2>1. ServeUnknown("members")
    BY <1>1, <1>2, <1>4
  <2>2. steady = {}
    BY <1>1, <1>4, NoRows DEF IInv, Current
  <2>3. Emptied("members")
    BY <1>1, <1>4, <2>1, <2>2 DEF ServeUnknown, Emptied, Kin
  <2> QED
    BY <2>3 DEF Asked
<1>5. CASE list = "members" /\ container.there /\ (token = NoToken \/ Bound(dir))
  <2>1. Serve("members", MemberRows(container.id))
    BY <1>1, <1>2, <1>5
  <2>2. token # NoToken => Pinned
    BY <1>1, <1>5 DEF IInv, Doc, Going
  <2>3. token = NoToken \/ Bound(sort)
    BY <1>5, <2>2 DEF Bound, Pinned
  <2>4. PICK rows : rows = MemberRows(container.id)
    OBVIOUS
  <2>5. rows = container.rows
    BY <1>5, <2>4 DEF MemberRows
  <2>6. Serve(list, rows)
    BY <1>5, <2>1, <2>4 DEF Serve
  <2>7. rows = Rows /\ Good(rows) /\ steady \subseteq rows
    BY <1>1, <1>5, <2>4, GoodMembers DEF IInv, Current, Rows
  <2>8. list \in Kin
    BY DEF Kin
  <2> QED
    BY <1>1, <2>3, <2>5, <2>6, <2>7, <2>8, ServeAsked
<1>6. CASE list = "members" /\ container.there /\ ~ (token = NoToken \/ Bound(dir))
  <2>1. Refuse(IF dir = sort THEN "members" ELSE "other direction")
    BY <1>1, <1>2, <1>6
  <2>2. Pinned
    BY <1>1, <1>6 DEF IInv, Doc, Going
  <2>3. dir = sort => replaced
    BY <1>6, <2>2 DEF Bound, Pinned
  <2>4. /\ outcome' = IF dir = sort THEN "refused" ELSE "misused"
        /\ UNCHANGED <<token, pages, base, steady, replaced>>
    BY <1>6, <2>1 DEF Refuse
  <2> QED
    BY <1>1, <1>6, <2>3, <2>4 DEF Refused, Asked
<1> QED
  BY <1>3, <1>4, <1>5, <1>6

-----------------------------------------------------------------------------
(* The answer *)

(* Nothing of the tables changes. *)
Rested == UNCHANGED <<store, list, sort>>

LEMMA RestedTables ==
    ASSUME IInv, Rested
    PROVE  /\ TablesTyped' /\ MembersTyped' /\ Rows' = Rows
           /\ \A r : Tied(r) => Tied(r)'
<1>1. UNCHANGED <<now, open, created, version, container, list, sort>>
  BY DEF Rested, store
<1>2. TablesTyped' /\ MembersTyped'
  BY <1>1 DEF IInv, TablesTyped, MembersTyped
<1>3. Rows' = Rows
  BY <1>1 DEF Rows, PlaylistRows, IndexRows, MemberRows, Members, Listed, Stored, Body
<1>4. \A r : Tied(r) => Tied(r)'
  BY <1>1 DEF Tied
<1> QED
  BY <1>2, <1>3, <1>4

(* The pages with one more. *)
LEMMA OneMore ==
    ASSUME IInv, NEW l \in Kin, NEW page \in SUBSET RowsOfList(list), Rested,
           pages' = Append(pages, [list |-> l, rows |-> page])
    PROVE  /\ pages' \in Seq([list : Kin, rows : SUBSET RowsOfList(list)])
           /\ DOMAIN pages' = 1 .. Len(pages) + 1 /\ pages' # <<>>
           /\ \A i \in DOMAIN pages : pages'[i] = pages[i]
           /\ pages'[Len(pages) + 1] = [list |-> l, rows |-> page]
           /\ \A i \in DOMAIN pages' : i \in DOMAIN pages \/ pages'[i].rows = page
           /\ StaysWithList' => l = list /\ StaysWithList
           /\ Shown' = Shown \cup page
<1> DEFINE S == [list : Kin, rows : SUBSET RowsOfList(list)]
           new == [list |-> l, rows |-> page]
<1>1. pages \in Seq(S) /\ new \in S
  BY DEF IInv, ClientTyped
<1>2. Len(pages) \in Nat /\ DOMAIN pages = 1 .. Len(pages)
  BY PageFacts DEF IInv
<1>3. new.rows = page /\ new.list = l
  OBVIOUS
<1> HIDE DEF S, new
<1>4. pages' = Append(pages, new)
  BY DEF new
<1>5. /\ pages' \in Seq(S) /\ Len(pages') = Len(pages) + 1
      /\ \A i \in 1 .. Len(pages) : pages'[i] = pages[i]
      /\ pages'[Len(pages) + 1] = new
  BY <1>1, <1>4, AppendProperties
<1>6. DOMAIN pages' = 1 .. Len(pages) + 1
  BY <1>5, LenProperties
<1>7. pages' # <<>>
  BY <1>1, <1>4, AppendProperties
<1>8. \A i \in DOMAIN pages' : i \in DOMAIN pages \/ i = Len(pages) + 1
  BY <1>2, <1>6
<1>9. Shown' = Shown \cup page
  <2>1. \A r : r \in Shown' <=> \E i \in DOMAIN pages' : r \in pages'[i].rows
    BY DEF Shown
  <2>2. \A r : r \in Shown <=> \E i \in DOMAIN pages : r \in pages[i].rows
    BY DEF Shown
  <2>3. DOMAIN pages \subseteq DOMAIN pages' /\ Len(pages) + 1 \in DOMAIN pages'
    BY <1>2, <1>6
  <2>4. \A r : r \in Shown' <=> r \in Shown \/ r \in page
    BY <1>2, <1>3, <1>5, <1>8, <2>1, <2>2, <2>3
  <2> QED
    BY <2>4
<1>10. StaysWithList' => l = list /\ StaysWithList
  <2> SUFFICES ASSUME StaysWithList' PROVE l = list /\ StaysWithList
    OBVIOUS
  <2>1. Len(pages) + 1 \in DOMAIN pages' /\ \A i \in DOMAIN pages : i \in DOMAIN pages'
    BY <1>2, <1>6
  <2>2. \A i \in DOMAIN pages' : pages'[i].list = list
    BY DEF StaysWithList, Rested
  <2> QED
    BY <1>2, <1>3, <1>5, <2>1, <2>2 DEF StaysWithList
<1> QED
  BY <1>2, <1>3, <1>5, <1>6, <1>7, <1>8, <1>9, <1>10 DEF S, new

LEMMA EmptiedStep ==
    ASSUME IInv, NEW l, Emptied(l)
    PROVE  IInv'
<1>1. /\ Rested /\ l \in Kin /\ pages' = Append(pages, [list |-> l, rows |-> {}])
      /\ outcome' = "ended" /\ token' = NoToken /\ resolved' = 0
      /\ UNCHANGED <<list, sort, created, steady, base, replaced>> /\ (l = list => steady = {})
  BY DEF Emptied, Rested, Ends, store
<1>2. TablesTyped' /\ MembersTyped' /\ Kin' = Kin
  BY <1>1, RestedTables DEF Kin
<1>3. {} \in SUBSET RowsOfList(list)
  OBVIOUS
<1>4. /\ pages' \in Seq([list : Kin, rows : SUBSET RowsOfList(list)])
      /\ DOMAIN pages' = 1 .. Len(pages) + 1
      /\ \A i \in DOMAIN pages : pages'[i] = pages[i]
      /\ \A i \in DOMAIN pages' : i \in DOMAIN pages \/ pages'[i].rows = {}
      /\ StaysWithList' => l = list
  BY <1>1, <1>3, OneMore
<1>5. ClientTyped'
  BY <1>1, <1>2, <1>4 DEF IInv, ClientTyped, Outcomes
<1>6. Stage' /\ Scope' /\ Current' /\ Behind' /\ Ahead' /\ NothingSkipped' /\ RefusedOnlyAfterWrite'
  BY <1>1, <1>4 DEF Stage, Scope, Current, Behind, Ahead, Going, NothingSkipped, RefusedOnlyAfterWrite
<1>7. DatedPages' /\ Strict' /\ Doc'
  BY <1>1, <1>4 DEF IInv, DatedPages, Strict, Doc, Going
<1> QED
  BY <1>2, <1>5, <1>6, <1>7 DEF IInv

LEMMA RefusedStep ==
    ASSUME IInv, Refused
    PROVE  IInv'
<1>1. /\ Rested /\ outcome' \in {"refused", "misused"}
      /\ outcome' = "refused" => list = "members" /\ replaced
      /\ resolved' = 0
      /\ UNCHANGED <<list, sort, created, token, pages, steady, base, replaced>>
  BY DEF Refused, Rested, store
<1>2. TablesTyped' /\ MembersTyped'
  BY <1>1, RestedTables
<1>3. ClientTyped'
  BY <1>1 DEF IInv, ClientTyped, Outcomes, Kin
<1>4. Stage' /\ Scope' /\ Current' /\ Behind' /\ Ahead' /\ NothingSkipped' /\ RefusedOnlyAfterWrite'
  BY <1>1 DEF Stage, Scope, Current, Behind, Ahead, Going, NothingSkipped, RefusedOnlyAfterWrite
<1>5. DatedPages' /\ Strict' /\ Doc'
  BY <1>1 DEF IInv, DatedPages, Strict, Doc, Going
<1> QED
  BY <1>2, <1>3, <1>4, <1>5 DEF IInv

LEMMA ResolvedStep ==
    ASSUME IInv, Resolved
    PROVE  IInv'
<1>1. /\ Rested /\ list \in {"items", "scoped"} /\ (list = "items" => token # NoToken)
      /\ outcome = "paging" /\ resolved' = container.id
      /\ UNCHANGED <<list, sort, created, container, token, pages, outcome, steady, base, replaced>>
  BY DEF Resolved, Rested, store
<1>2. TablesTyped' /\ MembersTyped' /\ Rows' = Rows /\ \A r : Tied(r) => Tied(r)'
  BY <1>1, RestedTables
<1>3. ClientTyped' /\ StaysWithList' = StaysWithList
  BY <1>1 DEF IInv, ClientTyped, Kin, StaysWithList
<1>4. Stage' /\ Current' /\ RefusedOnlyAfterWrite' /\ NothingSkipped'
  BY <1>1, <1>2 DEF IInv, Stage, Current, RefusedOnlyAfterWrite, NothingSkipped
<1>5. Scope'
  BY <1>1 DEF IInv, Scope, MembersTyped
<1>6. DatedPages' /\ Strict' /\ Behind' /\ Doc'
  BY <1>1 DEF IInv, DatedPages, Strict, Behind, Doc, Going
<1>7. Ahead'
  <2> SUFFICES ASSUME Going, StaysWithList, NEW r \in steady
               PROVE  r \in Shown \/ After(r.key, KeyOf(token), sort) \/ Tied(r)'
    BY <1>1, <1>3 DEF Ahead, Going, Shown
  <2> QED
    BY <1>2 DEF IInv, Ahead
<1> QED
  BY <1>2, <1>3, <1>4, <1>5, <1>6, <1>7 DEF IInv

(* What a page is, whether it is the first or not. *)
LEMMA ServedFacts ==
    ASSUME IInv, NEW l, NEW rows, NEW page, Served(l, rows, page)
    PROVE  /\ Rested /\ resolved' = 0 /\ outcome = "paging"
           /\ UNCHANGED <<list, sort, created, container>>
           /\ page \subseteq rows /\ rows \in SUBSET RowsOfList(list) /\ page \in SUBSET RowsOfList(list)
           /\ pages' = Append(pages, [list |-> l, rows |-> page])
           /\ l \in Kin /\ (l = list => steady' \subseteq rows)
           /\ pages = <<>> <=> token = NoToken
           /\ token # NoToken => /\ Going /\ token \in Tokens(list)
                                 /\ KeyOf(token) \in Keys(Dim(list))
                                 /\ \A r \in page : After(r.key, KeyOf(token), sort)
                                 /\ UNCHANGED <<steady, base, replaced>>
           /\ token = NoToken => /\ pages = <<>> /\ DOMAIN pages = {} /\ Rest(rows) = rows
                                 /\ steady' = rows /\ base' = rows
           /\ \A r \in rows : r.key \in Keys(Dim(list)) /\ r.of \in Playlists
           /\ Dim(list) \in Nat
<1>1. page \subseteq rows
  BY DEF Served, Rest
<1>2. rows \in SUBSET RowsOfList(list)
  BY DEF Served, Good
<1>3. pages = <<>> <=> token = NoToken
  BY DEF IInv, Stage, Served
<1>4. token # NoToken => /\ Going /\ token \in Tokens(list)
                         /\ KeyOf(token) \in Keys(Dim(list))
  BY TokenFacts DEF IInv, ClientTyped, Going, Served
<1>5. token # NoToken => UNCHANGED <<steady, base, replaced>>
  BY <1>3 DEF Served
<1>6. token # NoToken => \A r \in page : After(r.key, KeyOf(token), sort)
  BY DEF Served, Rest
<1>7. token = NoToken => /\ pages = <<>> /\ Rest(rows) = rows
                         /\ steady' = rows /\ base' = rows
  BY <1>3 DEF Served, Rest
<1>8. \A r \in rows : r.key \in Keys(Dim(list)) /\ r.of \in Playlists
  BY <1>2, PageFacts DEF IInv
<1>9. Dim(list) \in Nat
  BY PageFacts DEF IInv
<1>10. l \in Kin /\ (l = list => steady' \subseteq rows)
  BY <1>5, <1>7 DEF Served
<1>11. Rested /\ resolved' = 0 /\ outcome = "paging" /\ UNCHANGED <<list, sort, created, container>>
       /\ pages' = Append(pages, [list |-> l, rows |-> page])
  BY DEF Served, Rested, store
<1>12. pages = <<>> => DOMAIN pages = {}
  OBVIOUS
<1> QED
  BY <1>1, <1>2, <1>3, <1>4, <1>5, <1>6, <1>7, <1>8, <1>9, <1>10, <1>11, <1>12

(* The last row of a page that is not the last one. *)
LEMMA NextToken ==
    ASSUME IInv, NEW l, NEW rows, NEW page, Served(l, rows, page), outcome' = "paging"
    PROVE  \E last \in page : /\ token' = TokenFor(list, last)
                              /\ token' \in Tokens(list) /\ token' # NoToken
                              /\ KeyOf(token') = last.key
                              /\ \A q \in page : ~ After(q.key, last.key, sort)
                              /\ list = "members" => /\ token'.cid = container.id
                                                     /\ token'.rev = container.rev
                                                     /\ token'.sort = sort
<1>1. PICK last \in page : /\ token' = TokenFor(list, last)
                           /\ \A q \in page : ~ After(q.key, last.key, sort)
  BY DEF Served, Ends
<1>2. last \in RowsOfList(list)
  BY <1>1, ServedFacts
<1>3. list \in Lists /\ sort \in Directions /\ container.id \in Nat /\ container.rev \in Nat
  BY DEF IInv, ClientTyped, MembersTyped
<1>4. PICK tok : tok = TokenFor(list, last)
  OBVIOUS
<1>5. tok \in Tokens(list) /\ KeyOf(tok) = last.key
      /\ (list = "members" => tok.cid = container.id /\ tok.rev = container.rev /\ tok.sort = sort)
  BY <1>2, <1>3, <1>4, IssuedToken
<1>6. tok # NoToken
  BY <1>3, <1>5, TokenFacts
<1>7. token' = tok
  BY <1>1, <1>4
<1> QED
  BY <1>1, <1>5, <1>6, <1>7

LEMMA ServedTyped ==
    ASSUME IInv, NEW l, NEW rows, NEW page, Served(l, rows, page)
    PROVE  ClientTyped' /\ Stage' /\ Scope' /\ Current' /\ RefusedOnlyAfterWrite'
<1>1. /\ Rested /\ resolved' = 0 /\ outcome = "paging" /\ UNCHANGED <<list, sort>>
      /\ page \in SUBSET RowsOfList(list) /\ rows \in SUBSET RowsOfList(list)
      /\ token # NoToken => UNCHANGED <<steady, base, replaced>>
      /\ token = NoToken => base' = rows
      /\ token = NoToken => steady' = rows
  <2>1. Rested /\ resolved' = 0 /\ outcome = "paging" /\ UNCHANGED <<list, sort>>
    BY ServedFacts
  <2>2. page \in SUBSET RowsOfList(list) /\ rows \in SUBSET RowsOfList(list)
    BY ServedFacts
  <2>3. token # NoToken => UNCHANGED <<steady, base, replaced>>
    BY ServedFacts
  <2>4. token = NoToken => base' = rows /\ steady' = rows
    <3>1. token = NoToken => pages = <<>>
      BY ServedFacts
    <3> QED
      BY <3>1 DEF Served
  <2> QED
    BY <2>1, <2>2, <2>3, <2>4
<1>2. pages' \in Seq([list : Kin, rows : SUBSET RowsOfList(list)]) /\ pages' # <<>> /\ Kin' = Kin
  BY <1>1, OneMore, ServedFacts DEF Kin
<1>3. \/ outcome' = "ended" /\ token' = NoToken
      \/ outcome' = "paging" /\ token' \in Tokens(list) /\ token' # NoToken
  BY NextToken DEF Served, Ends
<1>4. base' \in SUBSET RowsOfList(list) /\ steady' \in SUBSET RowsOfList(list)
  BY <1>1 DEF IInv, ClientTyped
<1>5. ClientTyped'
  BY <1>1, <1>2, <1>3, <1>4 DEF IInv, ClientTyped, Outcomes
<1>6. Stage' /\ Scope' /\ RefusedOnlyAfterWrite'
  BY <1>1, <1>2, <1>3 DEF Stage, Scope, RefusedOnlyAfterWrite
<1>7. Current'
  <2> SUFFICES ASSUME outcome' = "paging" PROVE steady' \subseteq Rows
    BY <1>1, RestedTables DEF Current
  <2>1. CASE token # NoToken
    BY <1>1, <2>1 DEF IInv, Current
  <2>2. CASE token = NoToken
    <3>1. rows \subseteq Rows
      BY <2>2 DEF Served
    <3> QED
      BY <1>1, <2>2, <3>1
  <2> QED
    BY <2>1, <2>2
<1> QED
  BY <1>5, <1>6, <1>7

LEMMA ServedOrder ==
    ASSUME IInv, NEW l, NEW rows, NEW page, Served(l, rows, page)
    PROVE  Strict' /\ Behind'
<1> DEFINE K == Keys(Dim(list))
<1>1. /\ Rested /\ UNCHANGED <<list, sort>> /\ page \in SUBSET RowsOfList(list) /\ l \in Kin
      /\ \A r \in page : r.key \in K
      /\ pages' = Append(pages, [list |-> l, rows |-> page])
      /\ token # NoToken => /\ Going /\ KeyOf(token) \in K
                            /\ \A r \in page : After(r.key, KeyOf(token), sort)
      /\ token = NoToken => DOMAIN pages = {}
      /\ Dim(list) \in Nat
  BY ServedFacts
<1>2. /\ DOMAIN pages' = 1 .. Len(pages) + 1 /\ Len(pages) \in Nat /\ DOMAIN pages = 1 .. Len(pages)
      /\ \A i \in DOMAIN pages : pages'[i] = pages[i]
      /\ pages'[Len(pages) + 1].rows = page
      /\ \A i \in DOMAIN pages' : i \in DOMAIN pages \/ pages'[i].rows = page
  BY <1>1, OneMore, PageFacts DEF IInv
<1>3. ASSUME NEW i \in DOMAIN pages, NEW r \in pages[i].rows
      PROVE  token # NoToken /\ r.key \in K /\ ~ After(r.key, KeyOf(token), sort)
  <2>1. token # NoToken
    BY <1>1
  <2>2. r.key \in K
    BY PageFacts DEF IInv
  <2>3. ~ After(r.key, KeyOf(token), sort)
    BY <1>1, <2>1 DEF IInv, Behind
  <2> QED
    BY <2>1, <2>2, <2>3
<1> HIDE DEF K
<1>4. ASSUME NEW i \in DOMAIN pages, NEW r \in pages[i].rows, NEW q \in page
      PROVE  After(q.key, r.key, sort)
  <2>1. token # NoToken /\ r.key \in K /\ ~ After(r.key, KeyOf(token), sort)
    BY <1>3
  <2>2. q.key \in K /\ KeyOf(token) \in K /\ After(q.key, KeyOf(token), sort)
    BY <1>1, <2>1
  <2> QED
    BY <1>1, <2>1, <2>2, Order DEF K
<1>5. Strict'
  <2> SUFFICES ASSUME NEW i \in DOMAIN pages', NEW j \in DOMAIN pages', i < j,
                      NEW r \in pages'[i].rows, NEW q \in pages'[j].rows
               PROVE  After(q.key, r.key, sort)
    BY <1>1 DEF Strict
  <2>1. i \in DOMAIN pages /\ r \in pages[i].rows
    BY <1>2
  <2>2. CASE j \in DOMAIN pages
    BY <1>2, <2>1, <2>2 DEF IInv, Strict
  <2>3. CASE j \notin DOMAIN pages
    BY <1>2, <1>4, <2>1, <2>3
  <2> QED
    BY <2>2, <2>3
<1>6. Behind'
  <2> SUFFICES ASSUME outcome' = "paging", NEW i \in DOMAIN pages', NEW r \in pages'[i].rows
               PROVE  ~ After(r.key, KeyOf(token'), sort)
    BY <1>1 DEF Behind, Going
  <2>1. PICK last \in page : /\ KeyOf(token') = last.key
                             /\ \A q \in page : ~ After(q.key, last.key, sort)
    BY NextToken
  <2>2. CASE i \in DOMAIN pages
    <3>1. r \in pages[i].rows
      BY <1>2, <2>2
    <3>2. After(last.key, r.key, sort) /\ r.key \in K /\ last.key \in K
      BY <1>1, <1>3, <1>4, <2>2, <3>1
    <3> QED
      BY <1>1, <2>1, <3>2, Order DEF K
  <2>3. CASE i \notin DOMAIN pages
    BY <1>2, <2>1, <2>3
  <2> QED
    BY <2>2, <2>3
<1> QED
  BY <1>5, <1>6

(* A row that was in the list from the first page on is on this page, or beyond
   it, or was shown before: a page leaves none behind, ties apart. *)
LEMMA ServedAhead ==
    ASSUME IInv, NEW l, NEW rows, NEW page, Served(l, rows, page)
    PROVE  Ahead' /\ NothingSkipped'
<1> DEFINE K == Keys(Dim(list))
<1>1. /\ Rested /\ UNCHANGED <<list, sort>> /\ page \in SUBSET RowsOfList(list) /\ page \subseteq rows
      /\ l \in Kin
      /\ \A r \in rows : r.key \in K
      /\ pages' = Append(pages, [list |-> l, rows |-> page])
      /\ l = list => steady' \subseteq rows
      /\ token # NoToken => Going /\ UNCHANGED steady
      /\ token = NoToken => Rest(rows) = rows
      /\ Dim(list) \in Nat
  BY ServedFacts
<1>2. Shown' = Shown \cup page /\ (StaysWithList' => l = list /\ StaysWithList)
  BY <1>1, OneMore
<1>3. \A r : Tied(r) => Tied(r)'
  BY <1>1, RestedTables
<1>4. ASSUME StaysWithList', NEW r \in steady' PROVE r \in Shown \/ r \in Rest(rows) \/ Tied(r)
  <2>1. r \in rows
    BY <1>1, <1>2, <1>4
  <2>2. CASE token = NoToken
    BY <1>1, <2>1, <2>2
  <2>3. CASE token # NoToken
    <3>1. r \in Shown \/ After(r.key, KeyOf(token), sort) \/ Tied(r)
      BY <1>1, <1>2, <1>4, <2>3 DEF IInv, Ahead
    <3> QED
      BY <2>1, <3>1 DEF Rest
  <2> QED
    BY <2>2, <2>3
<1>5. Ahead'
  <2> SUFFICES ASSUME outcome' = "paging", StaysWithList', NEW r \in steady'
               PROVE  r \in Shown' \/ After(r.key, KeyOf(token'), sort) \/ Tied(r)'
    BY <1>1 DEF Ahead, Going
  <2>1. PICK last \in page : KeyOf(token') = last.key
    BY NextToken
  <2>2. CASE r \in Shown \/ Tied(r) \/ r \in page
    BY <1>2, <1>3, <2>2
  <2>3. CASE r \in Rest(rows) \ page
    <3>1. ~ After(last.key, r.key, sort)
      BY <2>3 DEF Served
    <3>2. r \in rows /\ last \in rows /\ r # last
      BY <1>1, <2>3 DEF Rest
    <3>3. r.key = last.key \/ After(r.key, last.key, sort)
      BY <1>1, <3>1, <3>2, Order DEF K
    <3>4. r.key = last.key => Tied(r)
      BY <3>2 DEF Served, Good
    <3> QED
      BY <1>3, <2>1, <3>3, <3>4
  <2> QED
    BY <1>4, <2>2, <2>3
<1>6. NothingSkipped'
  <2> SUFFICES ASSUME outcome' = "ended", StaysWithList', NEW r \in steady' PROVE r \in Shown' \/ Tied(r)'
    BY DEF NothingSkipped
  <2>1. page = Rest(rows)
    BY DEF Served
  <2> QED
    BY <1>2, <1>3, <1>4, <2>1
<1> QED
  BY <1>5, <1>6

LEMMA ServedDoc ==
    ASSUME IInv, NEW l, NEW rows, NEW page, Served(l, rows, page)
    PROVE  DatedPages' /\ Doc'
<1>1. /\ Rested /\ UNCHANGED <<list, sort, created, container>> /\ l \in Kin
      /\ page \in SUBSET RowsOfList(list) /\ page \subseteq rows
      /\ pages' = Append(pages, [list |-> l, rows |-> page])
      /\ token # NoToken => Going /\ UNCHANGED <<steady, base, replaced>>
      /\ token = NoToken => DOMAIN pages = {} /\ base' = rows
  BY ServedFacts
<1>2. /\ \A i \in DOMAIN pages : pages'[i] = pages[i]
      /\ \A i \in DOMAIN pages' : i \in DOMAIN pages \/ pages'[i].rows = page
  BY <1>1, OneMore
<1>3. DatedPages'
  <2> SUFFICES ASSUME list # "members", NEW i \in DOMAIN pages', NEW r \in pages'[i].rows
               PROVE  created[r.of] > 0 /\ r.key[1] = created[r.of]
    BY <1>1 DEF DatedPages
  <2>1. CASE i \in DOMAIN pages
    BY <1>2, <2>1 DEF IInv, DatedPages
  <2>2. CASE r \in page
    <3>1. r.of \in Stored /\ r.key[1] = created[r.of]
      BY <1>1, <2>2 DEF Served, Good, Dated
    <3> QED
      BY <3>1, BodyFacts DEF IInv
  <2> QED
    BY <1>2, <2>1, <2>2
<1>4. Doc'
  <2> SUFFICES ASSUME list = "members"
               PROVE  /\ \A i \in DOMAIN pages' : pages'[i].rows \subseteq base'
                      /\ Going' => Pinned'
    BY <1>1 DEF Doc
  <2>1. rows = container.rows /\ (token = NoToken \/ Bound(sort))
    BY DEF Served
  <2>2. container.rows \subseteq base' /\ \A i \in DOMAIN pages : pages[i].rows \subseteq base'
    <3>1. CASE token = NoToken
      BY <1>1, <2>1, <3>1
    <3>2. CASE token # NoToken
      <4>1. Pinned /\ Bound(sort)
        BY <1>1, <2>1, <3>2 DEF IInv, Doc
      <4> QED
        BY <1>1, <3>2, <4>1 DEF Pinned, Bound, IInv, Doc
    <3> QED
      BY <3>1, <3>2
  <2>3. \A i \in DOMAIN pages' : pages'[i].rows \subseteq base'
    BY <1>1, <1>2, <2>1, <2>2
  <2>4. ASSUME Going' PROVE Pinned'
    <3>1. token'.cid = container.id /\ token'.rev = container.rev /\ token'.sort = sort
      BY <2>4, NextToken DEF Going
    <3>2. container.id \in Nat /\ container.rev \in Nat
      BY DEF IInv, MembersTyped
    <3> QED
      BY <1>1, <2>2, <3>1, <3>2 DEF Pinned
  <2> QED
    BY <2>3, <2>4
<1> QED
  BY <1>3, <1>4

LEMMA AskedStep ==
    ASSUME IInv, Asked
    PROVE  IInv'
<1>1. ASSUME NEW l, NEW rows, NEW page, Served(l, rows, page) PROVE IInv'
  <2>1. TablesTyped' /\ MembersTyped'
    BY <1>1, ServedFacts, RestedTables
  <2> QED
    BY <1>1, <2>1, ServedTyped, ServedOrder, ServedAhead, ServedDoc DEF IInv
<1> QED
  BY <1>1, EmptiedStep, RefusedStep, ResolvedStep DEF Asked

-----------------------------------------------------------------------------
(* Theorems *)

LEMMA Inductive == Spec => []IInv
<1>1. Init => IInv
  BY Initially
<1>2. ASSUME IInv, [Next]_vars PROVE IInv'
  <2>1. CASE UNCHANGED vars
    <3>1. Rested /\ UNCHANGED <<token, resolved, pages, outcome, base, steady, replaced>>
          /\ UNCHANGED <<list, sort, created, container>>
      BY <2>1 DEF vars, client, store, Rested
    <3>2. TablesTyped' /\ MembersTyped' /\ Rows' = Rows /\ \A r : Tied(r) => Tied(r)'
      BY <1>2, <3>1, RestedTables
    <3>3. ClientTyped' /\ Stage' /\ Scope' /\ Current' /\ StaysWithList' = StaysWithList
      BY <1>2, <3>1, <3>2 DEF IInv, ClientTyped, Stage, Scope, Current, Kin, StaysWithList
    <3>4. DatedPages' /\ Strict' /\ Behind' /\ Doc' /\ RefusedOnlyAfterWrite'
      BY <1>2, <3>1 DEF IInv, DatedPages, Strict, Behind, Going, Doc, Pinned, RefusedOnlyAfterWrite
    <3>5. Shown' = Shown
      BY <3>1 DEF Shown
    <3>6. Ahead' /\ NothingSkipped'
      BY <1>2, <3>1, <3>2, <3>3, <3>5 DEF IInv, Ahead, Going, NothingSkipped
    <3> QED
      BY <3>2, <3>3, <3>4, <3>6 DEF IInv
  <2>2. CASE Store
    BY <1>2, <2>2, StoreStep
  <2>3. CASE ReadPlaylists \/ ReadItems \/ ResolveScope \/ ReadScoped
    BY <1>2, <2>3, PlaylistsAsked, ItemsAsked, ScopeAsked, ScopedAsked, AskedStep
  <2>4. ASSUME NEW dir \in {"asc", "desc"}, ReadMembers(dir) PROVE IInv'
    BY <1>2, <2>4, MembersAsked, AskedStep
  <2> QED
    BY <1>2, <2>1, <2>2, <2>3, <2>4 DEF Next
<1> QED
  BY <1>1, <1>2, PTL DEF Spec

LEMMA RowsOfListTyped ==
    ASSUME NEW l
    PROVE  RowsOfList(l) \subseteq RowSet
<1>1. Dim(l) \in Nat
  BY DEF Dim
<1>2. Keys(Dim(l)) \subseteq Seq(Nat)
  BY <1>1 DEF Keys
<1> QED
  BY <1>2 DEF RowsOfList, RowSet

(* Type correctness of the tables, the rows and the tokens. *)
THEOREM TypeCorrect == Spec => []TypeOK
<1>1. IInv => TypeOK
  <2> SUFFICES ASSUME IInv PROVE TypeOK
    OBVIOUS
  <2>1. \A p \in Playlists : version[p] \in 0 .. Len(Versions[p]) /\ (version[p] > 0 => created[p] > 0)
    BY ConstantFacts DEF IInv, TablesTyped
  <2>2. container.rows \cup steady \cup base \subseteq RowSet
    BY RowsOfListTyped DEF IInv, MembersTyped, ClientTyped
  <2>3. \A m \in container.rows : m.of \in Stored
    BY DEF IInv, MembersTyped, RowsOfList, Stored
  <2>4. token = NoToken \/ DecodesAsPlain(token) \/ DecodesAsMembership(token) \/ DecodesAsItem(token)
    BY TokenFacts DEF IInv, ClientTyped, Lists
  <2> QED
    BY <2>1, <2>2, <2>3, <2>4 DEF IInv, TablesTyped, MembersTyped, ClientTyped, Outcomes, TypeOK
<1> QED
  BY <1>1, Inductive, PTL

(* A page sequence of one list that ends has shown every row that was listed all along, but
   for items tied with another playlist's. *)
THEOREM NothingSkippedHolds == Spec => []NothingSkipped
<1>1. IInv => NothingSkipped
  BY DEF IInv
<1> QED
  BY <1>1, Inductive, PTL

(* Later pages lie strictly beyond earlier ones and are of lists that honour each
   other's tokens; no playlist comes again, and no item at its old position. *)
THEOREM NothingRepeatedHolds == Spec => []NothingRepeated
<1>1. IInv => NothingRepeated
  <2> SUFFICES ASSUME IInv, NEW i \in DOMAIN pages, NEW j \in DOMAIN pages, i < j
               PROVE  /\ pages[j].list # pages[i].list
                           => {pages[i].list, pages[j].list} = {"items", "scoped"}
                      /\ \A r \in pages[i].rows, q \in pages[j].rows :
                           /\ After(q.key, r.key, sort)
                           /\ list # "members" => r.of # q.of \/ Tail(r.key) # Tail(q.key)
    BY DEF NothingRepeated
  <2>1. pages[j].list # pages[i].list => {pages[i].list, pages[j].list} = {"items", "scoped"}
    BY PageFacts DEF IInv, Kin
  <2>2. ASSUME NEW r \in pages[i].rows, NEW q \in pages[j].rows
        PROVE  After(q.key, r.key, sort)
    BY <2>2 DEF IInv, Strict
  <2>3. ASSUME NEW r \in pages[i].rows, NEW q \in pages[j].rows, list # "members",
               r.of = q.of, Tail(r.key) = Tail(q.key)
        PROVE  FALSE
    <3>1. r.key[1] = q.key[1]
      BY <2>3 DEF IInv, DatedPages
    <3>2. r.key \in Keys(Dim(list)) /\ q.key \in Keys(Dim(list)) /\ Dim(list) \in {2, 3}
      BY <2>3, PageFacts DEF IInv, Dim
    <3>3. ASSUME Dim(list) = 2 PROVE r.key = q.key
      <4>1. r.key \in [1 .. 2 -> Nat] /\ q.key \in [1 .. 2 -> Nat]
        BY <3>2, <3>3 DEF Keys
      <4>2. Tail(r.key)[1] = r.key[2] /\ Tail(q.key)[1] = q.key[2]
        BY <4>1
      <4>3. r.key[1] = q.key[1] /\ r.key[2] = q.key[2]
        BY <2>3, <3>1, <4>2
      <4> QED
        BY <4>1, <4>3
    <3>4. ASSUME Dim(list) = 3 PROVE r.key = q.key
      <4>1. r.key \in [1 .. 3 -> Nat] /\ q.key \in [1 .. 3 -> Nat]
        BY <3>2, <3>4 DEF Keys
      <4>2. /\ Tail(r.key)[1] = r.key[2] /\ Tail(q.key)[1] = q.key[2]
            /\ Tail(r.key)[2] = r.key[3] /\ Tail(q.key)[2] = q.key[3]
        BY <4>1
      <4>3. r.key[1] = q.key[1] /\ r.key[2] = q.key[2] /\ r.key[3] = q.key[3]
        BY <2>3, <3>1, <4>2
      <4> QED
        BY <4>1, <4>3
    <3>5. Dim(list) \in Nat
      BY <3>2
    <3> QED
      BY <2>2, <2>3, <3>2, <3>3, <3>4, <3>5, Order
  <2> QED
    BY <2>1, <2>2, <2>3
<1> QED
  BY <1>1, Inductive, PTL

(* The pages of a container's playlists are pages of one document. *)
THEOREM OneDocumentHolds == Spec => []OneDocument
<1>1. IInv => OneDocument
  BY DEF IInv, Doc, OneDocument, Shown
<1> QED
  BY <1>1, Inductive, PTL

(* A client is sent back to the first page only by a write of the container. *)
THEOREM RefusedOnlyAfterWriteHolds == Spec => []RefusedOnlyAfterWrite
<1>1. IInv => RefusedOnlyAfterWrite
  BY DEF IInv
<1> QED
  BY <1>1, Inductive, PTL
=============================================================================
