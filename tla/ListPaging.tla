------------------------------ MODULE ListPaging ------------------------------
(***************************************************************************)
(* The paged lists of internal/store/pg and a client that follows one of   *)
(* them from page to page: the directory of playlists, the directory of    *)
(* items, the items of one container, and the playlists of one container   *)
(* in the order of its document.  Between two pages documents are          *)
(* inserted, replaced and deleted.  A page is one statement's snapshot, a  *)
(* token is the key of the last row served.  Filters on attribution only   *)
(* narrow a list and are left out; a container is named by its slug.       *)
(***************************************************************************)
EXTENDS FiniteSets, Naturals, Sequences

CONSTANTS Versions,  \* Versions[p]: the bodies playlist p is given in turn
          Batches,   \* the playlists that one transaction inserts
          Documents, \* the playlists a container's document may name, in order
          Limit,     \* rows of a page
          MaxTime,   \* bound on the clock
          MaxWrites  \* bound on the container's ids and revisions

Playlists == DOMAIN Versions

ASSUME PagingAssumption ==
    /\ IsFiniteSet(Playlists) /\ Playlists \subseteq Nat \ {0}
    /\ \A p \in Playlists : Versions[p] \in Seq([listed : BOOLEAN, items : Seq(Nat)]) \ {<<>>}
    /\ {Limit, MaxTime, MaxWrites} \subseteq Nat \ {0}
    /\ UNION Batches = Playlists
    /\ \A b, c \in Batches : b # c => b \cap c = {}
    /\ \A d \in Documents : d \in Seq(Playlists)

VARIABLES now,       \* the clock
          open,      \* open[b]: now() of the transaction that inserts b, or 0
          created,   \* created[p]: created_at, once p has been stored
          version,   \* version[p]: which body is stored, or 0
          container, \* the container the slug names, and its membership rows
          list, sort,\* what the client lists, and in which direction
          token,     \* the cursor it holds
          resolved,  \* the container a scoped item page has resolved to, or 0
          pages,     \* the pages it was served
          outcome,   \* of its page sequence
          steady,    \* history: rows listed ever since the first page
          base,      \* history: the rows at the first page
          replaced   \* history: the container was written since then

store == <<now, open, created, version, container>>
client == <<list, sort, token, resolved, pages, outcome, base>>
vars == <<store, client, steady, replaced>>

Lists == {"playlists", "items", "scoped", "members"}
NoToken == <<>>

Init ==
    /\ now = 1
    /\ open = [b \in Batches |-> 0]
    /\ created = [p \in Playlists |-> 0]
    /\ version = [p \in Playlists |-> 0]
    /\ container = [id |-> 1, there |-> FALSE, rev |-> 1, rows |-> {}]
    /\ list \in Lists /\ sort \in {"asc", "desc"}
    /\ token = NoToken /\ resolved = 0
    /\ pages = <<>> /\ outcome = "paging"
    /\ steady = {} /\ base = {} /\ replaced = FALSE

-----------------------------------------------------------------------------
(* Rows: their key is what the list is ordered by. *)

Stored == {p \in Playlists : version[p] > 0}
Body(p) == Versions[p][version[p]]

(* listedPlaylistSQL: visibility is read from the stored body. *)
Listed == {p \in Stored : Body(p).listed}

PlaylistRows == {[key |-> <<created[p], p>>, of |-> p] : p \in Listed}

(* playlist_item_index, rebuilt with the body. *)
IndexRows(P) ==
    UNION {{[key |-> <<created[p], i, Body(p).items[i]>>, of |-> p] : i \in DOMAIN Body(p).items}
             : p \in P}

MemberRows(id) == IF container.there /\ container.id = id THEN container.rows ELSE {}
Members(id) == {m.of : m \in MemberRows(id)}

Rows ==
    CASE list = "playlists" -> PlaylistRows
      [] list = "items"     -> IndexRows(Listed)
      [] list = "scoped"    -> IndexRows(Members(container.id))
      [] list = "members"   -> MemberRows(container.id)

Less(a, b) == \E i \in DOMAIN a : a[i] < b[i] /\ \A j \in 1 .. i - 1 : a[j] = b[j]

(* TupleAfterCursorOp, SQLOrder: strictly after in the direction of the list. *)
After(a, b, dir) == IF dir = "desc" THEN Less(a, b) ELSE Less(b, a)

-----------------------------------------------------------------------------
(* Writes *)

(* now() is the start of the transaction; two may start at one instant. *)
BeginInsert(b) ==
    /\ open[b] = 0
    /\ now' \in now .. now + 1 /\ now' <= MaxTime
    /\ open' = [open EXCEPT ![b] = now']
    /\ UNCHANGED <<created, version, container, replaced>>

(* An ingest shows its playlists and its own rows in one commit; here the rows
   follow at once (WriteContainer), which a reader may fall between. *)
CommitInsert(b) ==
    /\ open[b] > 0 /\ \A p \in b : created[p] = 0
    /\ created' = [p \in Playlists |-> IF p \in b THEN open[b] ELSE created[p]]
    /\ version' = [p \in Playlists |-> IF p \in b THEN 1 ELSE version[p]]
    /\ UNCHANGED <<now, open, container, replaced>>

(* Mutant: the rebuilt index rows are stamped with the time of the replace. *)
ReplaceRestamped(p) ==
    /\ p \in Stored /\ version[p] < Len(Versions[p])
    /\ version' = [version EXCEPT ![p] = @ + 1]
    /\ created' = [created EXCEPT ![p] = now]
    /\ UNCHANGED <<now, open, container, replaced>>

(* The index is rebuilt with the created_at the row has. *)
Replace(p) ==
    /\ p \in Stored /\ version[p] < Len(Versions[p])
    /\ version' = [version EXCEPT ![p] = @ + 1]
    /\ UNCHANGED <<now, open, created, container, replaced>>

(* Mutant: the cascade moves the revision of the container. *)
DeleteAndTouch(p) ==
    /\ p \in Stored
    /\ version' = [version EXCEPT ![p] = 0]
    /\ container' = [container EXCEPT !.rows = {m \in @ : m.of # p}, !.rev = @ + 1]
    /\ UNCHANGED <<now, open, created, replaced>>

(* Mutant: membership rows do not cascade. *)
DeleteRowOnly(p) ==
    /\ p \in Stored
    /\ version' = [version EXCEPT ![p] = 0]
    /\ UNCHANGED <<now, open, created, container, replaced>>

(* Index and membership rows cascade; the container's own row stays as it is. *)
Delete(p) ==
    /\ p \in Stored
    /\ version' = [version EXCEPT ![p] = 0]
    /\ container' = [container EXCEPT !.rows = {m \in @ : m.of # p}]
    /\ UNCHANGED <<now, open, created, replaced>>

RowsOf(doc) == {[key |-> <<i>>, of |-> doc[i]] : i \in DOMAIN doc}

(* A create takes a new id, a replace a later revision of the same one. *)
WriteContainer(doc) ==
    /\ \A i \in DOMAIN doc : doc[i] \in Stored
    /\ container' = [container EXCEPT
                       !.there = TRUE, !.rows = RowsOf(doc),
                       !.id = IF container.there THEN @ ELSE @ + 1,
                       !.rev = IF container.there THEN @ + 1 ELSE 1]
    /\ container'.id <= MaxWrites /\ container'.rev <= MaxWrites
    /\ replaced' = TRUE
    /\ UNCHANGED <<now, open, created, version>>

DeleteContainer ==
    /\ container.there
    /\ container' = [container EXCEPT !.there = FALSE, !.rows = {}]
    /\ replaced' = TRUE
    /\ UNCHANGED <<now, open, created, version>>

Write ==
    \/ \E b \in Batches : BeginInsert(b) \/ CommitInsert(b)
    \/ \E p \in Playlists : Replace(p) \/ Delete(p)
    \/ \E doc \in Documents : WriteContainer(doc)
    \/ DeleteContainer

Store ==
    /\ outcome = "paging"
    /\ Write
    /\ UNCHANGED client
    /\ steady' = steady \cap Rows'

-----------------------------------------------------------------------------
(* Tokens *)

Has(tok, fields) == fields \subseteq DOMAIN tok   \* requireCursorFields
Lacks(tok, fields) == fields \cap DOMAIN tok = {}

DecodesAsPlain(tok) == Lacks(tok, {"pos"}) /\ Has(tok, {"t", "id"})
DecodesAsMembership(tok) == Lacks(tok, {"t"}) /\ Has(tok, {"kind", "cid", "sort", "rev", "pos"})
DecodesAsItem(tok) == Lacks(tok, {"ics", "pid"}) /\ Has(tok, {"t", "pos", "iid"})

KeyOf(tok) ==
    CASE DecodesAsItem(tok)       -> <<tok.t, tok.pos, tok.iid>>
      [] DecodesAsMembership(tok) -> <<tok.pos>>
      [] DecodesAsPlain(tok)      -> <<tok.t, tok.id>>

TokenFor(l, row) ==
    CASE l = "playlists" -> [t |-> row.key[1], id |-> row.key[2]]
      [] l = "members"   -> [kind |-> "container", cid |-> container.id, sort |-> sort,
                             rev |-> container.rev, pos |-> row.key[1]]
      [] OTHER           -> [t |-> row.key[1], pos |-> row.key[2], iid |-> row.key[3]]

-----------------------------------------------------------------------------
(* Pages *)

Refuse(l) ==
    /\ outcome' = IF l = list THEN "refused" ELSE "misused"
    /\ UNCHANGED <<token, pages, base, steady, replaced>>

Ends == outcome' = "ended" /\ token' = NoToken

(* Mutant: the token names the first row left out. *)
ServeFromExtraRow(l, rows) ==
    LET rest == {r \in rows : token = NoToken \/ After(r.key, KeyOf(token), sort)}
    IN \E page \in SUBSET rest :
        /\ Cardinality(page) = Limit \/ (page = rest /\ Cardinality(rest) <= Limit)
        /\ \A r \in page, q \in rest \ page : ~ After(r.key, q.key, sort)
        /\ pages' = Append(pages, [list |-> l, rows |-> page])
        /\ IF page = rest THEN Ends
           ELSE /\ outcome' = "paging"
                /\ token' = TokenFor(l, CHOOSE r \in rest \ page :
                                          \A q \in rest \ page : ~ After(r.key, q.key, sort))
        /\ IF pages = <<>> THEN steady' = rows /\ base' = rows /\ replaced' = FALSE
                           ELSE UNCHANGED <<steady, base, replaced>>

(* limit + 1 rows past the token: the extra one only says that there is more.
   Rows with equal keys come in any order. *)
Serve(l, rows) ==
    LET rest == {r \in rows : token = NoToken \/ After(r.key, KeyOf(token), sort)}
    IN \E page \in SUBSET rest :
        /\ Cardinality(page) = Limit \/ (page = rest /\ Cardinality(rest) <= Limit)
        /\ \A r \in page, q \in rest \ page : ~ After(r.key, q.key, sort)
        /\ pages' = Append(pages, [list |-> l, rows |-> page])
        /\ IF page = rest THEN Ends
           ELSE /\ outcome' = "paging"
                /\ token' = TokenFor(l, CHOOSE r \in page :
                                          \A q \in page : ~ After(q.key, r.key, sort))
        /\ IF pages = <<>> THEN steady' = rows /\ base' = rows /\ replaced' = FALSE
                           ELSE UNCHANGED <<steady, base, replaced>>

ServeIf(decodes, l, rows) == IF token = NoToken \/ decodes THEN Serve(l, rows) ELSE Refuse(l)

(* A client asks for its list, or presents its token to another one. *)
Asks(l) == outcome = "paging" /\ resolved = 0 /\ (l = list \/ token # NoToken)

(* An unknown container is an empty, last page. *)
ServeUnknown(l) ==
    /\ pages' = Append(pages, [list |-> l, rows |-> {}])
    /\ Ends
    /\ UNCHANGED <<steady, base, replaced>>

ReadPlaylists ==
    /\ Asks("playlists")
    /\ ServeIf(DecodesAsPlain(token), "playlists", PlaylistRows)
    /\ UNCHANGED <<store, list, sort, resolved>>

(* The items of every listed playlist.  An item token names no container: one
   that a container's list issued is honoured here, and the other way round. *)
ReadItems ==
    /\ Asks("items")
    /\ ServeIf(DecodesAsItem(token), "items", IndexRows(Listed))
    /\ UNCHANGED <<store, list, sort, resolved>>

(* Under a container the container is resolved first, by a statement of its own. *)
ResolveScope ==
    /\ Asks("scoped")
    /\ IF token # NoToken /\ ~ DecodesAsItem(token)
         THEN Refuse("scoped") /\ UNCHANGED resolved
         ELSE IF container.there
           THEN resolved' = container.id /\ UNCHANGED <<token, pages, outcome, base, steady, replaced>>
           ELSE ServeUnknown("scoped") /\ UNCHANGED resolved
    /\ UNCHANGED <<store, list, sort>>

ReadScoped ==
    /\ resolved # 0
    /\ Serve("scoped", IndexRows(Members(resolved)))
    /\ resolved' = 0
    /\ UNCHANGED <<store, list, sort>>

(* Mutant: the token is not compared with the revision it was issued for. *)
BoundAtAnyRevision(dir) == token.cid = container.id /\ token.sort = dir

Bound(dir) == token.cid = container.id /\ token.sort = dir /\ token.rev = container.rev

(* Revision and rows are read in one snapshot.  A direction other than that of
   the sequence is only tried with a token. *)
ReadMembers(dir) ==
    /\ Asks("members") /\ (dir = sort \/ token # NoToken)
    /\ IF token # NoToken /\ ~ DecodesAsMembership(token) THEN Refuse("members")
       ELSE IF ~ container.there THEN ServeUnknown("members")
       ELSE IF token = NoToken \/ Bound(dir) THEN Serve("members", MemberRows(container.id))
       ELSE Refuse(IF dir = sort THEN "members" ELSE "other direction")
    /\ UNCHANGED <<store, list, sort, resolved>>

Next ==
    \/ Store
    \/ ReadPlaylists \/ ReadItems \/ ResolveScope \/ ReadScoped
    \/ \E dir \in {"asc", "desc"} : ReadMembers(dir)

Spec == Init /\ [][Next]_vars

-----------------------------------------------------------------------------
(* Properties *)

RowSet == [key : Seq(Nat), of : Playlists]

(* Types: created_at is set once and stays, positions and stamps are numbers,
   a token has one of the three shapes. *)
TypeOK ==
    /\ now \in 1 .. MaxTime
    /\ open \in [Batches -> 0 .. MaxTime]
    /\ created \in [Playlists -> 0 .. MaxTime]
    /\ \A p \in Playlists : version[p] \in 0 .. Len(Versions[p]) /\ (version[p] > 0 => created[p] > 0)
    /\ container.id \in 1 .. MaxWrites /\ container.rev \in 1 .. MaxWrites
    /\ container.rows \cup steady \cup base \subseteq RowSet
    /\ \A m \in container.rows : m.of \in Stored
    /\ token = NoToken \/ DecodesAsPlain(token) \/ DecodesAsMembership(token) \/ DecodesAsItem(token)
    /\ outcome \in {"paging", "ended", "refused", "misused"}

Shown == UNION {pages[i].rows : i \in DOMAIN pages}

(* Two index rows of different playlists with one key: the same item id at the
   same position of playlists inserted together, in some version of each. *)
Tied(r) ==
    /\ list \in {"items", "scoped"}
    /\ \E p \in Playlists \ {r.of} :
        /\ created[p] = created[r.of]
        /\ \E v \in DOMAIN Versions[p] :
             r.key[2] \in DOMAIN Versions[p][v].items /\ Versions[p][v].items[r.key[2]] = r.key[3]

(* Every page is of the list that the first one was of. *)
StaysWithList == \A i \in DOMAIN pages : pages[i].list = list

(* A page sequence of one list that came to its end has shown every row that was
   in the list from the first page on, whatever was inserted, replaced or
   deleted meanwhile: the keysets of createdAtListQuery, ListPlaylistItems and
   listPlaylistsByMembership skip nothing, ties of item keys apart. *)
NothingSkipped ==
    outcome = "ended" /\ StaysWithList => \A r \in steady : r \in Shown \/ Tied(r)

(* Pages go on strictly where the last one ended, also where a token is carried
   to another list: only the two lists of items honour each other's.  So a
   playlist does not come twice, however often it is replaced meanwhile, and an
   item does not come twice at one position; one that a replace has moved ahead
   may come again, at its new position. *)
NothingRepeated ==
    \A i, j \in DOMAIN pages : i < j =>
        /\ pages[j].list # pages[i].list => {pages[i].list, pages[j].list} = {"items", "scoped"}
        /\ \A r \in pages[i].rows, q \in pages[j].rows :
             /\ After(q.key, r.key, sort)
             /\ list # "members" => r.of # q.of \/ Tail(r.key) # Tail(q.key)

(* The pages of a container's list are all pages of the one signed document the
   first page was of; a replaced or recreated container never continues them. *)
OneDocument == list = "members" => Shown \subseteq base

(* A client that only pages on is sent back to the first page (400) only after
   the container was written; deleting a member does not disturb it. *)
RefusedOnlyAfterWrite == outcome = "refused" => list = "members" /\ replaced

(* ListPlaylistItemsParams (store.go): "stable keyset pagination", with item_id
   as the tie-break: no item that stays in the list is left out. *)
NoItemSkipped == outcome = "ended" /\ StaysWithList => steady \subseteq Shown
=============================================================================
