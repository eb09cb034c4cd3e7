------------------------------- MODULE ShopAuth -------------------------------
(***************************************************************************)
(* How one tenant's shops and their TikTok tokens get into MySQL:          *)
(*                                                                         *)
(*   - an OAuth callback stores a batch of authorised shops under the      *)
(*     plan's shop limit (oauthMysqlPersist.js);                           *)
(*   - shops are also created by hand, imported from the old cache,        *)
(*     disabled, deleted (shops/service.js, importCacheShops.js);          *)
(*   - access tokens are refreshed by whoever finds one about to expire    *)
(*     (tiktokTokenRefresh.js);                                            *)
(*   - a script puts lost shop ciphers back (shopCipherBackfill.js).       *)
(*                                                                         *)
(* None of these uses a transaction: every SELECT, INSERT and UPDATE is a  *)
(* step of its own and a request can end after any of them.                *)
(***************************************************************************)
EXTENDS Integers, FiniteSets, Sequences

CONSTANTS
  Shops,        \* platform_shop_ids
  Admitters,    \* requests that add shops: callbacks, creations, imports
  Refreshers,   \* workers and health checks that refresh tokens
  Backfillers,  \* runs of the backfill script
  Editors,      \* requests that switch a shop on or off
  NoShop,
  Limit,        \* resolveShopLimit(tenant)
  JsonObjects,  \* the driver returns JSON columns parsed: mysql2 with MySQL
  MaxIssued     \* bound: token pairs TikTok issues

Requests == Admitters \cup Refreshers \cup Backfillers \cup Editors

ASSUME ShopsAssumption ==
  /\ IsFiniteSet(Shops)
  /\ NoShop \notin Shops

ASSUME RolesAssumption ==
  /\ Admitters \cap (Refreshers \cup Backfillers \cup Editors) = {}
  /\ Refreshers \cap (Backfillers \cup Editors) = {}
  /\ Backfillers \cap Editors = {}

ASSUME BoundsAssumption ==
  /\ Limit \in Nat \ {0} /\ MaxIssued \in Nat
  /\ JsonObjects \in BOOLEAN

VARIABLES
  shops,   \* shops.status, "none" where the shop has no row
  exempt,  \* live shops added past the limit by right or in a race: history
  tokens,  \* shop_auth_tokens of each shop, by id
  latest,  \* each shop's token row with the newest updated_at, 0 for none
  issued,  \* the refresh token that goes with each access token: TikTok
  req      \* the requests: place, shop in hand and what they have read

vars == <<shops, exempt, tokens, latest, issued, req>>

Live == {s \in Shops : shops[s] \in {"active", "disabled"}}

\* A token row: the columns, and whether raw_auth_json has the shop's cipher.
TokenRows == [access : 0..MaxIssued, refresh : 0..MaxIssued, cipher : BOOLEAN]
NoTokens  == [access |-> 0, refresh |-> 0, cipher |-> FALSE]

Callback == {"count", "find", "update", "insert", "tokFind", "tokWrite"}
Import   == {"importFind", "importCount", "importInsert"}
Places   == Callback \cup Import \cup
  {"idle", "create", "refresh", "read", "write",
   "patchFind", "patchWrite", "patchShop", "edit"}

Idle == [pc |-> "idle", at |-> NoShop, batch |-> {}, count |-> 0, added |-> 0,
         free |-> FALSE, raced |-> FALSE, tok |-> 0, row |-> NoTokens]

TypeOK ==
  /\ shops \in [Shops -> {"none", "active", "disabled", "deleted"}]
  /\ exempt \subseteq Live
  /\ tokens \in [Shops -> Seq(TokenRows)]
  /\ latest \in [Shops -> Nat]
  /\ \A s \in Shops : latest[s] <= Len(tokens[s])
  /\ issued \in Seq(1..MaxIssued) /\ Len(issued) <= MaxIssued
  /\ req \in [Requests -> [pc : Places, at : Shops \cup {NoShop}, batch : SUBSET Shops,
                           count : Nat, added : Nat, free : BOOLEAN, raced : BOOLEAN,
                           tok : Nat, row : TokenRows]]

Init ==
  /\ shops = [s \in Shops |-> "none"]
  /\ exempt = {}
  /\ tokens = [s \in Shops |-> <<>>]
  /\ latest = [s \in Shops |-> 0]
  /\ issued = <<>>
  /\ req = [p \in Requests |-> Idle]

Rest(p) == req' = [req EXCEPT ![p] = Idle]

\* Requests that add shops and are at work beside a. raced is history: such a
\* request has been at work at the same time as this one.
Others(a) == {p \in Admitters \ {a} : req[p].pc # "idle"}

Begin(a, start) ==
  req' = [p \in Requests |->
    IF p = a THEN [start EXCEPT !.raced = Others(a) # {}]
    ELSE IF p \in Others(a) THEN [req[p] EXCEPT !.raced = TRUE]
    ELSE req[p]]

\* A status written to an existing row; from deleted it brings the shop back.
SetStatus(s, status) ==
  /\ shops' = [shops EXCEPT ![s] = status]
  /\ exempt' = IF shops[s] = "deleted" THEN exempt \cup {s} ELSE exempt

\* INSERT INTO shops. A row that exists, in whatever status, is a duplicate
\* key, and the exception ends the request.
InsertRow(p, next) ==
  LET s == req[p].at IN
  \/ /\ shops[s] = "none"
     /\ shops' = [shops EXCEPT ![s] = "active"]
     /\ exempt' = IF req[p].free \/ req[p].raced THEN exempt \cup {s} ELSE exempt
     /\ req' = [req EXCEPT ![p] = next]
  \/ /\ shops[s] # "none"
     /\ Rest(p)
     /\ UNCHANGED <<shops, exempt>>

\* UPDATE shop_auth_tokens ... WHERE id = i
UpdateTokens(s, i, row) ==
  /\ tokens' = [tokens EXCEPT ![s] = [tokens[s] EXCEPT ![i] = row]]
  /\ latest' = [latest EXCEPT ![s] = i]

InsertTokens(s, row) ==
  /\ tokens' = [tokens EXCEPT ![s] = Append(tokens[s], row)]
  /\ latest' = [latest EXCEPT ![s] = Len(tokens[s]) + 1]

\* The row that the loader, the callback and the script read: ORDER BY id DESC.
Newest(s) == tokens[s][Len(tokens[s])]

------------------------------------------------------------------------------
(* The OAuth callback                                                       *)

\* The code is exchanged for one pair of tokens that every shop of the batch
\* gets; a platform user's callback is unlimited.
handleCallbackByCode(a) ==
  /\ req[a].pc = "idle"
  /\ Len(issued) < MaxIssued
  /\ LET n == Len(issued) + 1 IN
     \E B \in SUBSET Shops \ {{}}, unlimited \in BOOLEAN :
       /\ issued' = Append(issued, n)
       /\ Begin(a, [Idle EXCEPT
            !.pc = "count", !.batch = B, !.free = unlimited,
            !.row = [access |-> n, refresh |-> n, cipher |-> TRUE]])
  /\ UNCHANGED <<shops, exempt, tokens, latest>>

countShopsForTenant(a) ==
  /\ req[a].pc = "count"
  /\ req' = [req EXCEPT ![a] = [@ EXCEPT !.pc = "find", !.count = Cardinality(Live)]]
  /\ UNCHANGED <<shops, exempt, tokens, latest, issued>>

\* (mutant) one shop too many
LimitReachedLate(a) ==
  ~req[a].free /\ req[a].count + req[a].added > Limit

\* A new shop is counted in currentCount and in pendingNewInBatch.
LimitReached(a) ==
  ~req[a].free /\ req[a].count + req[a].added >= Limit

\* The SELECT of the next shop of the batch, and what follows from it at once.
FindShop(a, s) ==
  /\ req[a].pc = "find" /\ s \in req[a].batch
  /\ LET taken == [req[a] EXCEPT !.batch = @ \ {s}] IN
     \/ /\ shops[s] # "none"
        /\ req' = [req EXCEPT ![a] = [taken EXCEPT !.pc = "update", !.at = s]]
     \/ /\ shops[s] = "none" /\ ~LimitReached(a)
        /\ req' = [req EXCEPT ![a] = [taken EXCEPT !.pc = "insert", !.at = s]]
     \/ /\ shops[s] = "none" /\ LimitReached(a)
        /\ req' = [req EXCEPT ![a] = taken]
  /\ UNCHANGED <<shops, exempt, tokens, latest, issued>>

UpdateShop(a) ==
  /\ req[a].pc = "update"
  /\ SetStatus(req[a].at, "active")
  /\ req' = [req EXCEPT ![a] = [@ EXCEPT !.pc = "tokFind"]]
  /\ UNCHANGED <<tokens, latest, issued>>

InsertShop(a) ==
  /\ req[a].pc = "insert"
  /\ InsertRow(a, [req[a] EXCEPT !.pc = "tokFind", !.count = @ + 1, !.added = @ + 1])
  /\ UNCHANGED <<tokens, latest, issued>>

\* (mutant) the SELECT finds no row
FindNoToken(a) ==
  /\ req[a].pc = "tokFind"
  /\ req' = [req EXCEPT ![a] = [@ EXCEPT !.pc = "tokWrite", !.tok = 0]]
  /\ UNCHANGED <<shops, exempt, tokens, latest, issued>>

\* upsertShopAuthToken: the SELECT, then an UPDATE of that row or an INSERT.
FindToken(a) ==
  /\ req[a].pc = "tokFind"
  /\ req' = [req EXCEPT ![a] =
       [@ EXCEPT !.pc = "tokWrite", !.tok = Len(tokens[req[a].at])]]
  /\ UNCHANGED <<shops, exempt, tokens, latest, issued>>

upsertShopAuthToken(a) ==
  /\ req[a].pc = "tokWrite"
  /\ \/ /\ req[a].tok # 0
        /\ UpdateTokens(req[a].at, req[a].tok, req[a].row)
     \/ /\ req[a].tok = 0
        /\ InsertTokens(req[a].at, req[a].row)
  /\ req' = [req EXCEPT ![a] = [@ EXCEPT !.pc = "find", !.at = NoShop, !.tok = 0]]
  /\ UNCHANGED <<shops, exempt, issued>>

\* The batch of a callback or of an import is done.
BatchEnds(a) ==
  /\ req[a].pc \in {"find", "importFind"} /\ req[a].batch = {}
  /\ Rest(a)
  /\ UNCHANGED <<shops, exempt, tokens, latest, issued>>

------------------------------------------------------------------------------
(* Creation by hand, import from the cache, status and deletion             *)

assertShopLimit(a, s) ==
  /\ req[a].pc = "idle"
  /\ Cardinality(Live) < Limit
  /\ Begin(a, [Idle EXCEPT !.pc = "create", !.at = s])
  /\ UNCHANGED <<shops, exempt, tokens, latest, issued>>

createShop(a) ==
  /\ req[a].pc = "create"
  /\ InsertRow(a, Idle)
  /\ UNCHANGED <<tokens, latest, issued>>

importFromCache(a) ==
  /\ req[a].pc = "idle"
  /\ \E B \in SUBSET Shops \ {{}} :
       Begin(a, [Idle EXCEPT !.pc = "importFind", !.batch = B])
  /\ UNCHANGED <<shops, exempt, tokens, latest, issued>>

\* A shop that has a row only gets a new last_cache_sync_at.
ImportFind(a, s) ==
  /\ req[a].pc = "importFind" /\ s \in req[a].batch
  /\ LET rest == [req[a] EXCEPT !.batch = @ \ {s}] IN
     \/ /\ shops[s] # "none"
        /\ req' = [req EXCEPT ![a] = rest]
     \/ /\ shops[s] = "none"
        /\ req' = [req EXCEPT ![a] = [rest EXCEPT !.pc = "importCount", !.at = s]]
  /\ UNCHANGED <<shops, exempt, tokens, latest, issued>>

\* The import counts anew before every insert.
ImportCount(a) ==
  /\ req[a].pc = "importCount"
  /\ \/ /\ Cardinality(Live) < Limit
        /\ req' = [req EXCEPT ![a] = [@ EXCEPT !.pc = "importInsert"]]
     \/ /\ Cardinality(Live) >= Limit
        /\ req' = [req EXCEPT ![a] = [@ EXCEPT !.pc = "importFind", !.at = NoShop]]
  /\ UNCHANGED <<shops, exempt, tokens, latest, issued>>

ImportInsert(a) ==
  /\ req[a].pc = "importInsert"
  /\ InsertRow(a, [req[a] EXCEPT !.pc = "importFind", !.at = NoShop])
  /\ UNCHANGED <<tokens, latest, issued>>

\* updateShopStatus reads the row, then writes the status.
FindForStatus(e, s) ==
  /\ req[e].pc = "idle"
  /\ s \in Live
  /\ req' = [req EXCEPT ![e] = [Idle EXCEPT !.pc = "edit", !.at = s]]
  /\ UNCHANGED <<shops, exempt, tokens, latest, issued>>

updateShopStatus(e) ==
  /\ req[e].pc = "edit"
  /\ \E status \in {"active", "disabled"} : SetStatus(req[e].at, status)
  /\ Rest(e)
  /\ UNCHANGED <<tokens, latest, issued>>

\* The row's read before the write makes no difference: deleting twice is
\* deleting once.
softDeleteShop(s) ==
  /\ s \in Live
  /\ shops' = [shops EXCEPT ![s] = "deleted"]
  /\ exempt' = exempt \ {s}
  /\ UNCHANGED <<tokens, latest, issued, req>>

------------------------------------------------------------------------------
(* Token refresh                                                            *)

\* A caller has loaded a shop with the refresh token of its newest row.
LoadShop(r, s) ==
  /\ req[r].pc = "idle"
  /\ shops[s] # "deleted" /\ tokens[s] # <<>>
  /\ req' = [req EXCEPT ![r] =
       [Idle EXCEPT !.pc = "refresh", !.at = s, !.row.refresh = Newest(s).refresh]]
  /\ UNCHANGED <<shops, exempt, tokens, latest, issued>>

\* (mutant) the fallback to the token that was sent is lost
NewPairBlank(r, rotated) ==
  LET n == Len(issued) + 1 IN
  [access |-> n, refresh |-> IF rotated THEN n ELSE 0, cipher |-> FALSE]

\* An answer without a refresh token leaves the one that was sent in use.
NewPair(r, rotated) ==
  LET n == Len(issued) + 1 IN
  [access |-> n, refresh |-> IF rotated THEN n ELSE req[r].row.refresh, cipher |-> FALSE]

\* TikTok answers, and the row to write is selected by updated_at.
refreshShopAccessToken(r) ==
  /\ req[r].pc = "refresh"
  /\ Len(issued) < MaxIssued
  /\ \E rotated \in BOOLEAN :
       LET pair == NewPair(r, rotated) IN
       /\ issued' = Append(issued, pair.refresh)
       /\ req' = [req EXCEPT ![r] =
            [@ EXCEPT !.pc = "read", !.tok = latest[req[r].at], !.row = pair]]
  /\ UNCHANGED <<shops, exempt, tokens, latest>>

\* JSON.parse(String(raw_auth_json)): of a value the driver has parsed already
\* it throws, and raw starts empty.
KeepsCipher(row) == row.cipher /\ ~JsonObjects

ReadRawAuth(r) ==
  /\ req[r].pc = "read"
  /\ req' = [req EXCEPT ![r] = [@ EXCEPT !.pc = "write",
       !.row.cipher = KeepsCipher(tokens[req[r].at][req[r].tok])]]
  /\ UNCHANGED <<shops, exempt, tokens, latest, issued>>

\* (mutant) an answer without a refresh token leaves the column to COALESCE
persistCoalesced(r) ==
  /\ req[r].pc = "write"
  /\ LET old == tokens[req[r].at][req[r].tok] IN
     UpdateTokens(req[r].at, req[r].tok,
       [req[r].row EXCEPT !.refresh = IF @ = req[r].row.access THEN @ ELSE old.refresh])
  /\ Rest(r)
  /\ UNCHANGED <<shops, exempt, issued>>

persistRefreshedTokenToMysql(r) ==
  /\ req[r].pc = "write"
  /\ UpdateTokens(req[r].at, req[r].tok, req[r].row)
  /\ Rest(r)
  /\ UNCHANGED <<shops, exempt, issued>>

------------------------------------------------------------------------------
(* Cipher backfill                                                          *)

\* A shop with tokens and no cipher; shops.json or TikTok knows the cipher.
listShopsMissingCipher(b, s) ==
  /\ req[b].pc = "idle"
  /\ shops[s] # "deleted" /\ tokens[s] # <<>> /\ ~Newest(s).cipher
  /\ req' = [req EXCEPT ![b] = [Idle EXCEPT !.pc = "patchFind", !.at = s]]
  /\ UNCHANGED <<shops, exempt, tokens, latest, issued>>

FindRawAuth(b) ==
  /\ req[b].pc = "patchFind"
  /\ req' = [req EXCEPT ![b] =
       [@ EXCEPT !.pc = "patchWrite", !.tok = Len(tokens[req[b].at])]]
  /\ UNCHANGED <<shops, exempt, tokens, latest, issued>>

patchShopAuthCipherInMysql(b) ==
  /\ req[b].pc = "patchWrite"
  /\ LET s == req[b].at IN
     UpdateTokens(s, req[b].tok, [tokens[s][req[b].tok] EXCEPT !.cipher = TRUE])
  /\ req' = [req EXCEPT ![b] = [@ EXCEPT !.pc = "patchShop"]]
  /\ UNCHANGED <<shops, exempt, issued>>

ReactivateShop(b) ==
  /\ req[b].pc = "patchShop"
  /\ shops' = [shops EXCEPT ![req[b].at] = IF @ = "deleted" THEN @ ELSE "active"]
  /\ Rest(b)
  /\ UNCHANGED <<exempt, tokens, latest, issued>>

------------------------------------------------------------------------------

\* A statement fails, TikTok refuses, or the process dies: what was written
\* stays, and nothing takes the request up again.
Abort(p) ==
  /\ req[p].pc # "idle"
  /\ Rest(p)
  /\ UNCHANGED <<shops, exempt, tokens, latest, issued>>

CallbackStep(a) ==
  \/ handleCallbackByCode(a) \/ countShopsForTenant(a)
  \/ \E s \in Shops : FindShop(a, s)
  \/ UpdateShop(a) \/ InsertShop(a)
  \/ FindToken(a) \/ upsertShopAuthToken(a)
  \/ BatchEnds(a)

AdmissionStep(a) ==
  \/ \E s \in Shops : assertShopLimit(a, s) \/ ImportFind(a, s)
  \/ createShop(a)
  \/ importFromCache(a) \/ ImportCount(a) \/ ImportInsert(a)

RefreshStep(r) ==
  \/ \E s \in Shops : LoadShop(r, s)
  \/ refreshShopAccessToken(r) \/ ReadRawAuth(r) \/ persistRefreshedTokenToMysql(r)

BackfillStep(b) ==
  \/ \E s \in Shops : listShopsMissingCipher(b, s)
  \/ FindRawAuth(b) \/ patchShopAuthCipherInMysql(b) \/ ReactivateShop(b)

StatusStep(e) ==
  \/ \E s \in Shops : FindForStatus(e, s)
  \/ updateShopStatus(e)

Next ==
  \/ \E a \in Admitters : CallbackStep(a) \/ AdmissionStep(a)
  \/ \E r \in Refreshers : RefreshStep(r)
  \/ \E b \in Backfillers : BackfillStep(b)
  \/ \E e \in Editors : StatusStep(e)
  \/ \E s \in Shops : softDeleteShop(s)
  \/ \E p \in Requests : Abort(p)

Spec == Init /\ [][Next]_vars

------------------------------------------------------------------------------
(* Properties                                                               *)

\* The shop limit: no more shops are live than the plan allows, but for those
\* that a platform user added, that a write to their old row brought back, or
\* that were added while another request was adding shops too.
LimitHolds == Cardinality(Live \ exempt) <= Limit

\* A shop has one row of tokens, so that the row a refresh writes (the last
\* updated) is the row everybody reads (the highest id): a second one is only
\* inserted by a callback that had company.
SecondRowIsRaced ==
  [][\A s \in Shops : tokens[s] # <<>> /\ Len(tokens'[s]) > Len(tokens[s]) =>
       \E a \in Admitters : req[a].at = s /\ req[a].pc = "tokWrite" /\ req[a].raced]_vars

\* The two tokens of a row belong together, also when a refresh writes over
\* what a callback stored after the refresh had begun.
PairsAreWhole ==
  \A s \in Shops : \A i \in 1..Len(tokens[s]) :
    LET row == tokens[s][i] IN
    row.access \in 1..Len(issued) /\ issued[row.access] = row.refresh

\* raw_auth_json is the only place of a shop's cipher: writing tokens keeps it.
CipherIsKept ==
  [][\A s \in Shops : tokens[s] # <<>> /\ Newest(s).cipher => Newest(s)'.cipher]_vars

==============================================================================
