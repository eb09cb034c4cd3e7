---------------------------- MODULE ShopAuthProofs ----------------------------
(***************************************************************************)
(* Proofs about ShopAuth, for any number of shops and requests, any limit, *)
(* and both ways a driver can hand over JSON columns.                      *)
(***************************************************************************)
EXTENDS ShopAuth, FiniteSetTheorems, TLAPS

USE ShopsAssumption, RolesAssumption, BoundsAssumption
USE DEF Callback, Import, Places

ReqType == [pc : Places, at : Shops \cup {NoShop}, batch : SUBSET Shops,
            count : Nat, added : Nat, free : BOOLEAN, raced : BOOLEAN,
            tok : Nat, row : TokenRows]

LEMMA IdleType == Idle \in ReqType
BY DEF Idle, ReqType, NoTokens, TokenRows

------------------------------------------------------------------------------
(* What the requests hold agrees with the tables                            *)

\* A pair of tokens that TikTok has issued, in the table I of what it issued.
Whole(row, I) == row.access \in 1..Len(I) /\ I[row.access] = row.refresh

\* The request q is at a place where the rows it works on are there, T being
\* the token rows.
ReqOK(q, T, I) ==
  /\ q.pc \notin {"idle", "count", "find", "importFind"} => q.at \in Shops
  /\ q.pc \in {"refresh", "read", "write", "patchFind", "patchWrite"} => T[q.at] # <<>>
  /\ q.pc \in {"read", "write", "patchWrite"} => q.tok \in 1..Len(T[q.at])
  /\ q.pc = "tokWrite" => q.tok \in 0..Len(T[q.at])
  /\ q.pc \in Callback \cup {"read", "write"} => Whole(q.row, I)
  /\ q.pc = "refresh" => q.row.refresh \in 1..MaxIssued

LatestOK == \A s \in Shops : tokens[s] # <<>> => latest[s] # 0

IInv ==
  /\ TypeOK
  /\ LatestOK
  /\ PairsAreWhole
  /\ \A p \in Requests : ReqOK(req[p], tokens, issued)

ShopsOK ==
  /\ shops \in [Shops -> {"none", "active", "disabled", "deleted"}]
  /\ exempt \subseteq Live

TokensOK ==
  /\ tokens \in [Shops -> Seq(TokenRows)]
  /\ latest \in [Shops -> Nat]
  /\ \A s \in Shops : latest[s] <= Len(tokens[s])
  /\ LatestOK
  /\ issued \in Seq(1..MaxIssued) /\ Len(issued) <= MaxIssued
  /\ PairsAreWhole

\* Rows are never removed and no pair is forgotten.
Grows(T, U, I, J) ==
  /\ \A s \in Shops : Len(T[s]) <= Len(U[s])
  /\ Len(I) <= Len(J)
  /\ \A n \in 1..Len(I) : J[n] = I[n]

LEMMA OKStays ==
  ASSUME NEW q \in ReqType,
         NEW T \in [Shops -> Seq(TokenRows)], NEW U \in [Shops -> Seq(TokenRows)],
         NEW I \in Seq(1..MaxIssued), NEW J \in Seq(1..MaxIssued),
         Grows(T, U, I, J), ReqOK(q, T, I)
  PROVE  ReqOK(q, U, J)
<1>1. \A s \in Shops : T[s] # <<>> => U[s] # <<>>
  BY DEF Grows
<1>2. Whole(q.row, I) => Whole(q.row, J)
  BY DEF Grows, Whole, ReqType, TokenRows
<1>q. QED  BY <1>1, <1>2 DEF Grows, ReqOK, ReqType

\* One request moves; the others find their rows as they were, or more.
LEMMA OneMoves ==
  ASSUME IInv, NEW p \in Requests, NEW q \in ReqType,
         req' = [req EXCEPT ![p] = q],
         tokens' \in [Shops -> Seq(TokenRows)], issued' \in Seq(1..MaxIssued),
         Grows(tokens, tokens', issued, issued'), ReqOK(q, tokens', issued')
  PROVE  /\ req' \in [Requests -> ReqType]
         /\ \A o \in Requests : ReqOK(req'[o], tokens', issued')
<1>1. req \in [Requests -> ReqType]
  BY DEF IInv, TypeOK, ReqType
<1>2. ASSUME NEW o \in Requests, o # p
      PROVE  req'[o] = req[o] /\ ReqOK(req[o], tokens', issued')
  BY <1>1, <1>2, OKStays DEF IInv, TypeOK
<1>q. QED  BY <1>1, <1>2

LEMMA TablesGrow ==
  ASSUME TypeOK, UNCHANGED <<tokens, issued>>
  PROVE  /\ tokens' \in [Shops -> Seq(TokenRows)] /\ issued' \in Seq(1..MaxIssued)
         /\ Grows(tokens, tokens', issued, issued')
BY DEF TypeOK, Grows

LEMMA IssuedGrows ==
  ASSUME TypeOK, UNCHANGED tokens, NEW t \in 1..MaxIssued, issued' = Append(issued, t)
  PROVE  /\ tokens' \in [Shops -> Seq(TokenRows)] /\ issued' \in Seq(1..MaxIssued)
         /\ Grows(tokens, tokens', issued, issued')
BY DEF TypeOK, Grows

LEMMA UpdateGrows ==
  ASSUME TypeOK, LatestOK, PairsAreWhole, UNCHANGED issued,
         NEW s \in Shops, NEW i \in 1..Len(tokens[s]), NEW row \in TokenRows,
         Whole(row, issued), UpdateTokens(s, i, row)
  PROVE  /\ tokens' \in [Shops -> Seq(TokenRows)] /\ issued' \in Seq(1..MaxIssued)
         /\ Grows(tokens, tokens', issued, issued')
         /\ latest' \in [Shops -> Nat] /\ \A z \in Shops : latest'[z] <= Len(tokens'[z])
         /\ LatestOK' /\ PairsAreWhole'
<1>1. tokens[s] \in Seq(TokenRows)
  BY DEF TypeOK
<1>2. DEFINE rows == [tokens[s] EXCEPT ![i] = row]
<1>3. /\ rows \in Seq(TokenRows) /\ Len(rows) = Len(tokens[s]) /\ rows # <<>>
      /\ \A j \in 1..Len(rows) : rows[j] = IF j = i THEN row ELSE tokens[s][j]
  BY <1>1
<1>4. tokens' = [tokens EXCEPT ![s] = rows] /\ latest' = [latest EXCEPT ![s] = i]
  BY DEF UpdateTokens
<1> HIDE DEF rows
<1>5. /\ tokens' \in [Shops -> Seq(TokenRows)]
      /\ tokens'[s] = rows /\ \A z \in Shops \ {s} : tokens'[z] = tokens[z]
  BY <1>3, <1>4 DEF TypeOK
<1>6. /\ latest' \in [Shops -> Nat]
      /\ latest'[s] = i /\ \A z \in Shops \ {s} : latest'[z] = latest[z]
  BY <1>4 DEF TypeOK
<1>7. Grows(tokens, tokens', issued, issued')
  <2>1. \A z \in Shops : Len(tokens[z]) \in Nat
    BY DEF TypeOK
  <2>2. \A z \in Shops : Len(tokens[z]) <= Len(tokens'[z])
    BY <2>1, <1>3, <1>5
  <2>3. Len(issued) \in Nat /\ issued' = issued
    BY DEF TypeOK
  <2>q. QED  BY <2>2, <2>3 DEF Grows
<1>8. \A z \in Shops : latest'[z] <= Len(tokens'[z])
  <2>1. \A z \in Shops : latest[z] <= Len(tokens[z])
    BY DEF TypeOK
  <2>2. latest'[s] <= Len(tokens'[s])
    BY <1>3, <1>5, <1>6, <1>1
  <2>3. ASSUME NEW z \in Shops \ {s}  PROVE latest'[z] <= Len(tokens'[z])
    BY <2>1, <1>5, <1>6
  <2>q. QED  BY <2>2, <2>3
<1>9. LatestOK'
  BY <1>3, <1>5, <1>6 DEF LatestOK
<1>10. PairsAreWhole'
  <2>1. SUFFICES ASSUME NEW z \in Shops, NEW j \in 1..Len(tokens'[z])
                 PROVE  Whole(tokens'[z][j], issued')
    BY DEF PairsAreWhole, Whole
  <2>2. CASE z # s
    BY <2>2, <1>5 DEF PairsAreWhole, Whole
  <2>3. CASE z = s
    <3>1. \/ rows[j] = row
          \/ j \in 1..Len(tokens[s]) /\ rows[j] = tokens[s][j]
      BY <2>3, <1>3, <1>5
    <3>q. QED  BY <3>1, <2>3, <1>5 DEF PairsAreWhole, Whole
  <2>q. QED  BY <2>2, <2>3
<1>q. QED  BY <1>5, <1>6, <1>7, <1>8, <1>9, <1>10 DEF TypeOK

LEMMA InsertGrows ==
  ASSUME TypeOK, LatestOK, PairsAreWhole, UNCHANGED issued,
         NEW s \in Shops, NEW row \in TokenRows,
         Whole(row, issued), InsertTokens(s, row)
  PROVE  /\ tokens' \in [Shops -> Seq(TokenRows)] /\ issued' \in Seq(1..MaxIssued)
         /\ Grows(tokens, tokens', issued, issued')
         /\ latest' \in [Shops -> Nat] /\ \A z \in Shops : latest'[z] <= Len(tokens'[z])
         /\ LatestOK' /\ PairsAreWhole'
<1>1. tokens[s] \in Seq(TokenRows)
  BY DEF TypeOK
<1>2. DEFINE rows == Append(tokens[s], row)
<1>3. /\ rows \in Seq(TokenRows) /\ Len(rows) = Len(tokens[s]) + 1
      /\ \A j \in 1..Len(rows) :
           rows[j] = IF j = Len(tokens[s]) + 1 THEN row ELSE tokens[s][j]
  BY <1>1
<1>4. tokens' = [tokens EXCEPT ![s] = rows] /\ latest' = [latest EXCEPT ![s] = Len(rows)]
  BY <1>3 DEF InsertTokens
<1>a. Len(tokens[s]) \in Nat
  BY <1>1
<1> HIDE DEF rows
<1>5. /\ tokens' \in [Shops -> Seq(TokenRows)]
      /\ tokens'[s] = rows /\ \A z \in Shops \ {s} : tokens'[z] = tokens[z]
  BY <1>3, <1>4 DEF TypeOK
<1>6. /\ latest' \in [Shops -> Nat]
      /\ latest'[s] = Len(rows) /\ \A z \in Shops \ {s} : latest'[z] = latest[z]
  BY <1>3, <1>4, <1>a DEF TypeOK
<1>7. Grows(tokens, tokens', issued, issued')
  <2>1. \A z \in Shops : Len(tokens[z]) \in Nat
    BY DEF TypeOK
  <2>2. \A z \in Shops : Len(tokens[z]) <= Len(tokens'[z])
    BY <2>1, <1>3, <1>5
  <2>3. Len(issued) \in Nat /\ issued' = issued
    BY DEF TypeOK
  <2>q. QED  BY <2>2, <2>3 DEF Grows
<1>8. \A z \in Shops : latest'[z] <= Len(tokens'[z])
  <2>1. \A z \in Shops : latest[z] <= Len(tokens[z])
    BY DEF TypeOK
  <2>2. latest'[s] <= Len(tokens'[s])
    BY <1>3, <1>5, <1>6, <1>a
  <2>3. ASSUME NEW z \in Shops \ {s}  PROVE latest'[z] <= Len(tokens'[z])
    BY <2>1, <1>5, <1>6
  <2>q. QED  BY <2>2, <2>3
<1>9. LatestOK'
  BY <1>3, <1>5, <1>6, <1>a DEF LatestOK
<1>10. PairsAreWhole'
  <2>1. SUFFICES ASSUME NEW z \in Shops, NEW j \in 1..Len(tokens'[z])
                 PROVE  Whole(tokens'[z][j], issued')
    BY DEF PairsAreWhole, Whole
  <2>2. CASE z # s
    BY <2>2, <1>5 DEF PairsAreWhole, Whole
  <2>3. CASE z = s
    <3>1. \/ rows[j] = row
          \/ j \in 1..Len(tokens[s]) /\ rows[j] = tokens[s][j]
      BY <2>3, <1>3, <1>5, <1>a
    <3>q. QED  BY <3>1, <2>3, <1>5 DEF PairsAreWhole, Whole
  <2>q. QED  BY <2>2, <2>3
<1>q. QED  BY <1>5, <1>6, <1>7, <1>8, <1>9, <1>10 DEF TypeOK

LEMMA UpdatesKeep ==
  ASSUME TypeOK, LatestOK, PairsAreWhole, UNCHANGED issued,
         NEW s \in Shops, NEW i \in 1..Len(tokens[s]), NEW row \in TokenRows,
         Whole(row, issued), UpdateTokens(s, i, row)
  PROVE  TokensOK' /\ Grows(tokens, tokens', issued, issued')
BY UpdateGrows DEF TokensOK, TypeOK

LEMMA InsertsKeep ==
  ASSUME TypeOK, LatestOK, PairsAreWhole, UNCHANGED issued,
         NEW s \in Shops, NEW row \in TokenRows,
         Whole(row, issued), InsertTokens(s, row)
  PROVE  TokensOK' /\ Grows(tokens, tokens', issued, issued')
BY InsertGrows DEF TokensOK, TypeOK

LEMMA IssuesKeep ==
  ASSUME TypeOK, LatestOK, PairsAreWhole, UNCHANGED <<tokens, latest>>,
         NEW t \in 1..MaxIssued, issued' = Append(issued, t), Len(issued) < MaxIssued
  PROVE  TokensOK' /\ Grows(tokens, tokens', issued, issued')
<1>1. /\ issued' \in Seq(1..MaxIssued) /\ Len(issued') <= MaxIssued
      /\ Grows(tokens, tokens', issued, issued')
  <2>1. issued \in Seq(1..MaxIssued) /\ Len(issued) \in Nat
    BY DEF TypeOK
  <2>2. Len(issued') = Len(issued) + 1
    BY <2>1
  <2>q. QED  BY <2>1, <2>2, IssuedGrows
<1>2. PairsAreWhole'
  <2>0. tokens' = tokens
    OBVIOUS
  <2>1. SUFFICES ASSUME NEW z \in Shops, NEW j \in 1..Len(tokens[z])
                 PROVE  Whole(tokens[z][j], issued')
    BY <2>0 DEF PairsAreWhole, Whole
  <2>2. Whole(tokens[z][j], issued)
    BY DEF PairsAreWhole, Whole
  <2>3. tokens[z][j].access \in Nat /\ Len(issued) \in Nat /\ Len(issued') \in Nat
    <3>1. tokens[z] \in Seq(TokenRows)
      BY DEF TypeOK
    <3>2. tokens[z][j] \in TokenRows
      BY <3>1, <2>1
    <3>q. QED  BY <1>1, <3>2 DEF TypeOK, TokenRows
  <2>q. QED  BY <1>1, <2>2, <2>3 DEF Grows, Whole
<1>3. TypeOK /\ LatestOK /\ tokens' = tokens /\ latest' = latest
  OBVIOUS
<1>q. QED  BY <1>1, <1>2, <1>3 DEF TokensOK, TypeOK, LatestOK

------------------------------------------------------------------------------
(* The invariant from its parts                                             *)

LEMMA Parts ==
  /\ IInv => /\ ShopsOK /\ TokensOK /\ req \in [Requests -> ReqType]
             /\ \A p \in Requests : ReqOK(req[p], tokens, issued)
  /\ /\ ShopsOK /\ TokensOK /\ req \in [Requests -> ReqType]
     /\ \A p \in Requests : ReqOK(req[p], tokens, issued)
     => IInv
BY DEF IInv, TypeOK, ShopsOK, TokensOK, LatestOK, ReqType

LEMMA PartsNext ==
  ASSUME ShopsOK', TokensOK', req' \in [Requests -> ReqType],
         \A p \in Requests : ReqOK(req'[p], tokens', issued')
  PROVE  IInv'
BY DEF IInv, TypeOK, ShopsOK, TokensOK, LatestOK, ReqType, ReqOK, Whole, Live

\* A step of one request that leaves the tables in order.
LEMMA Moves ==
  ASSUME IInv, NEW p \in Requests, NEW q \in ReqType,
         req' = [req EXCEPT ![p] = q],
         ShopsOK', TokensOK', Grows(tokens, tokens', issued, issued'),
         ReqOK(q, tokens', issued')
  PROVE  IInv'
<1>1. tokens' \in [Shops -> Seq(TokenRows)] /\ issued' \in Seq(1..MaxIssued)
  BY DEF TokensOK
<1>q. QED  BY <1>1, OneMoves, PartsNext

LEMMA SameShops ==
  ASSUME IInv, UNCHANGED <<shops, exempt>>
  PROVE  ShopsOK'
BY DEF IInv, TypeOK, ShopsOK, Live

LEMMA SameTokens ==
  ASSUME IInv, UNCHANGED <<tokens, latest, issued>>
  PROVE  TokensOK' /\ Grows(tokens, tokens', issued, issued')
<1>1. Grows(tokens, tokens', issued, issued')
  BY TablesGrow DEF IInv
<1>q. QED  BY <1>1 DEF IInv, TypeOK, TokensOK, LatestOK, PairsAreWhole

\* A step of one request that writes neither shops nor tokens.
LEMMA OnlyMoves ==
  ASSUME IInv, NEW p \in Requests, NEW q \in ReqType,
         req' = [req EXCEPT ![p] = q],
         UNCHANGED <<shops, exempt, tokens, latest, issued>>, ReqOK(q, tokens, issued)
  PROVE  IInv'
BY Moves, SameShops, SameTokens

LEMMA IdleOK ==
  ASSUME NEW T, NEW I PROVE ReqOK(Idle, T, I)
BY DEF ReqOK, Idle

LEMMA InitIInv == Init => IInv
<1>1. SUFFICES ASSUME Init PROVE IInv
  OBVIOUS
<1>2. ShopsOK
  <2>1. shops \in [Shops -> {"none", "active", "disabled", "deleted"}]
    BY <1>1 DEF Init
  <2>2. exempt = {}
    BY <1>1 DEF Init
  <2>q. QED  BY <2>1, <2>2 DEF ShopsOK
<1>3. TokensOK
  <2>1. /\ tokens = [s \in Shops |-> <<>>] /\ latest = [s \in Shops |-> 0]
        /\ issued = <<>>
    BY <1>1 DEF Init
  <2>2. <<>> \in Seq(TokenRows) /\ <<>> \in Seq(1..MaxIssued) /\ Len(<<>>) = 0
    OBVIOUS
  <2>3. \A s \in Shops : tokens[s] = <<>> /\ latest[s] = 0
    BY <2>1
  <2>4. /\ tokens \in [Shops -> Seq(TokenRows)]
        /\ issued \in Seq(1..MaxIssued) /\ Len(issued) <= MaxIssued
    BY <2>1, <2>2
  <2>5. latest \in [Shops -> Nat] /\ LatestOK
    BY <2>1, <2>3 DEF LatestOK
  <2>6. PairsAreWhole /\ \A s \in Shops : latest[s] <= Len(tokens[s])
    BY <2>2, <2>3 DEF PairsAreWhole
  <2>q. QED  BY <2>4, <2>5, <2>6 DEF TokensOK
<1>4. req \in [Requests -> ReqType] /\ \A p \in Requests : req[p] = Idle
  <2>1. req = [p \in Requests |-> Idle]
    BY <1>1 DEF Init
  <2>q. QED  BY <2>1, IdleType
<1>q. QED  BY <1>2, <1>3, <1>4, IdleOK, Parts

LEMMA OKIsTheSame ==
  ASSUME NEW q \in ReqType, NEW b \in BOOLEAN, NEW T, NEW I, ReqOK(q, T, I)
  PROVE  [q EXCEPT !.raced = b] \in ReqType /\ ReqOK([q EXCEPT !.raced = b], T, I)
BY DEF ReqType, ReqOK, Whole

\* A request begins, which may also be noted in those at work beside it.
LEMMA BeginsMove ==
  ASSUME IInv, NEW a \in Admitters, NEW q \in ReqType, Begin(a, q),
         ShopsOK', TokensOK', Grows(tokens, tokens', issued, issued'),
         ReqOK(q, tokens', issued')
  PROVE  IInv'
<1>1. req \in [Requests -> ReqType] /\ tokens \in [Shops -> Seq(TokenRows)]
      /\ issued \in Seq(1..MaxIssued) /\ \A p \in Requests : ReqOK(req[p], tokens, issued)
  BY Parts DEF TokensOK
<1>2. tokens' \in [Shops -> Seq(TokenRows)] /\ issued' \in Seq(1..MaxIssued)
  BY DEF TokensOK
<1>3. ASSUME NEW p \in Requests
      PROVE  ReqOK(req[p], tokens', issued')
  BY <1>1, <1>2, OKStays
<1>4. DEFINE start == [q EXCEPT !.raced = Others(a) # {}]
             beside(p) == [req[p] EXCEPT !.raced = TRUE]
<1>5. start \in ReqType /\ ReqOK(start, tokens', issued')
  <2>1. (Others(a) # {}) \in BOOLEAN
    OBVIOUS
  <2>q. QED  BY <2>1, OKIsTheSame
<1>6. \A p \in Requests : beside(p) \in ReqType /\ ReqOK(beside(p), tokens', issued')
  BY <1>1, <1>3, OKIsTheSame
<1>7. req' = [p \in Requests |->
                IF p = a THEN start ELSE IF p \in Others(a) THEN beside(p) ELSE req[p]]
  BY DEF Begin
<1> HIDE DEF start, beside
<1>8. \A p \in Requests : req'[p] \in ReqType /\ ReqOK(req'[p], tokens', issued')
  BY <1>1, <1>3, <1>5, <1>6, <1>7
<1>9. req' \in [Requests -> ReqType]
  BY <1>7, <1>8
<1>q. QED  BY <1>8, <1>9, PartsNext

LEMMA StatusesKeep ==
  ASSUME IInv, NEW s \in Shops, NEW status \in {"active", "disabled"},
         SetStatus(s, status)
  PROVE  ShopsOK'
BY DEF IInv, TypeOK, ShopsOK, Live, SetStatus

LEMMA RestMoves ==
  ASSUME IInv, NEW p \in Requests, Rest(p),
         ShopsOK', TokensOK', Grows(tokens, tokens', issued, issued')
  PROVE  IInv'
BY Moves, IdleType, IdleOK DEF Rest

LEMMA InsertRowMoves ==
  ASSUME IInv, NEW p \in Requests, NEW next \in ReqType, InsertRow(p, next),
         req[p].at \in Shops, UNCHANGED <<tokens, latest, issued>>,
         ReqOK(next, tokens, issued)
  PROVE  IInv'
<1>1. TokensOK' /\ Grows(tokens, tokens', issued, issued') /\ ReqOK(next, tokens', issued')
  BY SameTokens
<1>2. CASE shops[req[p].at] = "none"
  <2>1. ShopsOK'
    <3>1. /\ shops' = [shops EXCEPT ![req[p].at] = "active"]
          /\ exempt' \subseteq exempt \cup {req[p].at}
      BY <1>2 DEF InsertRow
    <3>2. ShopsOK
      BY Parts
    <3>q. QED  BY <3>1, <3>2 DEF ShopsOK, Live
  <2>2. req' = [req EXCEPT ![p] = next]
    BY <1>2 DEF InsertRow
  <2>q. QED  BY <1>1, <2>1, <2>2, Moves
<1>3. CASE shops[req[p].at] # "none"
  <2>1. Rest(p) /\ UNCHANGED <<shops, exempt>>
    BY <1>3 DEF InsertRow
  <2>q. QED  BY <1>1, <2>1, SameShops, RestMoves
<1>q. QED  BY <1>2, <1>3

------------------------------------------------------------------------------
(* Every step keeps the invariant                                           *)

LEMMA CallbackKeeps ==
  ASSUME IInv, NEW a \in Admitters, CallbackStep(a)
  PROVE  IInv'
<1> USE DEF ReqType
<1>0. /\ a \in Requests /\ req[a] \in ReqType /\ ReqOK(req[a], tokens, issued)
      /\ req \in [Requests -> ReqType]
  BY Parts DEF Requests
<1>1. CASE handleCallbackByCode(a)
  <2>1. PICK B \in SUBSET Shops, unlimited \in BOOLEAN :
          Begin(a, [Idle EXCEPT
            !.pc = "count", !.batch = B, !.free = unlimited,
            !.row = [access |-> Len(issued) + 1, refresh |-> Len(issued) + 1,
                     cipher |-> TRUE]])
    BY <1>1 DEF handleCallbackByCode
  <2>2. DEFINE n == Len(issued) + 1
               pair == [access |-> n, refresh |-> n, cipher |-> TRUE]
               q == [Idle EXCEPT !.pc = "count", !.batch = B, !.free = unlimited,
                                 !.row = pair]
  <2>3. /\ UNCHANGED <<shops, exempt, tokens, latest>>
        /\ issued' = Append(issued, n) /\ Len(issued) < MaxIssued
    BY <1>1 DEF handleCallbackByCode
  <2>4. n \in 1..MaxIssued
    BY <2>3 DEF IInv, TypeOK
  <2>5. ShopsOK' /\ TokensOK' /\ Grows(tokens, tokens', issued, issued')
    BY <2>3, <2>4, SameShops, IssuesKeep DEF IInv
  <2>6. pair \in TokenRows /\ Whole(pair, issued')
    <3>1. issued \in Seq(1..MaxIssued)
      BY DEF IInv, TypeOK
    <3>2. Len(issued') = n /\ issued'[n] = n
      BY <2>3, <2>4, <3>1
    <3>q. QED  BY <2>4, <3>2 DEF TokenRows, Whole
  <2>7. q \in ReqType
    BY <2>6, IdleType
  <2>8. ReqOK(q, tokens', issued')
    <3>1. q.pc = "count" /\ q.row = pair
      BY DEF Idle
    <3> HIDE DEF q, pair
    <3>q. QED  BY <2>6, <3>1 DEF ReqOK
  <2>q. QED  BY <2>1, <2>5, <2>7, <2>8, BeginsMove
<1>2. CASE countShopsForTenant(a)
  <2>1. Cardinality(Live) \in Nat
    <3>1. IsFiniteSet(Live)
      BY FS_Subset DEF Live
    <3>q. QED  BY <3>1, FS_CardinalityType
  <2>2. DEFINE q == [req[a] EXCEPT !.pc = "find", !.count = Cardinality(Live)]
  <2>3. q \in ReqType
    BY <1>0, <2>1
  <2>4. ReqOK(q, tokens, issued)
    BY <1>0, <1>2 DEF ReqOK, countShopsForTenant
  <2>q. QED  BY <1>0, <1>2, <2>3, <2>4, OnlyMoves DEF countShopsForTenant
<1>3. ASSUME NEW s \in Shops, FindShop(a, s) PROVE IInv'
  <2>1. DEFINE taken == [req[a] EXCEPT !.batch = @ \ {s}]
  <2>2. /\ taken \in ReqType
        /\ [taken EXCEPT !.pc = "update", !.at = s] \in ReqType
        /\ [taken EXCEPT !.pc = "insert", !.at = s] \in ReqType
    BY <1>0
  <2>3. /\ ReqOK(taken, tokens, issued)
        /\ ReqOK([taken EXCEPT !.pc = "update", !.at = s], tokens, issued)
        /\ ReqOK([taken EXCEPT !.pc = "insert", !.at = s], tokens, issued)
    BY <1>0, <1>3 DEF ReqOK, FindShop
  <2>4. \/ req' = [req EXCEPT ![a] = taken]
        \/ req' = [req EXCEPT ![a] = [taken EXCEPT !.pc = "update", !.at = s]]
        \/ req' = [req EXCEPT ![a] = [taken EXCEPT !.pc = "insert", !.at = s]]
    BY <1>3 DEF FindShop
  <2>5. UNCHANGED <<shops, exempt, tokens, latest, issued>>
    BY <1>3 DEF FindShop
  <2> HIDE DEF taken
  <2>q. QED  BY <1>0, <2>2, <2>3, <2>4, <2>5, OnlyMoves
<1>4. CASE UpdateShop(a)
  <2>1. DEFINE q == [req[a] EXCEPT !.pc = "tokFind"]
  <2>2. q \in ReqType
    BY <1>0
  <2>3. /\ req[a].at \in Shops /\ ReqOK(q, tokens, issued)
    BY <1>0, <1>4 DEF ReqOK, UpdateShop
  <2>4. ShopsOK'
    BY <1>4, <2>3, StatusesKeep DEF UpdateShop
  <2>5. /\ TokensOK' /\ Grows(tokens, tokens', issued, issued')
        /\ ReqOK(q, tokens', issued')
    BY <1>4, <2>3, SameTokens DEF UpdateShop
  <2>q. QED  BY <1>0, <1>4, <2>2, <2>4, <2>5, Moves DEF UpdateShop
<1>5. CASE InsertShop(a)
  <2>1. DEFINE q == [req[a] EXCEPT !.pc = "tokFind", !.count = @ + 1, !.added = @ + 1]
  <2>2. q \in ReqType
    <3>1. req[a].count + 1 \in Nat /\ req[a].added + 1 \in Nat
      BY <1>0
    <3>q. QED  BY <1>0, <3>1
  <2>3. /\ req[a].at \in Shops /\ ReqOK(q, tokens, issued)
    BY <1>0, <1>5 DEF ReqOK, InsertShop
  <2>q. QED  BY <1>0, <1>5, <2>2, <2>3, InsertRowMoves DEF InsertShop
<1>6. CASE FindToken(a)
  <2>1. DEFINE q == [req[a] EXCEPT !.pc = "tokWrite", !.tok = Len(tokens[req[a].at])]
  <2>2. req[a].at \in Shops /\ Whole(req[a].row, issued)
    BY <1>0, <1>6 DEF ReqOK, FindToken
  <2>3. Len(tokens[req[a].at]) \in Nat
    BY <2>2 DEF IInv, TypeOK
  <2>4. q \in ReqType
    BY <1>0, <2>3
  <2>5. ReqOK(q, tokens, issued)
    BY <1>0, <2>2, <2>3 DEF ReqOK
  <2>q. QED  BY <1>0, <1>6, <2>4, <2>5, OnlyMoves DEF FindToken
<1>7. CASE upsertShopAuthToken(a)
  <2>1. DEFINE q == [req[a] EXCEPT !.pc = "find", !.at = NoShop, !.tok = 0]
               s == req[a].at
  <2>2. q \in ReqType
    BY <1>0
  <2>3. /\ s \in Shops /\ Whole(req[a].row, issued) /\ req[a].row \in TokenRows
        /\ req[a].tok \in 0..Len(tokens[s])
    BY <1>0, <1>7 DEF ReqOK, upsertShopAuthToken
  <2>4. UNCHANGED <<shops, exempt, issued>> /\ req' = [req EXCEPT ![a] = q]
    BY <1>7 DEF upsertShopAuthToken
  <2>5. TokensOK' /\ Grows(tokens, tokens', issued, issued')
    <3>1. TypeOK /\ LatestOK /\ PairsAreWhole /\ UNCHANGED issued
      BY <2>4 DEF IInv
    <3>2. CASE req[a].tok # 0
      <4>1. UpdateTokens(s, req[a].tok, req[a].row)
        BY <1>7, <3>2 DEF upsertShopAuthToken
      <4>2. req[a].tok \in 1..Len(tokens[s])
        BY <2>3, <3>2, <3>1 DEF TypeOK
      <4>q. QED  BY <2>3, <3>1, <4>1, <4>2, UpdatesKeep
    <3>3. CASE req[a].tok = 0
      <4>1. InsertTokens(s, req[a].row)
        BY <1>7, <3>3 DEF upsertShopAuthToken
      <4>q. QED  BY <2>3, <3>1, <4>1, InsertsKeep
    <3>q. QED  BY <3>2, <3>3
  <2>6. ReqOK(q, tokens', issued')
    BY <1>0, <2>3, <2>4 DEF ReqOK, Whole
  <2>q. QED  BY <1>0, <2>2, <2>4, <2>5, <2>6, SameShops, Moves
<1>8. CASE BatchEnds(a)
  BY <1>0, <1>8, IdleType, IdleOK, OnlyMoves DEF BatchEnds, Rest
<1>q. QED  BY <1>1, <1>2, <1>3, <1>4, <1>5, <1>6, <1>7, <1>8 DEF CallbackStep

LEMMA AdmissionKeeps ==
  ASSUME IInv, NEW a \in Admitters, AdmissionStep(a)
  PROVE  IInv'
<1> USE DEF ReqType
<1>0. /\ a \in Requests /\ req[a] \in ReqType /\ ReqOK(req[a], tokens, issued)
      /\ req \in [Requests -> ReqType]
  BY Parts DEF Requests
<1>1. ASSUME NEW s \in Shops, assertShopLimit(a, s) PROVE IInv'
  <2>1. DEFINE q == [Idle EXCEPT !.pc = "create", !.at = s]
  <2>2. q \in ReqType /\ ReqOK(q, tokens, issued)
    BY IdleType DEF ReqOK, Idle
  <2>3. Begin(a, q) /\ UNCHANGED <<shops, exempt, tokens, latest, issued>>
    BY <1>1 DEF assertShopLimit
  <2>4. /\ ShopsOK' /\ TokensOK' /\ Grows(tokens, tokens', issued, issued')
        /\ ReqOK(q, tokens', issued')
    BY <2>2, <2>3, SameShops, SameTokens
  <2>q. QED  BY <2>2, <2>3, <2>4, BeginsMove
<1>2. ASSUME NEW s \in Shops, ImportFind(a, s) PROVE IInv'
  <2>1. DEFINE rest == [req[a] EXCEPT !.batch = @ \ {s}]
               next == [rest EXCEPT !.pc = "importCount", !.at = s]
  <2>2. rest \in ReqType /\ next \in ReqType
    BY <1>0
  <2>3. ReqOK(rest, tokens, issued) /\ ReqOK(next, tokens, issued)
    BY <1>0, <1>2 DEF ReqOK, ImportFind
  <2>4. \/ req' = [req EXCEPT ![a] = rest]
        \/ req' = [req EXCEPT ![a] = next]
    BY <1>2 DEF ImportFind
  <2>5. UNCHANGED <<shops, exempt, tokens, latest, issued>>
    BY <1>2 DEF ImportFind
  <2> HIDE DEF rest, next
  <2>q. QED  BY <1>0, <2>2, <2>3, <2>4, <2>5, OnlyMoves
<1>3. CASE createShop(a)
  <2>1. req[a].at \in Shops
    BY <1>0, <1>3 DEF ReqOK, createShop
  <2>q. QED  BY <1>0, <1>3, <2>1, IdleType, IdleOK, InsertRowMoves DEF createShop
<1>4. CASE importFromCache(a)
  <2>1. PICK B \in SUBSET Shops :
          Begin(a, [Idle EXCEPT !.pc = "importFind", !.batch = B])
    BY <1>4 DEF importFromCache
  <2>2. DEFINE q == [Idle EXCEPT !.pc = "importFind", !.batch = B]
  <2>3. q \in ReqType /\ ReqOK(q, tokens, issued)
    BY IdleType DEF ReqOK, Idle
  <2>4. UNCHANGED <<shops, exempt, tokens, latest, issued>>
    BY <1>4 DEF importFromCache
  <2>5. /\ ShopsOK' /\ TokensOK' /\ Grows(tokens, tokens', issued, issued')
        /\ ReqOK(q, tokens', issued')
    BY <2>3, <2>4, SameShops, SameTokens
  <2>q. QED  BY <2>1, <2>3, <2>5, BeginsMove
<1>5. CASE ImportCount(a)
  <2>1. DEFINE q1 == [req[a] EXCEPT !.pc = "importInsert"]
               q2 == [req[a] EXCEPT !.pc = "importFind", !.at = NoShop]
  <2>2. q1 \in ReqType /\ q2 \in ReqType
    BY <1>0
  <2>3. ReqOK(q1, tokens, issued) /\ ReqOK(q2, tokens, issued)
    BY <1>0, <1>5 DEF ReqOK, ImportCount
  <2>4. /\ UNCHANGED <<shops, exempt, tokens, latest, issued>>
        /\ req' = [req EXCEPT ![a] = q1] \/ req' = [req EXCEPT ![a] = q2]
    BY <1>5 DEF ImportCount
  <2> HIDE DEF q1, q2
  <2>q. QED  BY <1>0, <2>2, <2>3, <2>4, OnlyMoves
<1>6. CASE ImportInsert(a)
  <2>1. DEFINE q == [req[a] EXCEPT !.pc = "importFind", !.at = NoShop]
  <2>2. q \in ReqType
    BY <1>0
  <2>3. req[a].at \in Shops /\ ReqOK(q, tokens, issued)
    BY <1>0, <1>6 DEF ReqOK, ImportInsert
  <2>q. QED  BY <1>0, <1>6, <2>2, <2>3, InsertRowMoves DEF ImportInsert
<1>q. QED  BY <1>1, <1>2, <1>3, <1>4, <1>5, <1>6 DEF AdmissionStep

LEMMA RefreshKeeps ==
  ASSUME IInv, NEW r \in Refreshers, RefreshStep(r)
  PROVE  IInv'
<1> USE DEF ReqType
<1>0. /\ r \in Requests /\ req[r] \in ReqType /\ ReqOK(req[r], tokens, issued)
      /\ req \in [Requests -> ReqType]
  BY Parts DEF Requests
<1>1. ASSUME NEW s \in Shops, LoadShop(r, s) PROVE IInv'
  <2>1. DEFINE q == [Idle EXCEPT !.pc = "refresh", !.at = s,
                                 !.row.refresh = Newest(s).refresh]
  <2>2. tokens[s] \in Seq(TokenRows) /\ tokens[s] # <<>>
    BY <1>1 DEF LoadShop, IInv, TypeOK
  <2>3. Len(tokens[s]) \in 1..Len(tokens[s])
    BY <2>2
  <2>4. Newest(s) \in TokenRows /\ Whole(Newest(s), issued)
    BY <2>2, <2>3 DEF IInv, PairsAreWhole, Whole, Newest
  <2>5. Newest(s).refresh \in 1..MaxIssued
    BY <2>4 DEF IInv, TypeOK, Whole
  <2>6. [NoTokens EXCEPT !.refresh = Newest(s).refresh] \in TokenRows
    <3>1. Newest(s).refresh \in 0..MaxIssued
      BY <2>5
    <3>2. NoTokens \in TokenRows
      BY IdleType DEF Idle
    <3>q. QED  BY <3>1, <3>2 DEF TokenRows
  <2>7. q = [Idle EXCEPT !.pc = "refresh", !.at = s,
                         !.row = [NoTokens EXCEPT !.refresh = Newest(s).refresh]]
    BY DEF Idle
  <2>8. q \in ReqType /\ q.pc = "refresh" /\ q.at = s
        /\ q.row.refresh = Newest(s).refresh
    BY <2>6, <2>7, IdleType DEF Idle, NoTokens
  <2>9. ReqOK(q, tokens, issued)
    BY <2>2, <2>5, <2>8 DEF ReqOK
  <2>q. QED  BY <1>0, <1>1, <2>8, <2>9, OnlyMoves DEF LoadShop
<1>2. CASE refreshShopAccessToken(r)
  <2>1. PICK rotated \in BOOLEAN :
          /\ issued' = Append(issued, NewPair(r, rotated).refresh)
          /\ req' = [req EXCEPT ![r] = [@ EXCEPT !.pc = "read",
               !.tok = latest[req[r].at], !.row = NewPair(r, rotated)]]
    BY <1>2 DEF refreshShopAccessToken
  <2>2. DEFINE pair == NewPair(r, rotated)
               q == [req[r] EXCEPT !.pc = "read", !.tok = latest[req[r].at], !.row = pair]
  <2>3. /\ UNCHANGED <<shops, exempt, tokens, latest>> /\ Len(issued) < MaxIssued
        /\ req[r].at \in Shops /\ tokens[req[r].at] # <<>>
        /\ req[r].row.refresh \in 1..MaxIssued
    BY <1>0, <1>2 DEF refreshShopAccessToken, ReqOK
  <2>4. issued \in Seq(1..MaxIssued) /\ Len(issued) + 1 \in 1..MaxIssued
    BY <2>3 DEF IInv, TypeOK
  <2>5. /\ pair \in TokenRows /\ pair.refresh \in 1..MaxIssued
        /\ pair.access = Len(issued) + 1
    BY <2>3, <2>4 DEF NewPair, TokenRows
  <2> HIDE DEF pair
  <2>6. ShopsOK' /\ TokensOK' /\ Grows(tokens, tokens', issued, issued')
    BY <2>1, <2>3, <2>5, SameShops, IssuesKeep DEF IInv, pair
  <2>7. Whole(pair, issued')
    <3>1. Len(issued') = Len(issued) + 1 /\ issued'[Len(issued) + 1] = pair.refresh
      BY <2>1, <2>4, <2>5 DEF pair
    <3>q. QED  BY <2>4, <2>5, <3>1 DEF Whole
  <2>8. latest[req[r].at] \in 1..Len(tokens[req[r].at]) /\ latest[req[r].at] \in Nat
    BY <2>3, Parts DEF TokensOK, LatestOK
  <2>9. q \in ReqType
    BY <1>0, <2>5, <2>8
  <2>10. ReqOK(q, tokens', issued')
    <3>1. q.pc = "read" /\ q.row = pair /\ q.tok = latest[req[r].at] /\ q.at = req[r].at
      BY <1>0
    <3>q. QED  BY <2>3, <2>7, <2>8, <3>1 DEF ReqOK
  <2>q. QED  BY <1>0, <2>1, <2>6, <2>9, <2>10, Moves DEF pair
<1>3. CASE ReadRawAuth(r)
  <2>1. DEFINE keeps == KeepsCipher(tokens[req[r].at][req[r].tok])
               q == [req[r] EXCEPT !.pc = "write", !.row.cipher = keeps]
  <2>2. keeps \in BOOLEAN
    BY DEF KeepsCipher
  <2>3. req[r].row \in TokenRows /\ [req[r].row EXCEPT !.cipher = keeps] \in TokenRows
    BY <1>0, <2>2 DEF TokenRows
  <2> HIDE DEF keeps
  <2>4. q \in ReqType
    BY <1>0, <2>3
  <2>5. ReqOK(q, tokens, issued)
    BY <1>0, <1>3, <2>3 DEF ReqOK, ReadRawAuth, Whole, TokenRows
  <2>q. QED  BY <1>0, <1>3, <2>4, <2>5, OnlyMoves DEF ReadRawAuth, keeps
<1>4. CASE persistRefreshedTokenToMysql(r)
  <2>1. /\ req[r].at \in Shops /\ req[r].tok \in 1..Len(tokens[req[r].at])
        /\ req[r].row \in TokenRows /\ Whole(req[r].row, issued)
    BY <1>0, <1>4 DEF ReqOK, persistRefreshedTokenToMysql
  <2>2. /\ UpdateTokens(req[r].at, req[r].tok, req[r].row)
        /\ Rest(r) /\ UNCHANGED <<shops, exempt, issued>>
    BY <1>4 DEF persistRefreshedTokenToMysql
  <2>3. ShopsOK' /\ TokensOK' /\ Grows(tokens, tokens', issued, issued')
    BY <2>1, <2>2, SameShops, UpdatesKeep DEF IInv
  <2>q. QED  BY <1>0, <2>2, <2>3, RestMoves
<1>q. QED  BY <1>1, <1>2, <1>3, <1>4 DEF RefreshStep

LEMMA BackfillKeeps ==
  ASSUME IInv, NEW b \in Backfillers, BackfillStep(b)
  PROVE  IInv'
<1> USE DEF ReqType
<1>0. /\ b \in Requests /\ req[b] \in ReqType /\ ReqOK(req[b], tokens, issued)
      /\ req \in [Requests -> ReqType]
  BY Parts DEF Requests
<1>1. ASSUME NEW s \in Shops, listShopsMissingCipher(b, s) PROVE IInv'
  <2>1. DEFINE q == [Idle EXCEPT !.pc = "patchFind", !.at = s]
  <2>2. q \in ReqType /\ ReqOK(q, tokens, issued)
    BY <1>1, IdleType DEF ReqOK, Idle, listShopsMissingCipher
  <2>q. QED  BY <1>0, <1>1, <2>2, OnlyMoves DEF listShopsMissingCipher
<1>2. CASE FindRawAuth(b)
  <2>1. DEFINE q == [req[b] EXCEPT !.pc = "patchWrite", !.tok = Len(tokens[req[b].at])]
  <2>2. req[b].at \in Shops /\ tokens[req[b].at] # <<>>
    BY <1>0, <1>2 DEF ReqOK, FindRawAuth
  <2>3. tokens[req[b].at] \in Seq(TokenRows)
    BY <2>2 DEF IInv, TypeOK
  <2>4. /\ Len(tokens[req[b].at]) \in Nat
        /\ Len(tokens[req[b].at]) \in 1..Len(tokens[req[b].at])
    BY <2>2, <2>3
  <2>5. q \in ReqType
    BY <1>0, <2>4
  <2>6. ReqOK(q, tokens, issued)
    BY <1>0, <2>2, <2>4 DEF ReqOK
  <2>q. QED  BY <1>0, <1>2, <2>5, <2>6, OnlyMoves DEF FindRawAuth
<1>3. CASE patchShopAuthCipherInMysql(b)
  <2>1. DEFINE s == req[b].at
               old == tokens[s][req[b].tok]
               row == [old EXCEPT !.cipher = TRUE]
               q == [req[b] EXCEPT !.pc = "patchShop"]
  <2>2. s \in Shops /\ req[b].tok \in 1..Len(tokens[s]) /\ ReqOK(q, tokens, issued)
    BY <1>0, <1>3 DEF ReqOK, patchShopAuthCipherInMysql
  <2>3. old \in TokenRows /\ Whole(old, issued)
    <3>1. tokens[s] \in Seq(TokenRows)
      BY <2>2 DEF IInv, TypeOK
    <3>q. QED  BY <2>2, <3>1 DEF IInv, PairsAreWhole, Whole
  <2>4. row \in TokenRows /\ Whole(row, issued)
    BY <2>3 DEF TokenRows, Whole
  <2>5. /\ UpdateTokens(s, req[b].tok, row) /\ UNCHANGED <<shops, exempt, issued>>
        /\ req' = [req EXCEPT ![b] = q]
    BY <1>3 DEF patchShopAuthCipherInMysql
  <2>6. q \in ReqType
    BY <1>0
  <2> HIDE DEF row
  <2>7. ShopsOK' /\ TokensOK' /\ Grows(tokens, tokens', issued, issued')
    BY <2>2, <2>4, <2>5, SameShops, UpdatesKeep DEF IInv
  <2>8. ReqOK(q, tokens', issued')
    BY <1>0, <2>2, <2>5 DEF ReqOK
  <2>q. QED  BY <1>0, <2>5, <2>6, <2>7, <2>8, Moves
<1>4. CASE ReactivateShop(b)
  <2>1. ShopsOK'
    <3>1. ShopsOK /\ exempt' = exempt
          /\ shops' = [shops EXCEPT ![req[b].at] = IF @ = "deleted" THEN @ ELSE "active"]
      BY <1>4, Parts DEF ReactivateShop
    <3>q. QED  BY <3>1 DEF ShopsOK, Live
  <2>2. TokensOK' /\ Grows(tokens, tokens', issued, issued')
    BY <1>4, SameTokens DEF ReactivateShop
  <2>q. QED  BY <1>0, <1>4, <2>1, <2>2, RestMoves DEF ReactivateShop
<1>q. QED  BY <1>1, <1>2, <1>3, <1>4 DEF BackfillStep

LEMMA StatusKeeps ==
  ASSUME IInv, NEW e \in Editors, StatusStep(e)
  PROVE  IInv'
<1>0. /\ e \in Requests /\ req[e] \in ReqType /\ ReqOK(req[e], tokens, issued)
      /\ req \in [Requests -> ReqType]
  BY Parts DEF Requests
<1>1. ASSUME NEW s \in Shops, FindForStatus(e, s) PROVE IInv'
  <2>1. DEFINE q == [Idle EXCEPT !.pc = "edit", !.at = s]
  <2>2. q \in ReqType /\ ReqOK(q, tokens, issued)
    BY IdleType DEF ReqType, ReqOK, Idle
  <2>q. QED  BY <1>0, <1>1, <2>2, OnlyMoves DEF FindForStatus
<1>2. CASE updateShopStatus(e)
  <2>1. req[e].at \in Shops
    BY <1>0, <1>2 DEF ReqOK, updateShopStatus
  <2>2. ShopsOK'
    BY <1>2, <2>1, StatusesKeep DEF updateShopStatus
  <2>3. TokensOK' /\ Grows(tokens, tokens', issued, issued')
    BY <1>2, SameTokens DEF updateShopStatus
  <2>q. QED  BY <1>0, <1>2, <2>2, <2>3, RestMoves DEF updateShopStatus
<1>q. QED  BY <1>1, <1>2 DEF StatusStep

LEMMA DeletionKeeps ==
  ASSUME IInv, NEW s \in Shops, softDeleteShop(s)
  PROVE  IInv'
<1>1. ShopsOK'
  <2>1. ShopsOK
    BY Parts
  <2>q. QED  BY <2>1 DEF softDeleteShop, ShopsOK, Live
<1>2. UNCHANGED <<tokens, latest, issued, req>>
  BY DEF softDeleteShop
<1>3. TokensOK'
  BY <1>2, SameTokens
<1>4. req' \in [Requests -> ReqType] /\ \A p \in Requests : ReqOK(req'[p], tokens', issued')
  BY <1>2, Parts
<1>q. QED  BY <1>1, <1>3, <1>4, PartsNext

LEMMA StepKeeps == IInv /\ [Next]_vars => IInv'
<1>1. SUFFICES ASSUME IInv, [Next]_vars PROVE IInv'
  OBVIOUS
<1>2. ASSUME NEW p \in Requests, Abort(p) PROVE IInv'
  BY <1>1, <1>2, SameShops, SameTokens, RestMoves DEF Abort
<1>3. CASE UNCHANGED vars
  <2>1. ShopsOK' /\ TokensOK'
    BY <1>1, <1>3, SameShops, SameTokens DEF vars
  <2>2. req' \in [Requests -> ReqType] /\ \A p \in Requests : ReqOK(req'[p], tokens', issued')
    BY <1>1, <1>3, Parts DEF vars
  <2>q. QED  BY <2>1, <2>2, PartsNext
<1>q. QED
  BY <1>1, <1>2, <1>3, CallbackKeeps, AdmissionKeeps, RefreshKeeps, BackfillKeeps,
     StatusKeeps, DeletionKeeps DEF Next

THEOREM Invariance == Spec => []IInv
BY InitIInv, StepKeeps, PTL DEF Spec

\* Every variable keeps its type; what is not trivial in it is that no
\* updated_at points past the rows there are.
THEOREM TypeCorrect == Spec => []TypeOK
<1>1. IInv => TypeOK
  BY DEF IInv
<1>q. QED  BY <1>1, Invariance, PTL

\* However refreshes and callbacks write over each other, a row's two tokens
\* are a pair that TikTok gave out together.
THEOREM PairsStayWhole == Spec => []PairsAreWhole
<1>1. IInv => PairsAreWhole
  BY DEF IInv
<1>q. QED  BY <1>1, Invariance, PTL

------------------------------------------------------------------------------
(* Rows of shops are never removed                                          *)

RowOK(q, S) ==
  q.pc \in {"update", "tokFind", "tokWrite", "edit", "patchFind", "patchWrite", "patchShop"}
    => S[q.at] # "none"

RowInv ==
  /\ \A s \in Shops : tokens[s] # <<>> => shops[s] # "none"
  /\ \A p \in Requests : RowOK(req[p], shops)

ShopsStay ==
  /\ \A s \in Shops : shops[s] # "none" => shops'[s] # "none"
  /\ \A s \in Shops : tokens'[s] # <<>> => shops'[s] # "none"

LEMMA RowStays ==
  ASSUME IInv, RowInv, ShopsStay, NEW p \in Requests
  PROVE  RowOK(req[p], shops')
<1>1. ReqOK(req[p], tokens, issued) /\ RowOK(req[p], shops)
  BY Parts DEF RowInv
<1>q. QED  BY <1>1 DEF ShopsStay, RowOK, ReqOK

LEMMA RowMoves ==
  ASSUME IInv, RowInv, ShopsStay, NEW p \in Requests, NEW q,
         req' = [req EXCEPT ![p] = q], RowOK(q, shops')
  PROVE  RowInv'
<1>1. req \in [Requests -> ReqType]
  BY Parts
<1>2. \A o \in Requests : RowOK(req'[o], shops')
  BY <1>1, RowStays
<1>q. QED  BY <1>2 DEF RowInv, ShopsStay, RowOK

LEMMA SameRows ==
  ASSUME RowInv, UNCHANGED <<shops, tokens>>
  PROVE  ShopsStay
BY DEF RowInv, ShopsStay

LEMMA RowOnlyMoves ==
  ASSUME IInv, RowInv, UNCHANGED <<shops, tokens>>, NEW p \in Requests, NEW q,
         req' = [req EXCEPT ![p] = q], RowOK(q, shops)
  PROVE  RowInv'
BY SameRows, RowMoves

LEMMA RowBegins ==
  ASSUME IInv, RowInv, UNCHANGED <<shops, tokens>>, NEW a \in Admitters,
         NEW q \in ReqType, Begin(a, q), RowOK(q, shops)
  PROVE  RowInv'
<1>1. ASSUME NEW p \in Requests PROVE RowOK(req'[p], shops')
  <2>1. req[p] \in ReqType /\ RowOK(req[p], shops)
    BY Parts DEF RowInv
  <2>2. \/ req'[p] = [q EXCEPT !.raced = Others(a) # {}]
        \/ req'[p] = [req[p] EXCEPT !.raced = TRUE]
        \/ req'[p] = req[p]
    BY DEF Begin
  <2>q. QED  BY <2>1, <2>2 DEF RowOK, ReqType
<1>q. QED  BY <1>1 DEF RowInv, RowOK

LEMMA RowRests ==
  ASSUME IInv, RowInv, ShopsStay, NEW p \in Requests, Rest(p)
  PROVE  RowInv'
<1>1. RowOK(Idle, shops')
  BY DEF RowOK, Idle
<1>q. QED  BY <1>1, RowMoves DEF Rest

LEMMA RowInserts ==
  ASSUME IInv, RowInv, UNCHANGED tokens, NEW p \in Requests, NEW next \in ReqType,
         InsertRow(p, next), req[p].at \in Shops,
         next.at \in {req[p].at, NoShop}, next.pc \in {"tokFind", "importFind", "idle"},
         next.pc = "tokFind" => next.at = req[p].at
  PROVE  RowInv'
<1>1. CASE shops[req[p].at] = "none"
  <2>1. shops' = [shops EXCEPT ![req[p].at] = "active"] /\ req' = [req EXCEPT ![p] = next]
    BY <1>1 DEF InsertRow
  <2>2. ShopsStay /\ shops'[req[p].at] = "active"
    BY <2>1, Parts DEF RowInv, ShopsStay, ShopsOK
  <2>3. RowOK(next, shops')
    BY <2>2 DEF RowOK
  <2>q. QED  BY <2>1, <2>2, <2>3, RowMoves
<1>2. CASE shops[req[p].at] # "none"
  <2>1. Rest(p) /\ UNCHANGED <<shops, tokens>>
    BY <1>2 DEF InsertRow
  <2>q. QED  BY <2>1, SameRows, RowRests
<1>q. QED  BY <1>1, <1>2

LEMMA RowStatus ==
  ASSUME IInv, RowInv, UNCHANGED tokens, NEW s \in Shops,
         NEW status \in {"active", "disabled"}, SetStatus(s, status), shops[s] # "none"
  PROVE  ShopsStay
BY Parts DEF SetStatus, RowInv, ShopsStay, ShopsOK

LEMMA CallbackRows ==
  ASSUME IInv, RowInv, NEW a \in Admitters, CallbackStep(a)
  PROVE  RowInv'
<1>0. /\ a \in Requests /\ req[a] \in ReqType /\ ReqOK(req[a], tokens, issued)
      /\ req \in [Requests -> ReqType] /\ RowOK(req[a], shops)
  BY Parts DEF Requests, RowInv
<1>1. CASE handleCallbackByCode(a)
  <2>1. PICK B \in SUBSET Shops, unlimited \in BOOLEAN :
          Begin(a, [Idle EXCEPT
            !.pc = "count", !.batch = B, !.free = unlimited,
            !.row = [access |-> Len(issued) + 1, refresh |-> Len(issued) + 1,
                     cipher |-> TRUE]])
    BY <1>1 DEF handleCallbackByCode
  <2>2. DEFINE pair == [access |-> Len(issued) + 1, refresh |-> Len(issued) + 1,
                        cipher |-> TRUE]
               q == [Idle EXCEPT !.pc = "count", !.batch = B, !.free = unlimited,
                                 !.row = pair]
  <2>3. pair \in TokenRows
    BY <1>1 DEF handleCallbackByCode, TokenRows, IInv, TypeOK
  <2>4. q \in ReqType
    BY <2>3, IdleType DEF ReqType
  <2>5. RowOK(q, shops)
    BY DEF RowOK, Idle
  <2>6. UNCHANGED <<shops, tokens>>
    BY <1>1 DEF handleCallbackByCode
  <2>q. QED  BY <2>1, <2>4, <2>5, <2>6, RowBegins
<1>2. CASE countShopsForTenant(a)
  <2>1. RowOK([req[a] EXCEPT !.pc = "find", !.count = Cardinality(Live)], shops)
    BY <1>0 DEF RowOK, ReqType
  <2>q. QED  BY <1>0, <1>2, <2>1, RowOnlyMoves DEF countShopsForTenant
<1>3. ASSUME NEW s \in Shops, FindShop(a, s) PROVE RowInv'
  <2>1. DEFINE taken == [req[a] EXCEPT !.batch = @ \ {s}]
  <2>2. /\ RowOK(taken, shops)
        /\ RowOK([taken EXCEPT !.pc = "insert", !.at = s], shops)
        /\ shops[s] # "none" => RowOK([taken EXCEPT !.pc = "update", !.at = s], shops)
    BY <1>0 DEF RowOK, ReqType
  <2>3. \/ req' = [req EXCEPT ![a] = taken]
        \/ /\ req' = [req EXCEPT ![a] = [taken EXCEPT !.pc = "update", !.at = s]]
           /\ shops[s] # "none"
        \/ req' = [req EXCEPT ![a] = [taken EXCEPT !.pc = "insert", !.at = s]]
    BY <1>3 DEF FindShop
  <2>4. UNCHANGED <<shops, tokens>>
    BY <1>3 DEF FindShop
  <2> HIDE DEF taken
  <2>q. QED  BY <1>0, <2>2, <2>3, <2>4, RowOnlyMoves
<1>4. CASE UpdateShop(a)
  <2>1. req[a].at \in Shops /\ shops[req[a].at] # "none" /\ UNCHANGED tokens
    BY <1>0, <1>4 DEF ReqOK, RowOK, UpdateShop
  <2>2. ShopsStay
    BY <1>4, <2>1, RowStatus DEF UpdateShop
  <2>3. RowOK([req[a] EXCEPT !.pc = "tokFind"], shops')
    BY <1>0, <2>1, <2>2 DEF RowOK, ReqType, ShopsStay
  <2>q. QED  BY <1>0, <1>4, <2>2, <2>3, RowMoves DEF UpdateShop
<1>5. CASE InsertShop(a)
  <2>1. DEFINE q == [req[a] EXCEPT !.pc = "tokFind", !.count = @ + 1, !.added = @ + 1]
  <2>2. req[a].count + 1 \in Nat /\ req[a].added + 1 \in Nat
    BY <1>0 DEF ReqType
  <2>3. q \in ReqType /\ q.pc = "tokFind" /\ q.at = req[a].at
    BY <1>0, <2>2 DEF ReqType
  <2>4. req[a].at \in Shops
    BY <1>0, <1>5 DEF ReqOK, InsertShop
  <2>q. QED  BY <1>0, <1>5, <2>3, <2>4, RowInserts DEF InsertShop
<1>6. CASE FindToken(a)
  <2>1. RowOK([req[a] EXCEPT !.pc = "tokWrite", !.tok = Len(tokens[req[a].at])], shops)
    BY <1>0, <1>6 DEF RowOK, ReqType, FindToken
  <2>q. QED  BY <1>0, <1>6, <2>1, RowOnlyMoves DEF FindToken
<1>7. CASE upsertShopAuthToken(a)
  <2>1. req[a].at \in Shops /\ shops[req[a].at] # "none" /\ UNCHANGED shops
    BY <1>0, <1>7 DEF ReqOK, RowOK, upsertShopAuthToken
  <2>2. \A s \in Shops : s # req[a].at => tokens'[s] = tokens[s]
    BY <1>7, Parts DEF upsertShopAuthToken, UpdateTokens, InsertTokens, TokensOK
  <2>3. ShopsStay
    BY <2>1, <2>2 DEF RowInv, ShopsStay
  <2>4. RowOK([req[a] EXCEPT !.pc = "find", !.at = NoShop, !.tok = 0], shops')
    BY <1>0 DEF RowOK, ReqType
  <2>q. QED  BY <1>0, <1>7, <2>3, <2>4, RowMoves DEF upsertShopAuthToken
<1>8. CASE BatchEnds(a)
  BY <1>0, <1>8, SameRows, RowRests DEF BatchEnds
<1>q. QED  BY <1>1, <1>2, <1>3, <1>4, <1>5, <1>6, <1>7, <1>8 DEF CallbackStep

LEMMA AdmissionRows ==
  ASSUME IInv, RowInv, NEW a \in Admitters, AdmissionStep(a)
  PROVE  RowInv'
<1>0. /\ a \in Requests /\ req[a] \in ReqType /\ ReqOK(req[a], tokens, issued)
      /\ req \in [Requests -> ReqType] /\ RowOK(req[a], shops)
  BY Parts DEF Requests, RowInv
<1>1. ASSUME NEW s \in Shops, assertShopLimit(a, s) PROVE RowInv'
  <2>1. DEFINE q == [Idle EXCEPT !.pc = "create", !.at = s]
  <2>2. q \in ReqType /\ RowOK(q, shops)
    BY IdleType DEF ReqType, RowOK, Idle
  <2>q. QED  BY <1>1, <2>2, RowBegins DEF assertShopLimit
<1>2. ASSUME NEW s \in Shops, ImportFind(a, s) PROVE RowInv'
  <2>1. DEFINE rest == [req[a] EXCEPT !.batch = @ \ {s}]
               next == [rest EXCEPT !.pc = "importCount", !.at = s]
  <2>2. RowOK(rest, shops) /\ RowOK(next, shops)
    BY <1>0 DEF RowOK, ReqType
  <2>3. /\ req' = [req EXCEPT ![a] = rest] \/ req' = [req EXCEPT ![a] = next]
        /\ UNCHANGED <<shops, tokens>>
    BY <1>2 DEF ImportFind
  <2> HIDE DEF rest, next
  <2>q. QED  BY <1>0, <2>2, <2>3, RowOnlyMoves
<1>3. CASE createShop(a)
  <2>1. req[a].at \in Shops /\ Idle.pc = "idle" /\ Idle.at = NoShop
    BY <1>0, <1>3 DEF ReqOK, createShop, Idle
  <2>q. QED  BY <1>0, <1>3, <2>1, IdleType, RowInserts DEF createShop
<1>4. CASE importFromCache(a)
  <2>1. PICK B \in SUBSET Shops :
          Begin(a, [Idle EXCEPT !.pc = "importFind", !.batch = B])
    BY <1>4 DEF importFromCache
  <2>2. DEFINE q == [Idle EXCEPT !.pc = "importFind", !.batch = B]
  <2>3. q \in ReqType /\ RowOK(q, shops)
    BY IdleType DEF ReqType, RowOK, Idle
  <2>q. QED  BY <1>4, <2>1, <2>3, RowBegins DEF importFromCache
<1>5. CASE ImportCount(a)
  <2>1. DEFINE q1 == [req[a] EXCEPT !.pc = "importInsert"]
               q2 == [req[a] EXCEPT !.pc = "importFind", !.at = NoShop]
  <2>2. RowOK(q1, shops) /\ RowOK(q2, shops)
    BY <1>0 DEF RowOK, ReqType
  <2>3. /\ UNCHANGED <<shops, tokens>>
        /\ req' = [req EXCEPT ![a] = q1] \/ req' = [req EXCEPT ![a] = q2]
    BY <1>5 DEF ImportCount
  <2> HIDE DEF q1, q2
  <2>q. QED  BY <1>0, <2>2, <2>3, RowOnlyMoves
<1>6. CASE ImportInsert(a)
  <2>1. DEFINE q == [req[a] EXCEPT !.pc = "importFind", !.at = NoShop]
  <2>2. q \in ReqType /\ q.pc = "importFind" /\ q.at = NoShop
    BY <1>0 DEF ReqType
  <2>3. req[a].at \in Shops
    BY <1>0, <1>6 DEF ReqOK, ImportInsert
  <2>q. QED  BY <1>0, <1>6, <2>2, <2>3, RowInserts DEF ImportInsert
<1>q. QED  BY <1>1, <1>2, <1>3, <1>4, <1>5, <1>6 DEF AdmissionStep

\* Steps of the other requests that write no shop: they touch the tokens of a
\* shop that has some.
LEMMA RowTokens ==
  ASSUME IInv, RowInv, UNCHANGED shops, NEW s \in Shops, NEW i, NEW row,
         shops[s] # "none", UpdateTokens(s, i, row)
  PROVE  ShopsStay
<1>1. \A z \in Shops : z # s => tokens'[z] = tokens[z]
  BY Parts DEF TokensOK, UpdateTokens
<1>q. QED  BY <1>1 DEF RowInv, ShopsStay

LEMMA RefreshRows ==
  ASSUME IInv, RowInv, NEW r \in Refreshers, RefreshStep(r)
  PROVE  RowInv'
<1>0. /\ r \in Requests /\ req[r] \in ReqType /\ ReqOK(req[r], tokens, issued)
      /\ req \in [Requests -> ReqType] /\ RowOK(req[r], shops)
  BY Parts DEF Requests, RowInv
<1>1. ASSUME NEW s \in Shops, LoadShop(r, s) PROVE RowInv'
  <2>1. DEFINE q == [Idle EXCEPT !.pc = "refresh", !.at = s,
                                 !.row.refresh = Newest(s).refresh]
  <2>2. RowOK(q, shops)
    BY DEF RowOK, Idle
  <2>q. QED  BY <1>0, <1>1, <2>2, RowOnlyMoves DEF LoadShop
<1>2. CASE refreshShopAccessToken(r)
  <2>1. PICK pair :
          req' = [req EXCEPT ![r] = [@ EXCEPT !.pc = "read",
                    !.tok = latest[req[r].at], !.row = pair]]
    BY <1>2 DEF refreshShopAccessToken
  <2>2. RowOK([req[r] EXCEPT !.pc = "read", !.tok = latest[req[r].at], !.row = pair], shops)
    BY <1>0 DEF RowOK, ReqType
  <2>q. QED  BY <1>0, <1>2, <2>1, <2>2, RowOnlyMoves DEF refreshShopAccessToken
<1>3. CASE ReadRawAuth(r)
  <2>1. DEFINE keeps == KeepsCipher(tokens[req[r].at][req[r].tok])
               q == [req[r] EXCEPT !.pc = "write", !.row.cipher = keeps]
  <2> HIDE DEF keeps
  <2>2. RowOK(q, shops)
    BY <1>0 DEF RowOK, ReqType
  <2>q. QED  BY <1>0, <1>3, <2>2, RowOnlyMoves DEF ReadRawAuth, keeps
<1>4. CASE persistRefreshedTokenToMysql(r)
  <2>1. req[r].at \in Shops /\ tokens[req[r].at] # <<>>
    BY <1>0, <1>4 DEF ReqOK, persistRefreshedTokenToMysql
  <2>2. ShopsStay
    BY <1>4, <2>1, RowTokens DEF persistRefreshedTokenToMysql, RowInv
  <2>q. QED  BY <1>0, <1>4, <2>2, RowRests DEF persistRefreshedTokenToMysql
<1>q. QED  BY <1>1, <1>2, <1>3, <1>4 DEF RefreshStep

LEMMA BackfillRows ==
  ASSUME IInv, RowInv, NEW b \in Backfillers, BackfillStep(b)
  PROVE  RowInv'
<1>0. /\ b \in Requests /\ req[b] \in ReqType /\ ReqOK(req[b], tokens, issued)
      /\ req \in [Requests -> ReqType] /\ RowOK(req[b], shops)
  BY Parts DEF Requests, RowInv
<1>1. ASSUME NEW s \in Shops, listShopsMissingCipher(b, s) PROVE RowInv'
  <2>1. RowOK([Idle EXCEPT !.pc = "patchFind", !.at = s], shops)
    BY <1>1 DEF RowOK, Idle, listShopsMissingCipher, RowInv
  <2>q. QED  BY <1>0, <1>1, <2>1, RowOnlyMoves DEF listShopsMissingCipher
<1>2. CASE FindRawAuth(b)
  <2>1. RowOK([req[b] EXCEPT !.pc = "patchWrite", !.tok = Len(tokens[req[b].at])], shops)
    BY <1>0, <1>2 DEF RowOK, ReqType, FindRawAuth
  <2>q. QED  BY <1>0, <1>2, <2>1, RowOnlyMoves DEF FindRawAuth
<1>3. CASE patchShopAuthCipherInMysql(b)
  <2>1. req[b].at \in Shops /\ shops[req[b].at] # "none" /\ UNCHANGED shops
    BY <1>0, <1>3 DEF ReqOK, RowOK, patchShopAuthCipherInMysql
  <2>2. ShopsStay
    BY <1>3, <2>1, RowTokens DEF patchShopAuthCipherInMysql
  <2>3. RowOK([req[b] EXCEPT !.pc = "patchShop"], shops')
    BY <1>0, <2>1 DEF RowOK, ReqType
  <2>q. QED  BY <1>0, <1>3, <2>2, <2>3, RowMoves DEF patchShopAuthCipherInMysql
<1>4. CASE ReactivateShop(b)
  <2>1. /\ ShopsOK /\ tokens' = tokens
        /\ shops' = [shops EXCEPT ![req[b].at] = IF @ = "deleted" THEN @ ELSE "active"]
    BY <1>4, Parts DEF ReactivateShop
  <2>2. ShopsStay
    BY <2>1 DEF ShopsOK, RowInv, ShopsStay
  <2>q. QED  BY <1>0, <1>4, <2>2, RowRests DEF ReactivateShop
<1>q. QED  BY <1>1, <1>2, <1>3, <1>4 DEF BackfillStep

LEMMA StatusRows ==
  ASSUME IInv, RowInv, NEW e \in Editors, StatusStep(e)
  PROVE  RowInv'
<1>0. /\ e \in Requests /\ req[e] \in ReqType /\ ReqOK(req[e], tokens, issued)
      /\ req \in [Requests -> ReqType] /\ RowOK(req[e], shops)
  BY Parts DEF Requests, RowInv
<1>1. ASSUME NEW s \in Shops, FindForStatus(e, s) PROVE RowInv'
  <2>1. RowOK([Idle EXCEPT !.pc = "edit", !.at = s], shops)
    BY <1>1 DEF RowOK, Idle, FindForStatus, Live
  <2>q. QED  BY <1>0, <1>1, <2>1, RowOnlyMoves DEF FindForStatus
<1>2. CASE updateShopStatus(e)
  <2>1. req[e].at \in Shops /\ shops[req[e].at] # "none" /\ UNCHANGED tokens
    BY <1>0, <1>2 DEF ReqOK, RowOK, updateShopStatus
  <2>2. ShopsStay
    BY <1>2, <2>1, RowStatus DEF updateShopStatus
  <2>q. QED  BY <1>0, <1>2, <2>2, RowRests DEF updateShopStatus
<1>q. QED  BY <1>1, <1>2 DEF StatusStep

LEMMA StepRows == IInv /\ RowInv /\ [Next]_vars => RowInv'
<1>1. SUFFICES ASSUME IInv, RowInv, [Next]_vars PROVE RowInv'
  OBVIOUS
<1>2. ASSUME NEW p \in Requests, Abort(p) PROVE RowInv'
  BY <1>1, <1>2, SameRows, RowRests DEF Abort
<1>3. ASSUME NEW s \in Shops, softDeleteShop(s) PROVE RowInv'
  <2>1. /\ shops' = [shops EXCEPT ![s] = "deleted"] /\ tokens' = tokens /\ req' = req
    BY <1>3 DEF softDeleteShop
  <2>2. ShopsStay
    BY <1>1, <2>1, Parts DEF RowInv, ShopsStay, ShopsOK
  <2>3. \A p \in Requests : RowOK(req[p], shops')
    BY <1>1, <2>2, RowStays
  <2>q. QED  BY <2>1, <2>2, <2>3 DEF RowInv, ShopsStay, RowOK
<1>4. CASE UNCHANGED vars
  BY <1>1, <1>4 DEF RowInv, RowOK, vars
<1>q. QED
  BY <1>1, <1>2, <1>3, <1>4, CallbackRows, AdmissionRows, RefreshRows, BackfillRows,
     StatusRows DEF Next

------------------------------------------------------------------------------
(* What a request that adds shops still knows                               *)

Counted == Live \ exempt

\* q has had no company, C are the shops that count and T the token rows: what
\* it counted is not too little, and where it saw no token row there is none.
AdmitOK(q, C, T) ==
  ~q.raced =>
    /\ q.pc \in Callback \ {"count"} => Cardinality(C) <= q.count
    /\ q.pc = "insert" /\ ~q.free => q.count + q.added < Limit
    /\ q.pc \in {"create", "importInsert"} => Cardinality(C) < Limit
    /\ q.pc = "tokWrite" /\ q.tok = 0 => T[q.at] = <<>>

\* Two requests at work at the same time both know it.
RaceOK ==
  \A a, b \in Admitters :
    a # b /\ req[a].pc # "idle" /\ req[b].pc # "idle" => req[a].raced /\ req[b].raced

AInv ==
  /\ LimitHolds
  /\ RaceOK
  /\ \A a \in Admitters : AdmitOK(req[a], Counted, tokens)

\* What others do leaves no more shops that count and gives no first token row.
Calm ==
  /\ Counted' \subseteq Counted
  /\ \A s \in Shops : tokens[s] = <<>> => tokens'[s] = <<>>

LEMMA CountsLess ==
  ASSUME NEW D, D \subseteq Shops, NEW C, C \subseteq D
  PROVE  /\ Cardinality(C) \in Nat /\ Cardinality(D) \in Nat
         /\ Cardinality(C) <= Cardinality(D)
<1>1. IsFiniteSet(D)
  BY FS_Subset
<1>q. QED  BY <1>1, FS_Subset, FS_CardinalityType

LEMMA CountedIsLive ==
  /\ Counted \subseteq Shops /\ Cardinality(Counted) \in Nat /\ Cardinality(Live) \in Nat
  /\ Cardinality(Counted) <= Cardinality(Live)
BY CountsLess DEF Counted, Live

LEMMA AdmitStays ==
  ASSUME NEW q \in ReqType, NEW D, D \subseteq Shops, NEW C, C \subseteq D,
         NEW T, NEW U, T[q.at] = <<>> => U[q.at] = <<>>,
         AdmitOK(q, D, T)
  PROVE  AdmitOK(q, C, U)
<1>1. /\ Cardinality(C) \in Nat /\ Cardinality(D) \in Nat
      /\ Cardinality(C) <= Cardinality(D)
  BY CountsLess
<1>q. QED  BY <1>1 DEF AdmitOK, ReqType

LEMMA LimitStays ==
  ASSUME LimitHolds, Counted' \subseteq Counted
  PROVE  LimitHolds'
<1>1. /\ Cardinality(Counted') \in Nat /\ Cardinality(Counted) \in Nat
      /\ Cardinality(Counted') <= Cardinality(Counted)
  BY CountedIsLive, CountsLess
<1>q. QED  BY <1>1 DEF LimitHolds, Counted

LEMMA OthersStay ==
  ASSUME IInv, AInv, Calm, NEW a \in Admitters
  PROVE  AdmitOK(req[a], Counted', tokens')
<1>1. req[a] \in ReqType /\ ReqOK(req[a], tokens, issued)
  BY Parts DEF Requests
<1>2. AdmitOK(req[a], Counted, tokens)
  BY DEF AInv
<1>3. CASE req[a].pc = "tokWrite"
  BY <1>1, <1>2, <1>3, CountedIsLive, AdmitStays DEF Calm, ReqOK
<1>4. CASE req[a].pc # "tokWrite"
  <2>1. AdmitOK(req[a], Counted', tokens)
    BY <1>1, <1>2, CountedIsLive, AdmitStays DEF Calm
  <2>q. QED  BY <1>4, <2>1 DEF AdmitOK
<1>q. QED  BY <1>3, <1>4

\* A step of a request that adds no shop.
LEMMA CalmMoves ==
  ASSUME IInv, AInv, Calm, \A a \in Admitters : req'[a] = req[a]
  PROVE  AInv'
<1>1. LimitHolds'
  BY LimitStays DEF AInv, Calm
<1>2. RaceOK'
  BY DEF AInv, RaceOK
<1>3. \A a \in Admitters : AdmitOK(req'[a], Counted', tokens')
  BY OthersStay
<1>q. QED  BY <1>1, <1>2, <1>3 DEF AInv, AdmitOK, Counted, Live

\* A step of a request that is adding shops.
LEMMA AdmitMoves ==
  ASSUME IInv, AInv, Calm, NEW a \in Admitters, NEW q \in ReqType,
         req' = [req EXCEPT ![a] = q],
         q.pc # "idle" => req[a].pc # "idle" /\ q.raced = req[a].raced,
         AdmitOK(q, Counted, tokens')
  PROVE  AInv'
<1>1. LimitHolds'
  BY LimitStays DEF AInv, Calm
<1>2. req \in [Requests -> ReqType] /\ a \in Requests
  BY Parts DEF Requests
<1>3. RaceOK'
  BY <1>2 DEF AInv, RaceOK, Requests
<1>4. AdmitOK(q, Counted', tokens')
  BY CountedIsLive, AdmitStays DEF Calm
<1>5. \A b \in Admitters : AdmitOK(req'[b], Counted', tokens')
  BY <1>2, <1>4, OthersStay DEF Requests
<1>q. QED  BY <1>1, <1>3, <1>5 DEF AInv, AdmitOK, Counted, Live

LEMMA AdmitRests ==
  ASSUME IInv, AInv, Calm, NEW p \in Requests, Rest(p)
  PROVE  AInv'
<1>1. CASE p \in Admitters
  <2>1. AdmitOK(Idle, Counted, tokens') /\ Idle.pc = "idle"
    BY DEF AdmitOK, Idle
  <2>q. QED  BY <1>1, <2>1, IdleType, AdmitMoves DEF Rest
<1>2. CASE p \notin Admitters
  BY <1>2, Parts, CalmMoves DEF Rest
<1>q. QED  BY <1>1, <1>2

\* A request begins: those at work take note, and it of them.
LEMMA AdmitBegins ==
  ASSUME IInv, AInv, Calm, NEW a \in Admitters, NEW q \in ReqType,
         req[a].pc = "idle", Begin(a, q),
         AdmitOK([q EXCEPT !.raced = FALSE], Counted, tokens')
  PROVE  AInv'
<1>1. LimitHolds'
  BY LimitStays DEF AInv, Calm
<1>2. DEFINE start == [q EXCEPT !.raced = Others(a) # {}]
<1>3. /\ req'[a] = start
      /\ \A b \in Others(a) : req'[b] = [req[b] EXCEPT !.raced = TRUE]
      /\ \A b \in Admitters \ {a} : b \notin Others(a) => req'[b] = req[b] /\ req[b].pc = "idle"
  BY DEF Begin, Others, Requests
<1>4. /\ start \in ReqType /\ start.raced = (Others(a) # {})
      /\ \A b \in Others(a) : /\ [req[b] EXCEPT !.raced = TRUE] \in ReqType
                              /\ [req[b] EXCEPT !.raced = TRUE].raced
                              /\ [req[b] EXCEPT !.raced = TRUE].pc = req[b].pc
  <2>1. (Others(a) # {}) \in BOOLEAN
    OBVIOUS
  <2>2. \A b \in Others(a) : req[b] \in ReqType
    BY Parts DEF Others, Requests
  <2>q. QED  BY <2>1, <2>2 DEF ReqType
<1>5. RaceOK'
  <2>1. ASSUME NEW b \in Admitters, NEW c \in Admitters, b # c,
               req'[b].pc # "idle", req'[c].pc # "idle"
        PROVE  req'[b].raced
    <3>1. CASE b = a
      <4>1. c \in Others(a)
        BY <1>3, <2>1, <3>1
      <4>q. QED  BY <1>3, <1>4, <3>1, <4>1
    <3>2. CASE b # a
      <4>1. b \in Others(a)
        BY <1>3, <2>1, <3>2
      <4>q. QED  BY <1>3, <1>4, <4>1
    <3>q. QED  BY <3>1, <3>2
  <2>q. QED  BY <2>1 DEF RaceOK
<1>6. AdmitOK(start, Counted', tokens')
  <2>1. CASE Others(a) = {}
    <3>1. start = [q EXCEPT !.raced = FALSE]
      BY <2>1
    <3>2. start \in ReqType /\ AdmitOK(start, Counted, tokens')
      BY <1>4, <3>1
    <3> HIDE DEF start
    <3>q. QED  BY <3>2, CountedIsLive, AdmitStays DEF Calm
  <2>2. CASE Others(a) # {}
    BY <1>4, <2>2 DEF AdmitOK
  <2>q. QED  BY <2>1, <2>2
<1>7. ASSUME NEW b \in Admitters PROVE AdmitOK(req'[b], Counted', tokens')
  <2>1. CASE b = a
    BY <1>3, <1>6, <2>1
  <2>2. CASE b \in Others(a)
    BY <1>3, <1>4, <2>2 DEF AdmitOK
  <2>3. CASE b # a /\ b \notin Others(a)
    BY <1>3, <2>3, OthersStay
  <2>q. QED  BY <2>1, <2>2, <2>3
<1>q. QED  BY <1>1, <1>5, <1>7 DEF AInv, AdmitOK, Counted, Live

\* INSERT INTO shops: what a counted shop adds, the request had room for.
LEMMA AdmitInserts ==
  ASSUME IInv, AInv, UNCHANGED <<tokens, issued>>, NEW a \in Admitters,
         NEW next \in ReqType, InsertRow(a, next), req[a].at \in Shops,
         req[a].pc # "idle", next.raced = req[a].raced \/ next.pc = "idle",
         req[a].pc \in {"insert", "create", "importInsert"},
         req[a].pc = "insert" => next.pc = "tokFind" /\ next.count = req[a].count + 1,
         req[a].pc # "insert" => next.pc \in {"idle", "importFind"}
  PROVE  AInv'
<1> DEFINE s == req[a].at
<1>0. /\ a \in Requests /\ req[a] \in ReqType /\ req \in [Requests -> ReqType]
      /\ ShopsOK /\ AdmitOK(req[a], Counted, tokens)
      /\ Counted \subseteq Shops /\ Cardinality(Counted) \in Nat
  BY Parts, CountedIsLive DEF Requests, AInv
<1>1. CASE shops[s] # "none"
  <2>1. Rest(a) /\ UNCHANGED <<shops, exempt>>
    BY <1>1 DEF InsertRow
  <2>2. Calm
    BY <2>1 DEF Calm, Counted, Live
  <2>q. QED  BY <1>0, <2>1, <2>2, AdmitRests
<1>2. CASE shops[s] = "none" /\ (req[a].free \/ req[a].raced)
  <2>1. /\ shops' = [shops EXCEPT ![s] = "active"] /\ exempt' = exempt \cup {s}
        /\ req' = [req EXCEPT ![a] = next]
    BY <1>2 DEF InsertRow
  <2>2. Calm
    BY <1>0, <2>1 DEF Calm, Counted, Live, ShopsOK
  <2>3. AdmitOK(next, Counted, tokens')
    BY <1>0 DEF AdmitOK, ReqType
  <2>q. QED  BY <2>1, <2>2, <2>3, AdmitMoves
<1>3. CASE shops[s] = "none" /\ ~req[a].free /\ ~req[a].raced
  <2>1. /\ shops' = [shops EXCEPT ![s] = "active"] /\ exempt' = exempt
        /\ req' = [req EXCEPT ![a] = next]
    BY <1>3 DEF InsertRow
  <2>2. Counted' = Counted \cup {s} /\ s \notin Counted
    BY <1>0, <1>3, <2>1 DEF Counted, Live, ShopsOK
  <2>3. Cardinality(Counted') = Cardinality(Counted) + 1
    <3>1. IsFiniteSet(Counted)
      BY <1>0, FS_Subset
    <3>q. QED  BY <2>2, <3>1, FS_AddElement
  <2>4. Cardinality(Counted) < Limit
    <3>1. CASE req[a].pc = "insert"
      <4>1. /\ Cardinality(Counted) <= req[a].count
            /\ req[a].count + req[a].added < Limit
        BY <1>0, <1>3, <3>1 DEF AdmitOK
      <4>2. req[a].count \in Nat /\ req[a].added \in Nat
        BY <1>0 DEF ReqType
      <4>q. QED  BY <1>0, <4>1, <4>2
    <3>2. CASE req[a].pc # "insert"
      BY <1>0, <1>3, <3>2 DEF AdmitOK
    <3>q. QED  BY <3>1, <3>2
  <2>5. LimitHolds'
    BY <1>0, <2>3, <2>4 DEF LimitHolds, Counted
  <2>6. AdmitOK(next, Counted', tokens')
    <3>1. CASE req[a].pc = "insert"
      <4>1. Cardinality(Counted) <= req[a].count /\ req[a].count \in Nat
        BY <1>0, <1>3, <3>1 DEF AdmitOK, ReqType
      <4>q. QED  BY <1>0, <2>3, <3>1, <4>1 DEF AdmitOK
    <3>2. CASE req[a].pc # "insert"
      BY <3>2 DEF AdmitOK
    <3>q. QED  BY <3>1, <3>2
  <2>7. \A b \in Admitters \ {a} : req'[b] = req[b] /\ req[b].pc = "idle"
    BY <1>0, <1>3, <2>1 DEF AInv, RaceOK, Requests
  <2>8. RaceOK'
    BY <2>7 DEF RaceOK
  <2>9. \A b \in Admitters : AdmitOK(req'[b], Counted', tokens')
    BY <1>0, <2>1, <2>6, <2>7 DEF AdmitOK
  <2>q. QED  BY <2>5, <2>8, <2>9 DEF AInv, AdmitOK, Counted, Live
<1>q. QED  BY <1>1, <1>2, <1>3

LEMMA SameIsCalm ==
  ASSUME UNCHANGED <<shops, exempt, tokens>>
  PROVE  Calm
BY DEF Calm, Counted, Live

LEMMA AdmitOnlyMoves ==
  ASSUME IInv, AInv, UNCHANGED <<shops, exempt, tokens>>, NEW a \in Admitters,
         NEW q \in ReqType, req' = [req EXCEPT ![a] = q],
         q.pc # "idle" => req[a].pc # "idle" /\ q.raced = req[a].raced,
         AdmitOK(q, Counted, tokens)
  PROVE  AInv'
BY SameIsCalm, AdmitMoves

LEMMA StatusIsCalm ==
  ASSUME IInv, UNCHANGED tokens, NEW s \in Shops, shops[s] # "none",
         NEW status \in {"active", "disabled"}, SetStatus(s, status)
  PROVE  Calm
BY Parts DEF SetStatus, Calm, Counted, Live, ShopsOK

\* An UPDATE of tokens finds the row it updates.
LEMMA UpdateIsCalm ==
  ASSUME IInv, UNCHANGED <<shops, exempt>>, NEW s \in Shops, NEW i, NEW row,
         tokens[s] # <<>>, UpdateTokens(s, i, row)
  PROVE  Calm
<1>1. \A z \in Shops : z # s => tokens'[z] = tokens[z]
  BY Parts DEF TokensOK, UpdateTokens
<1>q. QED  BY <1>1 DEF Calm, Counted, Live

LEMMA CallbackAdmits ==
  ASSUME IInv, RowInv, AInv, NEW a \in Admitters, CallbackStep(a)
  PROVE  AInv'
<1>0. /\ a \in Requests /\ req[a] \in ReqType /\ ReqOK(req[a], tokens, issued)
      /\ req \in [Requests -> ReqType] /\ RowOK(req[a], shops)
      /\ AdmitOK(req[a], Counted, tokens)
      /\ Cardinality(Counted) \in Nat /\ Cardinality(Live) \in Nat
      /\ Cardinality(Counted) <= Cardinality(Live)
  BY Parts, CountedIsLive DEF Requests, RowInv, AInv
<1>1. CASE handleCallbackByCode(a)
  <2>1. PICK B \in SUBSET Shops, unlimited \in BOOLEAN :
          Begin(a, [Idle EXCEPT
            !.pc = "count", !.batch = B, !.free = unlimited,
            !.row = [access |-> Len(issued) + 1, refresh |-> Len(issued) + 1,
                     cipher |-> TRUE]])
    BY <1>1 DEF handleCallbackByCode
  <2>2. DEFINE pair == [access |-> Len(issued) + 1, refresh |-> Len(issued) + 1,
                        cipher |-> TRUE]
               q == [Idle EXCEPT !.pc = "count", !.batch = B, !.free = unlimited,
                                 !.row = pair]
  <2>3. pair \in TokenRows
    BY <1>1 DEF handleCallbackByCode, TokenRows, IInv, TypeOK
  <2>4. q \in ReqType
    BY <2>3, IdleType DEF ReqType
  <2>5. AdmitOK([q EXCEPT !.raced = FALSE], Counted, tokens')
    BY DEF AdmitOK, Idle
  <2>6. req[a].pc = "idle" /\ Calm
    BY <1>1, SameIsCalm DEF handleCallbackByCode
  <2>q. QED  BY <2>1, <2>4, <2>5, <2>6, AdmitBegins
<1>2. CASE countShopsForTenant(a)
  <2>1. DEFINE q == [req[a] EXCEPT !.pc = "find", !.count = Cardinality(Live)]
  <2>2. q \in ReqType /\ q.raced = req[a].raced /\ AdmitOK(q, Counted, tokens)
    BY <1>0 DEF AdmitOK, ReqType
  <2>q. QED  BY <1>0, <1>2, <2>2, AdmitOnlyMoves DEF countShopsForTenant
<1>3. ASSUME NEW s \in Shops, FindShop(a, s) PROVE AInv'
  <2>1. DEFINE taken == [req[a] EXCEPT !.batch = @ \ {s}]
               up == [taken EXCEPT !.pc = "update", !.at = s]
               ins == [taken EXCEPT !.pc = "insert", !.at = s]
  <2>2. /\ taken \in ReqType /\ up \in ReqType /\ ins \in ReqType
        /\ taken.raced = req[a].raced /\ up.raced = req[a].raced
        /\ ins.raced = req[a].raced
    BY <1>0 DEF ReqType
  <2>3. /\ AdmitOK(taken, Counted, tokens) /\ AdmitOK(up, Counted, tokens)
        /\ ~LimitReached(a) => AdmitOK(ins, Counted, tokens)
    <3>1. AdmitOK(taken, Counted, tokens) /\ AdmitOK(up, Counted, tokens)
      BY <1>0, <1>3 DEF AdmitOK, ReqType, FindShop
    <3>2. ASSUME ~LimitReached(a) PROVE AdmitOK(ins, Counted, tokens)
      <4>1. req[a].free \/ req[a].count + req[a].added < Limit
        BY <1>0, <3>2 DEF LimitReached, ReqType
      <4>q. QED  BY <1>0, <1>3, <4>1 DEF AdmitOK, ReqType, FindShop
    <3>q. QED  BY <3>1, <3>2
  <2>4. \/ req' = [req EXCEPT ![a] = taken]
        \/ req' = [req EXCEPT ![a] = up]
        \/ req' = [req EXCEPT ![a] = ins] /\ ~LimitReached(a)
    BY <1>3 DEF FindShop
  <2>5. UNCHANGED <<shops, exempt, tokens>> /\ req[a].pc # "idle"
    BY <1>3 DEF FindShop
  <2> HIDE DEF taken, up, ins
  <2>q. QED  BY <2>2, <2>3, <2>4, <2>5, AdmitOnlyMoves
<1>4. CASE UpdateShop(a)
  <2>1. DEFINE q == [req[a] EXCEPT !.pc = "tokFind"]
  <2>2. req[a].at \in Shops /\ shops[req[a].at] # "none" /\ UNCHANGED tokens
    BY <1>0, <1>4 DEF ReqOK, RowOK, UpdateShop
  <2>3. Calm
    BY <1>4, <2>2, StatusIsCalm DEF UpdateShop
  <2>4. q \in ReqType /\ q.raced = req[a].raced /\ AdmitOK(q, Counted, tokens')
    BY <1>0, <1>4 DEF AdmitOK, ReqType, UpdateShop
  <2>q. QED  BY <1>4, <2>3, <2>4, AdmitMoves DEF UpdateShop
<1>5. CASE InsertShop(a)
  <2>1. DEFINE q == [req[a] EXCEPT !.pc = "tokFind", !.count = @ + 1, !.added = @ + 1]
  <2>2. req[a].count + 1 \in Nat /\ req[a].added + 1 \in Nat
    BY <1>0 DEF ReqType
  <2>3. /\ q \in ReqType /\ q.pc = "tokFind" /\ q.raced = req[a].raced
        /\ q.count = req[a].count + 1
    BY <1>0, <2>2 DEF ReqType
  <2>4. req[a].at \in Shops
    BY <1>0, <1>5 DEF ReqOK, InsertShop
  <2>q. QED  BY <1>5, <2>3, <2>4, AdmitInserts DEF InsertShop
<1>6. CASE FindToken(a)
  <2>1. DEFINE q == [req[a] EXCEPT !.pc = "tokWrite", !.tok = Len(tokens[req[a].at])]
  <2>2. req[a].at \in Shops
    BY <1>0, <1>6 DEF ReqOK, FindToken
  <2>3. tokens[req[a].at] \in Seq(TokenRows)
    BY <2>2 DEF IInv, TypeOK
  <2>4. /\ Len(tokens[req[a].at]) \in Nat
        /\ Len(tokens[req[a].at]) = 0 => tokens[req[a].at] = <<>>
    BY <2>3
  <2>5. /\ q \in ReqType /\ q.raced = req[a].raced /\ q.at = req[a].at
        /\ q.tok = Len(tokens[req[a].at]) /\ q.pc = "tokWrite" /\ q.count = req[a].count
    BY <1>0, <2>4 DEF ReqType
  <2> HIDE DEF q
  <2>6. AdmitOK(q, Counted, tokens)
    BY <1>0, <1>6, <2>4, <2>5 DEF AdmitOK, FindToken
  <2>q. QED  BY <1>6, <2>5, <2>6, AdmitOnlyMoves DEF FindToken, q
<1>7. CASE upsertShopAuthToken(a)
  <2>1. DEFINE q == [req[a] EXCEPT !.pc = "find", !.at = NoShop, !.tok = 0]
               s == req[a].at
  <2>2. /\ q \in ReqType /\ q.raced = req[a].raced /\ q.pc = "find"
        /\ q.count = req[a].count
    BY <1>0 DEF ReqType
  <2>3. /\ s \in Shops /\ req[a].pc # "idle" /\ UNCHANGED <<shops, exempt>>
        /\ req' = [req EXCEPT ![a] = q]
    BY <1>0, <1>7 DEF ReqOK, upsertShopAuthToken
  <2> HIDE DEF q
  <2>4. Counted' = Counted
    BY <2>3 DEF Counted, Live
  <2>5. AdmitOK(q, Counted, tokens')
    BY <1>0, <1>7, <2>2 DEF AdmitOK, upsertShopAuthToken
  <2>6. CASE req[a].tok # 0
    <3>1. UpdateTokens(s, req[a].tok, req[a].row)
      BY <1>7, <2>6 DEF upsertShopAuthToken
    <3>2. tokens[s] # <<>>
      <4>1. req[a].tok \in 0..Len(tokens[s])
        BY <1>0, <1>7 DEF ReqOK, upsertShopAuthToken
      <4>q. QED  BY <2>6, <4>1
    <3>3. Calm
      BY <2>3, <3>1, <3>2, UpdateIsCalm
    <3>q. QED  BY <2>2, <2>3, <2>5, <3>3, AdmitMoves
  <2>7. CASE req[a].tok = 0
    \* The one step that gives a shop its first row: a request without company
    \* disturbs nobody, and those with company have nothing to lose.
    <3>1. LimitHolds'
      BY <2>4, LimitStays DEF AInv
    <3>2. RaceOK'
      BY <1>0, <2>2, <2>3 DEF AInv, RaceOK, Requests
    <3>3. ASSUME NEW b \in Admitters PROVE AdmitOK(req'[b], Counted, tokens')
      <4>1. CASE b = a
        BY <1>0, <2>3, <2>5, <4>1
      <4>2. CASE b # a
        <5>1. req'[b] = req[b] /\ AdmitOK(req[b], Counted, tokens)
          BY <1>0, <2>3, <4>2 DEF AInv, Requests
        <5>2. req[b].pc # "idle" => req[b].raced
          BY <2>3, <4>2 DEF AInv, RaceOK
        <5>q. QED  BY <5>1, <5>2 DEF AdmitOK
      <4>q. QED  BY <4>1, <4>2
    <3>q. QED  BY <2>4, <3>1, <3>2, <3>3 DEF AInv, AdmitOK, Counted, Live
  <2>q. QED  BY <2>6, <2>7
<1>8. CASE BatchEnds(a)
  BY <1>0, <1>8, SameIsCalm, AdmitRests DEF BatchEnds
<1>q. QED  BY <1>1, <1>2, <1>3, <1>4, <1>5, <1>6, <1>7, <1>8 DEF CallbackStep

LEMMA AdmissionAdmits ==
  ASSUME IInv, RowInv, AInv, NEW a \in Admitters, AdmissionStep(a)
  PROVE  AInv'
<1>0. /\ a \in Requests /\ req[a] \in ReqType /\ ReqOK(req[a], tokens, issued)
      /\ req \in [Requests -> ReqType] /\ AdmitOK(req[a], Counted, tokens)
      /\ Cardinality(Counted) \in Nat /\ Cardinality(Live) \in Nat
      /\ Cardinality(Counted) <= Cardinality(Live)
  BY Parts, CountedIsLive DEF Requests, AInv
<1>1. ASSUME NEW s \in Shops, assertShopLimit(a, s) PROVE AInv'
  <2>1. DEFINE q == [Idle EXCEPT !.pc = "create", !.at = s]
  <2>2. Cardinality(Live) < Limit /\ req[a].pc = "idle" /\ Begin(a, q) /\ Calm
    BY <1>1, SameIsCalm DEF assertShopLimit
  <2>3. q \in ReqType
    BY IdleType DEF ReqType
  <2>4. Cardinality(Counted) < Limit
    BY <1>0, <2>2
  <2>5. [q EXCEPT !.raced = FALSE].pc = "create"
    BY DEF Idle
  <2>6. AdmitOK([q EXCEPT !.raced = FALSE], Counted, tokens')
    BY <2>4, <2>5 DEF AdmitOK
  <2>q. QED  BY <2>2, <2>3, <2>6, AdmitBegins
<1>2. ASSUME NEW s \in Shops, ImportFind(a, s) PROVE AInv'
  <2>1. DEFINE rest == [req[a] EXCEPT !.batch = @ \ {s}]
               next == [rest EXCEPT !.pc = "importCount", !.at = s]
  <2>2. /\ rest \in ReqType /\ next \in ReqType
        /\ rest.raced = req[a].raced /\ next.raced = req[a].raced
    BY <1>0 DEF ReqType
  <2>3. AdmitOK(rest, Counted, tokens) /\ AdmitOK(next, Counted, tokens)
    BY <1>0, <1>2 DEF AdmitOK, ReqType, ImportFind
  <2>4. /\ req' = [req EXCEPT ![a] = rest] \/ req' = [req EXCEPT ![a] = next]
        /\ UNCHANGED <<shops, exempt, tokens>> /\ req[a].pc # "idle"
    BY <1>2 DEF ImportFind
  <2> HIDE DEF rest, next
  <2>q. QED  BY <2>2, <2>3, <2>4, AdmitOnlyMoves
<1>3. CASE createShop(a)
  <2>1. req[a].at \in Shops /\ Idle.pc = "idle"
    BY <1>0, <1>3 DEF ReqOK, createShop, Idle
  <2>q. QED  BY <1>3, <2>1, IdleType, AdmitInserts DEF createShop
<1>4. CASE importFromCache(a)
  <2>1. PICK B \in SUBSET Shops :
          Begin(a, [Idle EXCEPT !.pc = "importFind", !.batch = B])
    BY <1>4 DEF importFromCache
  <2>2. DEFINE q == [Idle EXCEPT !.pc = "importFind", !.batch = B]
  <2>3. q \in ReqType /\ AdmitOK([q EXCEPT !.raced = FALSE], Counted, tokens')
    BY IdleType DEF ReqType, AdmitOK, Idle
  <2>4. req[a].pc = "idle" /\ Calm
    BY <1>4, SameIsCalm DEF importFromCache
  <2>q. QED  BY <2>1, <2>3, <2>4, AdmitBegins
<1>5. CASE ImportCount(a)
  <2>1. DEFINE q1 == [req[a] EXCEPT !.pc = "importInsert"]
               q2 == [req[a] EXCEPT !.pc = "importFind", !.at = NoShop]
  <2>2. /\ q1 \in ReqType /\ q2 \in ReqType
        /\ q1.raced = req[a].raced /\ q2.raced = req[a].raced
    BY <1>0 DEF ReqType
  <2>3. /\ Cardinality(Live) < Limit => AdmitOK(q1, Counted, tokens)
        /\ AdmitOK(q2, Counted, tokens)
    BY <1>0 DEF AdmitOK, ReqType
  <2>4. /\ \/ req' = [req EXCEPT ![a] = q1] /\ Cardinality(Live) < Limit
           \/ req' = [req EXCEPT ![a] = q2]
        /\ UNCHANGED <<shops, exempt, tokens>> /\ req[a].pc # "idle"
    BY <1>5 DEF ImportCount
  <2> HIDE DEF q1, q2
  <2>q. QED  BY <2>2, <2>3, <2>4, AdmitOnlyMoves
<1>6. CASE ImportInsert(a)
  <2>1. DEFINE q == [req[a] EXCEPT !.pc = "importFind", !.at = NoShop]
  <2>2. q \in ReqType /\ q.pc = "importFind" /\ q.raced = req[a].raced
    BY <1>0 DEF ReqType
  <2>3. req[a].at \in Shops
    BY <1>0, <1>6 DEF ReqOK, ImportInsert
  <2>q. QED  BY <1>6, <2>2, <2>3, AdmitInserts DEF ImportInsert
<1>q. QED  BY <1>1, <1>2, <1>3, <1>4, <1>5, <1>6 DEF AdmissionStep

\* What is not at work to add shops leaves every request that is as it was.
LEMMA OtherRequests ==
  ASSUME NEW p \in Requests \ Admitters, NEW q, req' = [req EXCEPT ![p] = q]
  PROVE  \A a \in Admitters : req'[a] = req[a]
OBVIOUS

LEMMA RefreshAdmits ==
  ASSUME IInv, RowInv, AInv, NEW r \in Refreshers, RefreshStep(r)
  PROVE  AInv'
<1>0. r \in Requests \ Admitters /\ ReqOK(req[r], tokens, issued)
  BY Parts DEF Requests
<1>1. \A a \in Admitters : req'[a] = req[a]
  BY <1>0, OtherRequests
     DEF RefreshStep, LoadShop, refreshShopAccessToken, ReadRawAuth,
         persistRefreshedTokenToMysql, Rest
<1>2. CASE persistRefreshedTokenToMysql(r)
  <2>1. req[r].at \in Shops /\ tokens[req[r].at] # <<>>
    BY <1>0, <1>2 DEF ReqOK, persistRefreshedTokenToMysql
  <2>2. Calm
    BY <1>2, <2>1, UpdateIsCalm DEF persistRefreshedTokenToMysql
  <2>q. QED  BY <1>1, <2>2, CalmMoves
<1>3. CASE ~persistRefreshedTokenToMysql(r)
  <2>1. UNCHANGED <<shops, exempt, tokens>>
    BY <1>3 DEF RefreshStep, LoadShop, refreshShopAccessToken, ReadRawAuth
  <2>q. QED  BY <1>1, <2>1, SameIsCalm, CalmMoves
<1>q. QED  BY <1>2, <1>3

LEMMA BackfillAdmits ==
  ASSUME IInv, RowInv, AInv, NEW b \in Backfillers, BackfillStep(b)
  PROVE  AInv'
<1>0. b \in Requests \ Admitters /\ ReqOK(req[b], tokens, issued) /\ RowOK(req[b], shops)
  BY Parts DEF Requests, RowInv
<1>1. \A a \in Admitters : req'[a] = req[a]
  BY <1>0, OtherRequests
     DEF BackfillStep, listShopsMissingCipher, FindRawAuth, patchShopAuthCipherInMysql,
         ReactivateShop, Rest
<1>2. CASE patchShopAuthCipherInMysql(b)
  <2>1. req[b].at \in Shops /\ tokens[req[b].at] # <<>>
    BY <1>0, <1>2 DEF ReqOK, patchShopAuthCipherInMysql
  <2>2. Calm
    BY <1>2, <2>1, UpdateIsCalm DEF patchShopAuthCipherInMysql
  <2>q. QED  BY <1>1, <2>2, CalmMoves
<1>3. CASE ReactivateShop(b)
  <2>1. /\ shops[req[b].at] # "none" /\ ShopsOK /\ UNCHANGED <<exempt, tokens>>
        /\ shops' = [shops EXCEPT ![req[b].at] = IF @ = "deleted" THEN @ ELSE "active"]
    BY <1>0, <1>3, Parts DEF RowOK, ReactivateShop
  <2>2. Calm
    BY <2>1 DEF Calm, Counted, Live, ShopsOK
  <2>q. QED  BY <1>1, <2>2, CalmMoves
<1>4. CASE ~patchShopAuthCipherInMysql(b) /\ ~ReactivateShop(b)
  <2>1. UNCHANGED <<shops, exempt, tokens>>
    BY <1>4 DEF BackfillStep, listShopsMissingCipher, FindRawAuth
  <2>q. QED  BY <1>1, <2>1, SameIsCalm, CalmMoves
<1>q. QED  BY <1>2, <1>3, <1>4

LEMMA StatusAdmits ==
  ASSUME IInv, RowInv, AInv, NEW e \in Editors, StatusStep(e)
  PROVE  AInv'
<1>0. e \in Requests \ Admitters /\ ReqOK(req[e], tokens, issued) /\ RowOK(req[e], shops)
  BY Parts DEF Requests, RowInv
<1>1. \A a \in Admitters : req'[a] = req[a]
  BY <1>0, OtherRequests DEF StatusStep, FindForStatus, updateShopStatus, Rest
<1>2. CASE updateShopStatus(e)
  <2>1. req[e].at \in Shops /\ shops[req[e].at] # "none" /\ UNCHANGED tokens
    BY <1>0, <1>2 DEF ReqOK, RowOK, updateShopStatus
  <2>2. Calm
    BY <1>2, <2>1, StatusIsCalm DEF updateShopStatus
  <2>q. QED  BY <1>1, <2>2, CalmMoves
<1>3. CASE ~updateShopStatus(e)
  <2>1. UNCHANGED <<shops, exempt, tokens>>
    BY <1>3 DEF StatusStep, FindForStatus
  <2>q. QED  BY <1>1, <2>1, SameIsCalm, CalmMoves
<1>q. QED  BY <1>2, <1>3

LEMMA StepAdmits == IInv /\ RowInv /\ AInv /\ [Next]_vars => AInv'
<1>1. SUFFICES ASSUME IInv, RowInv, AInv, [Next]_vars PROVE AInv'
  OBVIOUS
<1>2. ASSUME NEW p \in Requests, Abort(p) PROVE AInv'
  BY <1>1, <1>2, SameIsCalm, AdmitRests DEF Abort
<1>3. ASSUME NEW s \in Shops, softDeleteShop(s) PROVE AInv'
  <2>1. /\ shops' = [shops EXCEPT ![s] = "deleted"] /\ exempt' = exempt \ {s}
        /\ tokens' = tokens /\ req' = req
    BY <1>3 DEF softDeleteShop
  <2>2. Calm
    BY <1>1, <2>1, Parts DEF Calm, Counted, Live, ShopsOK
  <2>q. QED  BY <1>1, <2>1, <2>2, CalmMoves
<1>4. CASE UNCHANGED vars
  BY <1>1, <1>4, SameIsCalm, CalmMoves DEF vars
<1>q. QED
  BY <1>1, <1>2, <1>3, <1>4, CallbackAdmits, AdmissionAdmits, RefreshAdmits,
     BackfillAdmits, StatusAdmits DEF Next

LEMMA InitAInv == Init => RowInv /\ AInv
<1>1. SUFFICES ASSUME Init PROVE RowInv /\ AInv
  OBVIOUS
<1>2. /\ \A p \in Requests : req[p].pc = "idle"
      /\ \A s \in Shops : shops[s] = "none" /\ tokens[s] = <<>>
  BY <1>1 DEF Init, Idle
<1>3. RowInv
  BY <1>2 DEF RowInv, RowOK
<1>4. LimitHolds
  <2>1. Live \ exempt = {}
    BY <1>2 DEF Live
  <2>q. QED  BY <2>1, FS_EmptySet DEF LimitHolds
<1>5. RaceOK /\ \A a \in Admitters : AdmitOK(req[a], Counted, tokens)
  BY <1>2 DEF RaceOK, AdmitOK, Requests
<1>q. QED  BY <1>3, <1>4, <1>5 DEF AInv

THEOREM Admission == Spec => [](IInv /\ RowInv /\ AInv)
BY InitIInv, InitAInv, StepKeeps, StepRows, StepAdmits, PTL DEF Spec

\* The plan's limit, for any number of requests of every kind, whatever they do
\* to each other and wherever they stop.
THEOREM LimitIsKept == Spec => []LimitHolds
<1>1. AInv => LimitHolds
  BY DEF AInv
<1>q. QED  BY <1>1, Admission, PTL

LEMMA UpdateAddsNoRow ==
  ASSUME IInv, NEW s \in Shops, NEW i \in 1..Len(tokens[s]), NEW row, UpdateTokens(s, i, row)
  PROVE  \A z \in Shops : Len(tokens'[z]) = Len(tokens[z])
<1>1. tokens \in [Shops -> Seq(TokenRows)] /\ tokens[s] \in Seq(TokenRows)
  BY Parts DEF TokensOK
<1>2. Len([tokens[s] EXCEPT ![i] = row]) = Len(tokens[s])
  BY <1>1
<1>q. QED  BY <1>1, <1>2 DEF UpdateTokens

LEMMA InsertAddsOneRow ==
  ASSUME IInv, NEW s \in Shops, NEW row, InsertTokens(s, row)
  PROVE  \A z \in Shops : z # s => tokens'[z] = tokens[z]
BY Parts DEF TokensOK, InsertTokens

SecondRow ==
  \A s \in Shops : tokens[s] # <<>> /\ Len(tokens'[s]) > Len(tokens[s]) =>
    \E a \in Admitters : req[a].at = s /\ req[a].pc = "tokWrite" /\ req[a].raced

LEMMA NoNewRow ==
  ASSUME IInv, \A z \in Shops : Len(tokens'[z]) = Len(tokens[z])
  PROVE  SecondRow
<1>1. \A z \in Shops : Len(tokens[z]) \in Nat
  BY Parts DEF TokensOK
<1>q. QED  BY <1>1 DEF SecondRow

\* Only a callback with company gives a shop a second row of tokens.
THEOREM SecondRowsAreRaced == Spec => SecondRowIsRaced
<1>1. ASSUME IInv, RowInv, AInv, [Next]_vars PROVE SecondRow
  <2>1. ASSUME NEW a \in Admitters, upsertShopAuthToken(a) PROVE SecondRow
    <3>0. /\ req[a].at \in Shops /\ req[a].tok \in 0..Len(tokens[req[a].at])
          /\ req[a].pc = "tokWrite" /\ AdmitOK(req[a], Counted, tokens)
      BY <1>1, <2>1, Parts DEF ReqOK, upsertShopAuthToken, AInv, Requests
    <3>1. CASE req[a].tok # 0
      <4>1. Len(tokens[req[a].at]) \in Nat
        BY <1>1, <3>0, Parts DEF TokensOK
      <4>2. req[a].tok \in 1..Len(tokens[req[a].at])
        BY <3>0, <3>1, <4>1
      <4>3. UpdateTokens(req[a].at, req[a].tok, req[a].row)
        BY <2>1, <3>1 DEF upsertShopAuthToken
      <4>q. QED  BY <1>1, <3>0, <4>2, <4>3, UpdateAddsNoRow, NoNewRow
    <3>2. CASE req[a].tok = 0
      <4>1. InsertTokens(req[a].at, req[a].row)
        BY <2>1, <3>2 DEF upsertShopAuthToken
      <4>2. SUFFICES ASSUME NEW s \in Shops, tokens[s] # <<>>,
                            Len(tokens'[s]) > Len(tokens[s])
                     PROVE  req[a].at = s /\ req[a].raced
        BY <3>0 DEF SecondRow
      <4>3. req[a].at = s
        <5>1. Len(tokens[s]) \in Nat
          BY <1>1, Parts DEF TokensOK
        <5>q. QED  BY <1>1, <3>0, <4>1, <4>2, <5>1, InsertAddsOneRow
      <4>q. QED  BY <3>0, <3>2, <4>2, <4>3 DEF AdmitOK
    <3>q. QED  BY <3>1, <3>2
  <2>2. ASSUME NEW r \in Refreshers, persistRefreshedTokenToMysql(r) PROVE SecondRow
    <3>1. req[r].at \in Shops /\ req[r].tok \in 1..Len(tokens[req[r].at])
      BY <1>1, <2>2, Parts DEF ReqOK, persistRefreshedTokenToMysql, Requests
    <3>q. QED
      BY <1>1, <2>2, <3>1, UpdateAddsNoRow, NoNewRow DEF persistRefreshedTokenToMysql
  <2>3. ASSUME NEW b \in Backfillers, patchShopAuthCipherInMysql(b) PROVE SecondRow
    <3>1. req[b].at \in Shops /\ req[b].tok \in 1..Len(tokens[req[b].at])
      BY <1>1, <2>3, Parts DEF ReqOK, patchShopAuthCipherInMysql, Requests
    <3>q. QED
      BY <1>1, <2>3, <3>1, UpdateAddsNoRow, NoNewRow DEF patchShopAuthCipherInMysql
  <2>4. CASE UNCHANGED tokens
    BY <1>1, <2>4, NoNewRow
  <2>5. \/ \E a \in Admitters : upsertShopAuthToken(a)
        \/ \E r \in Refreshers : persistRefreshedTokenToMysql(r)
        \/ \E b \in Backfillers : patchShopAuthCipherInMysql(b)
        \/ UNCHANGED tokens
    <3>1. ASSUME NEW a \in Admitters, CallbackStep(a), ~upsertShopAuthToken(a)
          PROVE  UNCHANGED tokens
      BY <3>1 DEF CallbackStep, handleCallbackByCode, countShopsForTenant, FindShop,
                  UpdateShop, InsertShop, FindToken, BatchEnds
    <3>2. ASSUME NEW a \in Admitters, AdmissionStep(a) PROVE UNCHANGED tokens
      BY <3>2 DEF AdmissionStep, assertShopLimit, ImportFind, createShop, importFromCache,
                  ImportCount, ImportInsert
    <3>3. ASSUME NEW r \in Refreshers, RefreshStep(r), ~persistRefreshedTokenToMysql(r)
          PROVE  UNCHANGED tokens
      BY <3>3 DEF RefreshStep, LoadShop, refreshShopAccessToken, ReadRawAuth
    <3>4. ASSUME NEW b \in Backfillers, BackfillStep(b), ~patchShopAuthCipherInMysql(b)
          PROVE  UNCHANGED tokens
      BY <3>4 DEF BackfillStep, listShopsMissingCipher, FindRawAuth, ReactivateShop
    <3>5. ASSUME NEW e \in Editors, StatusStep(e) PROVE UNCHANGED tokens
      BY <3>5 DEF StatusStep, FindForStatus, updateShopStatus
    <3>q. QED
      BY <1>1, <3>1, <3>2, <3>3, <3>4, <3>5 DEF Next, softDeleteShop, Abort, vars
  <2>q. QED  BY <2>1, <2>2, <2>3, <2>4, <2>5
<1>2. IInv /\ RowInv /\ AInv /\ [Next]_vars
        => [\A s \in Shops : tokens[s] # <<>> /\ Len(tokens'[s]) > Len(tokens[s]) =>
              \E a \in Admitters : req[a].at = s /\ req[a].pc = "tokWrite" /\ req[a].raced]_vars
  BY <1>1 DEF SecondRow
<1>q. QED  BY <1>2, Admission, PTL DEF Spec, SecondRowIsRaced

==============================================================================
