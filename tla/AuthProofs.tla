----------------------------- MODULE AuthProofs -----------------------------
(***************************************************************************)
(* For any number of requests, tokens, addresses and attempts:             *)
(* registration tokens and verified addresses are spent within their       *)
(* limits, and the attempts that count against a key stay within its       *)
(* allowance.                                                              *)
(***************************************************************************)
EXTENDS Registration, TLAPS

\* How long the two provers may take over a leaf.
USE SMTT(30), ZenonT(30)

-----------------------------------------------------------------------------
(* Registration tokens and verified addresses.                             *)

TokenType == [uses : Nat, max : Nat, old : BOOLEAN]
PendingType == [valid : BOOLEAN, attempts : Nat, use : Uiaa \cup {"available", "spent"},
                stale : BOOLEAN]

\* A row's uses are the ones granted, within the largest limit it has had.
TokensInv ==
    /\ rtokens \in [RTokens -> TokenType \cup {NoRow}]
    /\ granted \in [RTokens -> Nat] /\ allowed \in [RTokens -> Nat]
    /\ \A t \in RTokens :
         /\ granted[t] <= allowed[t]
         /\ rtokens[t] # NoRow => rtokens[t].uses = granted[t] /\ rtokens[t].max <= allowed[t]

\* An association has been handed out only for a row that says so, or none.
AddressesInv ==
    /\ pending \in [Sids -> PendingType \cup {NoRow}] /\ claims \in [Uiaa -> Sids \cup {NoRow}]
    /\ spent \in [Sids -> Nat]
    /\ \A sid \in Sids :
         /\ spent[sid] <= 1
         /\ pending[sid] # NoRow /\ pending[sid].use # "spent" => spent[sid] = 0

\* What a request in flight carries.
Stages == {"token", "email", "poll"}
SessionJob == [at : {"stage", "lookup", "find", "refresh", "redeem", "settle"}, sess : Uiaa,
               stage : Stages, with : RTokens \cup Sids \cup {NoRow}, done : SUBSET Stages]
OtherJob == {Quiet} \cup [at : {"clean"}, token : RTokens]
            \cup [at : {"drop"}, user : RUsers, with : Sids, sess : Uiaa]
            \cup [at : {"bind", "put"}, user : RUsers, with : Sids]

RequestsInv ==
    /\ uiaa \in [Uiaa -> (SUBSET Stages) \cup {NoRow}]
    /\ reg \in [RegRequests -> SessionJob \cup OtherJob]
    /\ \A r \in RegRequests :
         /\ reg[r].at = "stage" /\ reg[r].stage = "token" => reg[r].with \in RTokens
         /\ reg[r].at = "stage" /\ reg[r].stage = "email" => reg[r].with \in Sids
         /\ reg[r].at \in {"refresh", "redeem"} => reg[r].with \in Sids

RegInv == TokensInv /\ AddressesInv /\ RequestsInv

LEMMA RegStart == RegInit => RegInv
<1> SUFFICES ASSUME RegInit PROVE RegInv
  BY Zenon
<1>1. TokensInv
  <2>1. [uses |-> 0, max |-> MaxUses, old |-> FALSE] \in TokenType
    BY RegAssumption, Zenon DEF TokenType
  <2>2. CASE rtokens = [t \in RTokens |-> NoRow]
    BY <2>2, RegAssumption DEF RegInit, TokensInv
  <2>3. CASE rtokens = [t \in RTokens |-> [uses |-> 0, max |-> MaxUses, old |-> FALSE]]
    BY <2>1, <2>3, RegAssumption DEF RegInit, TokensInv, TokenType
  <2> QED
    BY <2>2, <2>3, Zenon DEF RegInit
<1>2. AddressesInv
  BY DEF RegInit, AddressesInv
<1>3. RequestsInv
  <2>1. Quiet \in OtherJob /\ Quiet.at = "idle"
    BY Zenon DEF Quiet, OtherJob
  <2>2. uiaa \in [Uiaa -> (SUBSET Stages) \cup {NoRow}]
    BY Zenon DEF RegInit
  <2>3. reg = [r \in RegRequests |-> Quiet]
    BY Zenon DEF RegInit
  <2> HIDE DEF Quiet
  <2>4. reg \in [RegRequests -> SessionJob \cup OtherJob]
    BY <2>1, <2>3, Zenon
  <2>5. \A r \in RegRequests : reg[r].at = "idle"
    BY <2>1, <2>3, Zenon
  <2> QED
    BY <2>2, <2>4, <2>5, Zenon DEF RequestsInv
<1> QED
  BY <1>1, <1>2, <1>3, Zenon DEF RegInv

\* A request whose step carries a session carries a whole one.
LEMMA JobKinds ==
  ASSUME RequestsInv, NEW r \in RegRequests
  PROVE  /\ reg[r].at \in {"stage", "lookup", "find", "refresh", "redeem", "settle"} => reg[r] \in SessionJob
         /\ reg[r].at = "clean" => reg[r].token \in RTokens
         /\ reg[r].at = "drop" => reg[r].sess \in Uiaa /\ reg[r].user \in RUsers /\ reg[r].with \in Sids
         /\ reg[r].at \in {"bind", "put"} => reg[r] \in [at : {"bind", "put"}, user : RUsers, with : Sids]
<1>1. reg[r] \in SessionJob \cup OtherJob
  BY Zenon DEF RequestsInv
<1>2. CASE reg[r] \in SessionJob
  BY <1>2, Zenon DEF SessionJob
<1>3. CASE reg[r] = Quiet
  BY <1>3 DEF Quiet
<1>4. CASE reg[r] \in [at : {"clean"}, token : RTokens]
  BY <1>4, Zenon
<1>5. CASE reg[r] \in [at : {"drop"}, user : RUsers, with : Sids, sess : Uiaa]
  BY <1>5, Zenon
<1>6. CASE reg[r] \in [at : {"bind", "put"}, user : RUsers, with : Sids]
  BY <1>6, Zenon
<1> QED
  BY <1>1, <1>2, <1>3, <1>4, <1>5, <1>6, Zenon DEF OtherJob

\* A request moves on to j.
LEMMA RequestMoves ==
  ASSUME RequestsInv, NEW r \in RegRequests, NEW j \in SessionJob \cup OtherJob, Put(r, j),
         uiaa' \in [Uiaa -> (SUBSET Stages) \cup {NoRow}],
         j.at = "stage" /\ j.stage = "token" => j.with \in RTokens,
         j.at = "stage" /\ j.stage = "email" => j.with \in Sids,
         j.at \in {"refresh", "redeem"} => j.with \in Sids
  PROVE  RequestsInv'
<1>1. reg'[r] = j /\ \A q \in RegRequests \ {r} : reg'[q] = reg[q]
  BY Zenon DEF Put, RequestsInv
<1>2. reg' \in [RegRequests -> SessionJob \cup OtherJob]
  BY Zenon DEF Put, RequestsInv
<1> QED
  BY <1>1, <1>2, Zenon DEF RequestsInv

LEMMA RequestRests ==
  ASSUME RequestsInv, NEW r \in RegRequests, Put(r, Quiet), uiaa' \in [Uiaa -> (SUBSET Stages) \cup {NoRow}]
  PROVE  RequestsInv'
<1>1. Quiet \in SessionJob \cup OtherJob /\ Quiet.at = "idle"
  BY Zenon DEF Quiet, OtherJob
<1> QED
  BY <1>1, RequestMoves, Zenon

\* Steps that touch no token, address or request leave its part alone.
LEMMA TokensKept == TokensInv /\ UNCHANGED tokenVars => TokensInv'
BY Zenon DEF tokenVars, TokensInv

LEMMA RequestsKept == RequestsInv /\ UNCHANGED <<uiaa, reg>> => RequestsInv'
BY Zenon DEF RequestsInv

\* The rows of an address after a step that hands nothing out.
Spared(sid) ==
    \/ pending'[sid] = NoRow
    \/ /\ pending[sid] # NoRow /\ pending'[sid] \in PendingType
       /\ pending[sid].use = "spent" => pending'[sid].use = "spent"

LEMMA AddressesKept ==
  ASSUME AddressesInv, UNCHANGED spent, pending' \in [Sids -> PendingType \cup {NoRow}],
         claims' \in [Uiaa -> Sids \cup {NoRow}], \A sid \in Sids : Spared(sid)
  PROVE  AddressesInv'
BY Zenon DEF AddressesInv, Spared

LEMMA AddressesSame == AddressesInv /\ UNCHANGED <<pending, claims, spent>> => AddressesInv'
BY Zenon DEF AddressesInv

LEMMA DeleteKeeps ==
  ASSUME AddressesInv, NEW sid \in Sids, delete_pending_state(sid), UNCHANGED spent
  PROVE  AddressesInv'
<1>1. pending' = [pending EXCEPT ![sid] = NoRow]
  BY Zenon DEF delete_pending_state
<1>2. claims' \in [Uiaa -> Sids \cup {NoRow}]
  BY Zenon DEF delete_pending_state, AddressesInv
<1>3. \A x \in Sids : Spared(x)
  BY <1>1, Zenon DEF AddressesInv, Spared
<1>4. pending' \in [Sids -> PendingType \cup {NoRow}]
  BY <1>1, Zenon DEF AddressesInv
<1> QED
  BY <1>2, <1>3, <1>4, AddressesKept, Zenon

\* One row is rewritten in a way that does not take its use back.
LEMMA RowKeeps ==
  ASSUME AddressesInv, NEW sid \in Sids, NEW row \in PendingType, pending[sid] # NoRow,
         pending' = [pending EXCEPT ![sid] = row], UNCHANGED spent,
         claims' \in [Uiaa -> Sids \cup {NoRow}],
         pending[sid].use = "spent" => row.use = "spent"
  PROVE  AddressesInv'
<1>1. \A x \in Sids : Spared(x)
  BY Zenon DEF AddressesInv, Spared
<1>2. pending' \in [Sids -> PendingType \cup {NoRow}]
  BY Zenon DEF AddressesInv
<1> QED
  BY <1>1, <1>2, AddressesKept, Zenon

LEMMA MintKeeps ==
  ASSUME RegInv, NEW sid \in Sids, NEW again \in BOOLEAN, create_or_reuse_pending(sid, again)
  PROVE  RegInv'
<1>1. UNCHANGED <<uiaa, tokenVars, reg>>
  BY Zenon DEF create_or_reuse_pending
<1>2. CASE UNCHANGED proofVars
  BY <1>1, <1>2, TokensKept, RequestsKept, AddressesSame, Zenon DEF proofVars, RegInv
<1>3. CASE ~UNCHANGED proofVars
  <2> DEFINE row == [valid |-> FALSE, attempts |-> 0, use |-> "available", stale |-> FALSE]
  <2>1. /\ pending' = [pending EXCEPT ![sid] = row] /\ spent' = [spent EXCEPT ![sid] = 0]
        /\ \/ claims' = claims
           \/ claims' = [s \in Uiaa |-> IF claims[s] = sid /\ Claimed(sid, s) THEN NoRow ELSE claims[s]]
    BY <1>3, Zenon DEF create_or_reuse_pending
  <2>2. row \in PendingType
    BY Zenon DEF PendingType
  <2> HIDE DEF row
  <2>3. claims' \in [Uiaa -> Sids \cup {NoRow}]
    BY <2>1, Zenon DEF RegInv, AddressesInv
  <2>4. AddressesInv'
    BY <2>1, <2>2, <2>3 DEF RegInv, AddressesInv
  <2> QED
    BY <1>1, <2>4, TokensKept, RequestsKept, Zenon DEF RegInv
<1> QED
  BY <1>2, <1>3, Zenon

LEMMA ValidateKeeps ==
  ASSUME RegInv, NEW sid \in Sids, NEW right \in BOOLEAN, validate_pending_token(sid, right)
  PROVE  RegInv'
<1>1. pending[sid] # NoRow /\ UNCHANGED <<spent, uiaa, tokenVars, reg>>
  BY Zenon DEF validate_pending_token, Row
<1>2. pending[sid] \in PendingType
  BY <1>1, Zenon DEF RegInv, AddressesInv
<1>3. CASE delete_pending_state(sid)
  BY <1>1, <1>3, DeleteKeeps, TokensKept, RequestsKept, Zenon DEF RegInv
<1>4. CASE UNCHANGED <<pending, claims>>
  BY <1>1, <1>4, AddressesSame, TokensKept, RequestsKept, Zenon DEF RegInv
<1>5. CASE pending' = [pending EXCEPT ![sid].valid = TRUE] /\ UNCHANGED claims
  <2> DEFINE row == [pending[sid] EXCEPT !.valid = TRUE]
  <2>1. row \in PendingType /\ row.use = pending[sid].use /\ pending' = [pending EXCEPT ![sid] = row]
    BY <1>2, <1>5, Zenon DEF PendingType
  <2> HIDE DEF row
  <2>2. AddressesInv'
    BY <1>1, <1>5, <2>1, RowKeeps, Zenon DEF RegInv, AddressesInv
  <2> QED
    BY <1>1, <2>2, TokensKept, RequestsKept, Zenon DEF RegInv
<1>6. CASE pending' = [pending EXCEPT ![sid].attempts = @ + 1] /\ UNCHANGED claims
  <2> DEFINE row == [pending[sid] EXCEPT !.attempts = @ + 1]
  <2>1. row \in PendingType /\ row.use = pending[sid].use /\ pending' = [pending EXCEPT ![sid] = row]
    BY <1>2, <1>6 DEF PendingType
  <2> HIDE DEF row
  <2>2. AddressesInv'
    BY <1>1, <1>6, <2>1, RowKeeps, Zenon DEF RegInv, AddressesInv
  <2> QED
    BY <1>1, <2>2, TokensKept, RequestsKept, Zenon DEF RegInv
<1> QED
  <2>1. pending[sid].stale \in BOOLEAN
    BY <1>2, Zenon DEF PendingType
  <2> QED
    BY <1>3, <1>4, <1>5, <1>6, <2>1, Zenon DEF validate_pending_token, Stale

LEMMA ClaimKeeps ==
  ASSUME AddressesInv, NEW sid \in Sids, NEW s \in Uiaa, claim_validated(sid, s), UNCHANGED spent
  PROVE  AddressesInv'
<1>1. CASE Row(sid) /\ Stale(sid)
  BY <1>1, DeleteKeeps, Zenon DEF claim_validated, Claimable
<1>2. CASE ~(Row(sid) /\ Stale(sid)) /\ Claimable(sid, s)
  <2> DEFINE row == [pending[sid] EXCEPT !.use = s]
  <2>1. pending[sid] # NoRow /\ pending[sid] \in PendingType /\ pending[sid].use # "spent"
    BY <1>2, RegAssumption, Zenon DEF Claimable, Row, AddressesInv
  <2>2. row \in PendingType /\ pending' = [pending EXCEPT ![sid] = row] /\ claims' = [claims EXCEPT ![s] = sid]
    BY <1>2, <2>1, Zenon DEF PendingType, claim_validated
  <2> HIDE DEF row
  <2>3. claims' \in [Uiaa -> Sids \cup {NoRow}]
    BY <2>2, Zenon DEF AddressesInv
  <2> QED
    BY <2>1, <2>2, <2>3, RowKeeps, Zenon
<1>3. CASE ~(Row(sid) /\ Stale(sid)) /\ ~Claimable(sid, s)
  BY <1>3, AddressesSame, Zenon DEF claim_validated
<1> QED
  BY <1>1, <1>2, <1>3, Zenon

LEMMA DropKeeps ==
  ASSUME AddressesInv, NEW sid \in Sids, NEW s \in Uiaa, DropClaim(sid, s), UNCHANGED spent
  PROVE  AddressesInv'
<1>1. pending' \in {pending, [pending EXCEPT ![sid] = NoRow]} /\ claims' \in {claims, [claims EXCEPT ![s] = NoRow]}
  BY Zenon DEF DropClaim
<1>2. \A x \in Sids : Spared(x)
  BY <1>1, Zenon DEF AddressesInv, Spared
<1> QED
  BY <1>1, <1>2, AddressesKept, Zenon DEF AddressesInv

\* One association is handed out, for a row that had none before.
LEMMA SpendKeeps ==
  ASSUME AddressesInv, NEW sid \in Sids, pending[sid] # NoRow, pending[sid].use # "spent",
         pending' = [pending EXCEPT ![sid].use = "spent"], spent' = [spent EXCEPT ![sid] = @ + 1],
         claims' \in [Uiaa -> Sids \cup {NoRow}]
  PROVE  AddressesInv'
<1> DEFINE row == [pending[sid] EXCEPT !.use = "spent"]
<1>1. pending[sid] \in PendingType
  BY Zenon DEF AddressesInv
<1>2. row \in PendingType /\ row.use = "spent" /\ pending' = [pending EXCEPT ![sid] = row]
  BY <1>1, Zenon DEF PendingType
<1> HIDE DEF row
<1>3. spent[sid] = 0
  BY Zenon DEF AddressesInv
<1> QED
  BY <1>2, <1>3 DEF AddressesInv

LEMMA RedeemKeeps ==
  ASSUME AddressesInv, NEW sid \in Sids, NEW s \in Uiaa, redeem_claim(sid, s)
  PROVE  AddressesInv'
<1>1. CASE Owned(sid, s)
  <2>1. pending[sid] # NoRow /\ pending[sid].use # "spent"
    BY <1>1, RegAssumption, Zenon DEF Owned, Row, Claimed
  <2>2. claims' \in [Uiaa -> Sids \cup {NoRow}]
    BY <1>1, Zenon DEF redeem_claim, AddressesInv
  <2> QED
    BY <1>1, <2>1, <2>2, SpendKeeps, Zenon DEF redeem_claim
<1>2. CASE ~Owned(sid, s)
  BY <1>2, DropKeeps, Zenon DEF redeem_claim
<1> QED
  BY <1>1, <1>2, Zenon

LEMMA RedeemValidatedKeeps ==
  ASSUME AddressesInv, NEW sid \in Sids, redeem_validated(sid)
  PROVE  AddressesInv'
<1>1. CASE Row(sid) /\ Stale(sid)
  BY <1>1, DeleteKeeps, Zenon DEF redeem_validated, session_validated
<1>2. CASE ~(Row(sid) /\ Stale(sid)) /\ session_validated(sid)
  <2>1. pending[sid] # NoRow /\ pending[sid].use # "spent"
    BY <1>2, Zenon DEF session_validated, Row
  <2> QED
    BY <1>2, <2>1, SpendKeeps, Zenon DEF redeem_validated, AddressesInv
<1>3. CASE ~(Row(sid) /\ Stale(sid)) /\ ~session_validated(sid)
  BY <1>3, AddressesSame, Zenon DEF redeem_validated
<1> QED
  BY <1>1, <1>2, <1>3, Zenon

LEMMA CheckKeeps ==
  ASSUME TokensInv, NEW t \in RTokens, NEW recorded \in BOOLEAN, check_token(t, recorded)
  PROVE  TokensInv'
<1>1. CASE rtokens[t] = NoRow
  BY <1>1, TokensKept, Zenon DEF check_token
<1>2. CASE rtokens[t] # NoRow /\ ~is_valid(rtokens[t])
  <2>1. rtokens' = [rtokens EXCEPT ![t] = NoRow] /\ UNCHANGED <<granted, allowed>>
    BY <1>2, Zenon DEF check_token
  <2> QED
    BY <2>1, Zenon DEF TokensInv
<1>3. CASE rtokens[t] # NoRow /\ is_valid(rtokens[t])
  <2> DEFINE row == [rtokens[t] EXCEPT !.uses = @ + 1]
  <2>1. /\ rtokens' \in {rtokens, [rtokens EXCEPT ![t] = row], [rtokens EXCEPT ![t] = NoRow]}
        /\ ~recorded => rtokens' = rtokens /\ granted' = granted
        /\ recorded => /\ rtokens' \in {[rtokens EXCEPT ![t] = row], [rtokens EXCEPT ![t] = NoRow]}
                       /\ granted' = [granted EXCEPT ![t] = @ + 1]
        /\ UNCHANGED allowed
    BY <1>3, Zenon DEF check_token
  <2>2. rtokens[t] \in TokenType /\ rtokens[t].uses < rtokens[t].max
    BY <1>3, Zenon DEF TokensInv, is_valid
  <2>3. row \in TokenType /\ row.uses = rtokens[t].uses + 1 /\ row.max = rtokens[t].max
    BY <2>2 DEF TokenType
  <2>4. rtokens[t].uses \in Nat /\ rtokens[t].max \in Nat
    BY <2>2, Zenon DEF TokenType
  <2> HIDE DEF row
  <2>5. CASE recorded
    <3>1. granted'[t] = granted[t] + 1 /\ granted' \in [RTokens -> Nat] /\ \A x \in RTokens \ {t} : granted'[x] = granted[x]
      BY <2>1, <2>5 DEF TokensInv
    <3>2. /\ rtokens' \in [RTokens -> TokenType \cup {NoRow}] /\ rtokens'[t] \in {row, NoRow}
          /\ \A x \in RTokens \ {t} : rtokens'[x] = rtokens[x]
      BY <2>1, <2>3, <2>5 DEF TokensInv
    <3>3. rtokens[t].uses = granted[t] /\ rtokens[t].max <= allowed[t]
      BY <1>3, Zenon DEF TokensInv
    <3> QED
      BY <2>1, <2>2, <2>3, <2>4, <3>1, <3>2, <3>3 DEF TokensInv
  <2>6. CASE ~recorded
    BY <2>1, <2>6, Zenon DEF TokensInv
  <2> QED
    BY <2>5, <2>6, Zenon
<1> QED
  BY <1>1, <1>2, <1>3, Zenon

\* The steps of the tokens' own life.
LEMMA TokenStepKeeps ==
  ASSUME RegInv, TokenStep
  PROVE  RegInv'
<1>t. TokensInv /\ AddressesInv /\ RequestsInv
  BY Zenon DEF RegInv
<1>1. ASSUME NEW t \in RTokens, NEW m \in 1 .. MaxUses, save_token(t, m) PROVE RegInv'
  <2> DEFINE row == [uses |-> 0, max |-> m, old |-> FALSE]
  <2>1. m \in Nat
    BY <1>1, RegAssumption
  <2>2. row \in TokenType /\ row.uses = 0 /\ row.max = m
    BY <2>1, Zenon DEF TokenType
  <2>3. /\ rtokens' = [rtokens EXCEPT ![t] = row] /\ granted' = [granted EXCEPT ![t] = 0]
        /\ allowed' = [allowed EXCEPT ![t] = m] /\ UNCHANGED <<pending, claims, spent, uiaa, reg>>
    BY <1>1, Zenon DEF save_token, proofVars
  <2> HIDE DEF row
  <2>4. TokensInv'
    BY <1>t, <2>1, <2>2, <2>3 DEF TokensInv
  <2> QED
    BY <1>t, <2>3, <2>4, AddressesSame, RequestsKept, Zenon DEF RegInv
<1>2. ASSUME NEW t \in RTokens, NEW m \in 1 .. MaxUses, update_token(t, m) PROVE RegInv'
  <2> DEFINE row == [uses |-> rtokens[t].uses, max |-> m, old |-> FALSE]
  <2>1. m \in Nat /\ rtokens[t] # NoRow
    BY <1>2, RegAssumption DEF update_token
  <2>2. rtokens[t] \in TokenType
    BY <1>t, <2>1, Zenon DEF TokensInv
  <2>3. row \in TokenType /\ row.uses = rtokens[t].uses /\ row.max = m
    BY <2>1, <2>2, Zenon DEF TokenType
  <2>4. /\ rtokens' = [rtokens EXCEPT ![t] = row] /\ granted' = granted
        /\ allowed' = [allowed EXCEPT ![t] = IF m > @ THEN m ELSE @]
        /\ UNCHANGED <<pending, claims, spent, uiaa, reg>>
    BY <1>2, Zenon DEF update_token, proofVars
  <2> HIDE DEF row
  <2>5. TokensInv'
    <3>1. allowed' \in [RTokens -> Nat] /\ allowed'[t] >= allowed[t] /\ allowed'[t] >= m
          /\ \A x \in RTokens \ {t} : allowed'[x] = allowed[x]
      BY <1>t, <2>1, <2>4 DEF TokensInv
    <3>2. /\ rtokens' \in [RTokens -> TokenType \cup {NoRow}] /\ rtokens'[t] = row
          /\ \A x \in RTokens \ {t} : rtokens'[x] = rtokens[x]
      BY <1>t, <2>3, <2>4, Zenon DEF TokensInv
    <3>3. granted[t] <= allowed'[t]
      BY <1>t, <3>1 DEF TokensInv
    <3> QED
      BY <1>t, <2>1, <2>3, <2>4, <3>1, <3>2, <3>3 DEF TokensInv
  <2> QED
    BY <1>t, <2>4, <2>5, AddressesSame, RequestsKept, Zenon DEF RegInv
<1>3. ASSUME NEW t \in RTokens, revoke_token(t) PROVE RegInv'
  <2>1. rtokens' = [rtokens EXCEPT ![t] = NoRow] /\ UNCHANGED <<granted, allowed, pending, claims, spent, uiaa, reg>>
    BY <1>3, Zenon DEF revoke_token, proofVars
  <2>2. TokensInv'
    BY <1>t, <2>1, Zenon DEF TokensInv
  <2> QED
    BY <1>t, <2>1, <2>2, AddressesSame, RequestsKept, Zenon DEF RegInv
<1>4. ASSUME NEW r \in RegRequests, NEW t \in RTokens, CleanRead(r, t) PROVE RegInv'
  <2> DEFINE job == [at |-> "clean", token |-> t]
  <2>1. Put(r, job) /\ UNCHANGED <<tokenVars, pending, claims, spent, uiaa>>
    BY <1>4, Zenon DEF CleanRead, proofVars
  <2>2. job \in SessionJob \cup OtherJob /\ job.at = "clean"
    BY Zenon DEF OtherJob
  <2> HIDE DEF job
  <2>3. RequestsInv'
    BY <1>t, <2>1, <2>2, RequestMoves, Zenon DEF RequestsInv
  <2> QED
    BY <1>t, <2>1, <2>3, AddressesSame, TokensKept, Zenon DEF RegInv
<1>5. ASSUME NEW r \in RegRequests, iterate_and_clean_tokens(r) PROVE RegInv'
  <2>1. /\ rtokens' = [rtokens EXCEPT ![reg[r].token] = NoRow] /\ Put(r, Quiet)
        /\ UNCHANGED <<granted, allowed, pending, claims, spent, uiaa>>
    BY <1>5, Zenon DEF iterate_and_clean_tokens, proofVars
  <2>2. TokensInv'
    BY <1>t, <2>1, Zenon DEF TokensInv
  <2>3. RequestsInv'
    BY <1>t, <2>1, RequestRests, Zenon DEF RequestsInv
  <2> QED
    BY <1>t, <2>1, <2>2, <2>3, AddressesSame, Zenon DEF RegInv
<1> QED
  BY <1>1, <1>2, <1>3, <1>4, <1>5, Zenon DEF TokenStep

\* The steps of verified addresses.
LEMMA ProofStepKeeps ==
  ASSUME RegInv, ProofStep
  PROVE  RegInv'
<1>t. TokensInv /\ AddressesInv /\ RequestsInv
  BY Zenon DEF RegInv
<1>1. ASSUME NEW sid \in Sids, NEW again \in BOOLEAN, send_email_token(sid, again) PROVE RegInv'
  BY <1>1, MintKeeps, Zenon DEF send_email_token
<1>2. ASSUME NEW sid \in Sids, NEW right \in BOOLEAN, validate_pending_token(sid, right) PROVE RegInv'
  BY <1>2, ValidateKeeps, Zenon
<1>3. ASSUME NEW u \in RUsers, NEW sid \in Sids, del_binding(u, sid) PROVE RegInv'
  BY <1>t, <1>3, AddressesSame, TokensKept, RequestsKept, Zenon DEF del_binding, proofVars, RegInv
<1>4. ASSUME NEW r \in RegRequests, NEW u \in RUsers, NEW sid \in Sids, add_3pid_route(r, u, sid) PROVE RegInv'
  <2> DEFINE job == [at |-> "bind", user |-> u, with |-> sid]
  <2>1. redeem_validated(sid) /\ UNCHANGED <<uiaa, tokenVars>> /\ (Put(r, Quiet) \/ Put(r, job))
    BY <1>4, Zenon DEF add_3pid_route
  <2>2. job \in SessionJob \cup OtherJob /\ job.at = "bind"
    BY Zenon DEF OtherJob
  <2> HIDE DEF job
  <2>3. RequestsInv'
    BY <1>t, <2>1, <2>2, RequestMoves, RequestRests, Zenon DEF RequestsInv
  <2> QED
    BY <1>t, <2>1, <2>3, RedeemValidatedKeeps, TokensKept, Zenon DEF RegInv
<1>5. ASSUME NEW r \in RegRequests, try_bind_registration_email(r) PROVE RegInv'
  <2> DEFINE job == [reg[r] EXCEPT !.at = "put"]
  <2>1. /\ reg[r].at = "bind" /\ UNCHANGED <<uiaa, tokenVars, pending, claims, spent>>
        /\ Put(r, Quiet) \/ Put(r, job)
    BY <1>5, Zenon DEF try_bind_registration_email, proofVars
  <2>2. reg[r] \in [at : {"bind", "put"}, user : RUsers, with : Sids]
    BY <1>t, <2>1, JobKinds, Zenon
  <2>3. job \in SessionJob \cup OtherJob /\ job.at = "put"
    BY <2>2, Zenon DEF OtherJob
  <2> HIDE DEF job
  <2>4. RequestsInv'
    BY <1>t, <2>1, <2>3, RequestMoves, RequestRests, Zenon DEF RequestsInv
  <2> QED
    BY <1>t, <2>1, <2>4, AddressesSame, TokensKept, ZenonT(30) DEF RegInv
<1>6. ASSUME NEW r \in RegRequests, BindPut(r) PROVE RegInv'
  <2>1. Put(r, Quiet) /\ UNCHANGED <<uiaa, tokenVars, pending, claims, spent>>
    BY <1>6, Zenon DEF BindPut, proofVars
  <2>2. RequestsInv'
    BY <1>t, <2>1, RequestRests, Zenon DEF RequestsInv
  <2> QED
    BY <1>t, <2>1, <2>2, AddressesSame, TokensKept, Zenon DEF RegInv
<1> QED
  BY <1>1, <1>2, <1>3, <1>4, <1>5, <1>6, Zenon DEF ProofStep

\* The stage a request brings: a token's use, an address claimed, or nothing.
LEMMA StageKeeps ==
  ASSUME RegInv, NEW r \in RegRequests, NEW recorded \in BOOLEAN, RegisterStage(r, recorded)
  PROVE  RegInv'
<1> DEFINE j == reg[r]
           done == IF j.stage = "poll" THEN j.done ELSE j.done \cup {j.stage}
           at == IF j.stage # "email" /\ "email" \in done THEN "lookup" ELSE "settle"
           job == [j EXCEPT !.at = at, !.done = done]
<1>t. TokensInv /\ AddressesInv /\ RequestsInv
  BY Zenon DEF RegInv
<1>1. /\ j.at = "stage" /\ (Put(r, Quiet) \/ Put(r, job)) /\ UNCHANGED <<spent, uiaa>>
      /\ CASE j.stage = "token" -> check_token(j.with, recorded) /\ UNCHANGED <<pending, claims>>
           [] j.stage = "email" -> claim_validated(j.with, j.sess) /\ UNCHANGED tokenVars
           [] OTHER -> UNCHANGED <<pending, claims, tokenVars>>
  BY Zenon DEF RegisterStage
<1>2. j \in SessionJob
  BY <1>t, <1>1, JobKinds, Zenon
<1>3. j.stage \in Stages /\ j.sess \in Uiaa /\ j.done \in SUBSET Stages
  BY <1>2, Zenon DEF SessionJob
<1>4. done \in SUBSET Stages /\ at \in {"lookup", "settle"}
  BY <1>3, Zenon
<1> HIDE DEF done, at
<1>5. job \in SessionJob /\ job.at \in {"lookup", "settle"}
  BY <1>2, <1>4, Zenon DEF SessionJob
<1> HIDE DEF job
<1>6. RequestsInv'
  BY <1>t, <1>1, <1>5, RequestMoves, RequestRests, Zenon DEF RequestsInv
<1>7. CASE j.stage = "token"
  <2>1. j.with \in RTokens
    BY <1>t, <1>1, <1>7, Zenon DEF RequestsInv
  <2>2. check_token(j.with, recorded) /\ UNCHANGED <<pending, claims, spent>>
    BY <1>1, <1>7, Zenon
  <2> QED
    BY <1>t, <1>6, <2>1, <2>2, CheckKeeps, AddressesSame, Zenon DEF RegInv
<1>8. CASE j.stage = "email"
  <2>1. j.with \in Sids
    BY <1>t, <1>1, <1>8, Zenon DEF RequestsInv
  <2>2. claim_validated(j.with, j.sess) /\ UNCHANGED tokenVars /\ UNCHANGED spent
    BY <1>1, <1>8, Zenon
  <2> QED
    BY <1>t, <1>3, <1>6, <2>1, <2>2, ClaimKeeps, TokensKept, Zenon DEF RegInv
<1>9. CASE j.stage = "poll"
  <2>1. UNCHANGED <<pending, claims, spent, tokenVars>>
    BY <1>1, <1>9, Zenon
  <2> QED
    BY <1>t, <1>6, <2>1, AddressesSame, TokensKept, Zenon DEF RegInv
<1> QED
  BY <1>3, <1>7, <1>8, <1>9, Zenon DEF Stages

\* A completed stage of a session is stored again.
LEMMA UiaaStored ==
  ASSUME RequestsInv, NEW s \in Uiaa, NEW v \in (SUBSET Stages) \cup {NoRow}
  PROVE  [uiaa EXCEPT ![s] = v] \in [Uiaa -> (SUBSET Stages) \cup {NoRow}]
BY Zenon DEF RequestsInv

LEMMA RegisterStepKeeps ==
  ASSUME RegInv, RegisterStep
  PROVE  RegInv'
<1>t. TokensInv /\ AddressesInv /\ RequestsInv
  BY Zenon DEF RegInv
<1>1. ASSUME NEW s \in Uiaa, UiaaCreate(s) PROVE RegInv'
  <2>1. uiaa' = [uiaa EXCEPT ![s] = {}] /\ UNCHANGED <<pending, claims, spent, tokenVars, reg>>
    BY <1>1, Zenon DEF UiaaCreate, proofVars
  <2>2. RequestsInv'
    BY <1>t, <2>1, Zenon DEF RequestsInv
  <2> QED
    BY <1>t, <2>1, <2>2, AddressesSame, TokensKept, Zenon DEF RegInv
<1>2. ASSUME NEW r \in RegRequests, NEW s \in Uiaa, NEW stg \in Stages, NEW with \in RTokens \cup Sids \cup {NoRow},
             RegisterRead(r, s, stg, with), stg = "token" => with \in RTokens, stg = "email" => with \in Sids
      PROVE  RegInv'
  <2> DEFINE job == [at |-> "stage", sess |-> s, stage |-> stg, with |-> with, done |-> uiaa[s]]
  <2>1. uiaa[s] # NoRow /\ Put(r, job) /\ UNCHANGED <<pending, claims, spent, uiaa, tokenVars>>
    BY <1>2, Zenon DEF RegisterRead, proofVars
  <2>2. job \in SessionJob /\ job.at = "stage" /\ job.stage = stg /\ job.with = with
    BY <1>t, <2>1, Zenon DEF SessionJob, RequestsInv
  <2> HIDE DEF job
  <2>3. RequestsInv'
    BY <1>t, <1>2, <2>1, <2>2, RequestMoves, ZenonT(30) DEF RequestsInv
  <2> QED
    BY <1>t, <2>1, <2>3, AddressesSame, TokensKept, Zenon DEF RegInv
<1>3. ASSUME NEW r \in RegRequests, ClaimLookup(r) PROVE RegInv'
  <2> DEFINE j == reg[r]  sid == claims[j.sess]
             at == IF j.at = "lookup" THEN "refresh" ELSE "redeem"
             job == [j EXCEPT !.at = at, !.with = sid]
             back == j.done \ {"email"}
  <2>1. /\ j.at \in {"lookup", "find"} /\ UNCHANGED <<pending, claims, spent, tokenVars>>
        /\ \/ sid # NoRow /\ Put(r, job) /\ UNCHANGED uiaa
           \/ sid = NoRow /\ Put(r, Quiet) /\ uiaa' \in {uiaa, [uiaa EXCEPT ![j.sess] = back]}
    BY <1>3, Zenon DEF ClaimLookup, proofVars
  <2>2. j \in SessionJob
    BY <1>t, <2>1, JobKinds, Zenon
  <2>3. j.sess \in Uiaa /\ back \in SUBSET Stages
    BY <2>2, Zenon DEF SessionJob
  <2>4. sid \in Sids \cup {NoRow}
    BY <1>t, <2>3, Zenon DEF AddressesInv
  <2>5. at \in {"refresh", "redeem"}
    BY Zenon
  <2> HIDE DEF sid, back, at
  <2>6. job \in SessionJob /\ job.with = sid /\ job.at = at
    BY <2>2, <2>4, <2>5, Zenon DEF SessionJob
  <2> HIDE DEF job
  <2>7. uiaa' \in [Uiaa -> (SUBSET Stages) \cup {NoRow}]
    BY <1>t, <2>1, <2>3, UiaaStored, Zenon DEF RequestsInv
  <2>8. RequestsInv'
    BY <1>t, <2>1, <2>4, <2>5, <2>6, <2>7, RequestMoves, RequestRests, ZenonT(30)
  <2> QED
    BY <1>t, <2>1, <2>8, AddressesSame, TokensKept, ZenonT(30) DEF RegInv
<1>4. ASSUME NEW r \in RegRequests, RegisterRecheck(r) PROVE RegInv'
  <2> DEFINE j == reg[r]  job == [j EXCEPT !.at = "settle"]  back == j.done \ {"email"}
  <2>1. /\ j.at = "refresh" /\ refresh_claim(j.with, j.sess) /\ UNCHANGED <<spent, tokenVars>>
        /\ \/ Put(r, job) /\ UNCHANGED uiaa
           \/ Put(r, Quiet) /\ uiaa' = [uiaa EXCEPT ![j.sess] = back]
    BY <1>4, Zenon DEF RegisterRecheck
  <2>2. j \in SessionJob /\ j.with \in Sids
    BY <1>t, <2>1, JobKinds, Zenon DEF RequestsInv
  <2>3. j.sess \in Uiaa /\ back \in SUBSET Stages /\ job \in SessionJob /\ job.at = "settle"
    BY <2>2, Zenon DEF SessionJob
  <2> HIDE DEF job, back
  <2>4. RequestsInv'
    BY <1>t, <2>1, <2>3, UiaaStored, RequestMoves, RequestRests DEF RequestsInv
  <2>5. AddressesInv'
    BY <1>t, <2>1, <2>2, <2>3, DropKeeps, AddressesSame, ZenonT(30) DEF refresh_claim
  <2> QED
    BY <1>t, <2>1, <2>4, <2>5, TokensKept, Zenon DEF RegInv
<1>5. ASSUME NEW r \in RegRequests, RegisterSettle(r) PROVE RegInv'
  <2> DEFINE j == reg[r]  job == [j EXCEPT !.at = "find"]
  <2>1. /\ j.at = "settle" /\ UNCHANGED <<pending, claims, spent, tokenVars>>
        /\ uiaa' \in {[uiaa EXCEPT ![j.sess] = NoRow], [uiaa EXCEPT ![j.sess] = j.done]}
        /\ Put(r, Quiet) \/ Put(r, job)
    BY <1>5, ZenonT(30) DEF RegisterSettle, proofVars
  <2>2. j \in SessionJob
    BY <1>t, <2>1, JobKinds, Zenon
  <2>3. j.sess \in Uiaa /\ j.done \in SUBSET Stages /\ job \in SessionJob /\ job.at = "find"
    BY <2>2, Zenon DEF SessionJob
  <2> HIDE DEF job
  <2>4. uiaa' \in [Uiaa -> (SUBSET Stages) \cup {NoRow}]
    BY <1>t, <2>1, <2>3, UiaaStored
  <2>5. RequestsInv'
    BY <1>t, <2>1, <2>3, <2>4, RequestMoves, RequestRests, Zenon
  <2> QED
    BY <1>t, <2>1, <2>5, AddressesSame, TokensKept, Zenon DEF RegInv
<1>6. ASSUME NEW r \in RegRequests, RegisterDrop(r) PROVE RegInv'
  <2> DEFINE job == [at |-> "bind", user |-> reg[r].user, with |-> reg[r].with]
  <2>1. /\ reg[r].at = "drop" /\ uiaa' = [uiaa EXCEPT ![reg[r].sess] = NoRow] /\ Put(r, job)
        /\ UNCHANGED <<pending, claims, spent, tokenVars>>
    BY <1>6, Zenon DEF RegisterDrop, proofVars
  <2>2. reg[r].sess \in Uiaa /\ reg[r].user \in RUsers /\ reg[r].with \in Sids
    BY <1>t, <2>1, JobKinds, Zenon
  <2>3. job \in OtherJob /\ job.at = "bind"
    BY <2>2, Zenon DEF OtherJob
  <2> HIDE DEF job
  <2>4. RequestsInv'
    BY <1>t, <2>1, <2>2, <2>3, UiaaStored, RequestMoves, Zenon
  <2> QED
    BY <1>t, <2>1, <2>4, AddressesSame, TokensKept, Zenon DEF RegInv
<1>7. ASSUME NEW r \in RegRequests, NEW u \in RUsers, RegisterRedeem(r, u) PROVE RegInv'
  <2> DEFINE j == reg[r]  job == [at |-> "drop", user |-> u, with |-> j.with, sess |-> j.sess]
  <2>1. /\ j.at = "redeem" /\ redeem_claim(j.with, j.sess) /\ (Put(r, Quiet) \/ Put(r, job))
        /\ UNCHANGED <<uiaa, tokenVars>>
    BY <1>7, Zenon DEF RegisterRedeem
  <2>2. j \in SessionJob /\ j.with \in Sids
    BY <1>t, <2>1, JobKinds, Zenon DEF RequestsInv
  <2>3. j.sess \in Uiaa
    BY <2>2, Zenon DEF SessionJob
  <2>4. job \in OtherJob /\ job.at = "drop"
    BY <2>2, <2>3, Zenon DEF OtherJob
  <2> HIDE DEF job
  <2>5. RequestsInv'
    BY <1>t, <2>1, <2>4, RequestMoves, RequestRests, ZenonT(30) DEF RequestsInv
  <2> QED
    BY <1>t, <2>1, <2>2, <2>3, <2>5, RedeemKeeps, TokensKept, Zenon DEF RegInv
<1>8. ASSUME NEW r \in RegRequests, NEW s \in Uiaa,
             \/ \E t \in RTokens : RegisterRead(r, s, "token", t)
             \/ \E sid \in Sids : RegisterRead(r, s, "email", sid)
             \/ RegisterRead(r, s, "poll", NoRow)
      PROVE  RegInv'
  BY <1>2, <1>8, Zenon DEF Stages
<1> QED
  BY <1>1, <1>3, <1>4, <1>5, <1>6, <1>7, <1>8, StageKeeps, Zenon DEF RegisterStep

LEMMA AgeKeeps ==
  ASSUME RegInv, ProofsAge
  PROVE  RegInv'
<1>t. TokensInv /\ AddressesInv /\ RequestsInv
  BY Zenon DEF RegInv
<1>1. UNCHANGED <<claims, spent, granted, allowed, uiaa, reg>>
  BY Zenon DEF ProofsAge
<1>2. ASSUME NEW sid \in Sids, Row(sid), pending' = [pending EXCEPT ![sid].stale = TRUE], UNCHANGED rtokens
      PROVE  RegInv'
  <2> DEFINE row == [pending[sid] EXCEPT !.stale = TRUE]
  <2>1. pending[sid] # NoRow /\ pending[sid] \in PendingType
    BY <1>t, <1>2, Zenon DEF AddressesInv, Row
  <2>2. row \in PendingType /\ row.use = pending[sid].use /\ pending' = [pending EXCEPT ![sid] = row]
    BY <1>2, <2>1, Zenon DEF PendingType
  <2> HIDE DEF row
  <2>3. AddressesInv'
    BY <1>t, <1>1, <2>1, <2>2, RowKeeps, Zenon DEF AddressesInv
  <2> QED
    BY <1>t, <1>1, <1>2, <2>3, TokensKept, RequestsKept, Zenon DEF RegInv, tokenVars
<1>3. ASSUME NEW t \in RTokens, rtokens[t] # NoRow, rtokens' = [rtokens EXCEPT ![t].old = TRUE], UNCHANGED pending
      PROVE  RegInv'
  <2> DEFINE row == [rtokens[t] EXCEPT !.old = TRUE]
  <2>1. rtokens[t] \in TokenType
    BY <1>t, <1>3, Zenon DEF TokensInv
  <2>2. row \in TokenType /\ row.uses = rtokens[t].uses /\ row.max = rtokens[t].max
        /\ rtokens' = [rtokens EXCEPT ![t] = row]
    BY <1>3, <2>1, Zenon DEF TokenType
  <2> HIDE DEF row
  <2>3. TokensInv'
    BY <1>t, <1>1, <1>3, <2>2, ZenonT(30) DEF TokensInv
  <2> QED
    BY <1>t, <1>1, <1>3, <2>3, AddressesSame, RequestsKept, Zenon DEF RegInv
<1> QED
  BY <1>2, <1>3, Zenon DEF ProofsAge

LEMMA RegKeeps == RegInv /\ [RegNext]_regVars => RegInv'
<1> SUFFICES ASSUME RegInv, [RegNext]_regVars PROVE RegInv'
  BY Zenon
<1>1. CASE UNCHANGED regVars
  BY <1>1, AddressesSame, TokensKept, RequestsKept, Zenon DEF RegInv, regVars, proofVars
<1> QED
  BY <1>1, TokenStepKeeps, ProofStepKeeps, RegisterStepKeeps, AgeKeeps, Zenon DEF RegNext

(* Whatever registrations, changes of its limit and cleanings meet, a
   registration token admits no more uses than the largest limit it has had
   since it was created (registration_tokens, check_token). *)
THEOREM TokensAreBounded == RegSpec => []UsesWithinLimit
<1>1. RegInv => UsesWithinLimit
  BY Zenon DEF RegInv, TokensInv, UsesWithinLimit
<1> QED
  BY <1>1, RegStart, RegKeeps, PTL DEF RegSpec

(* However many requests and retries race for it, the proof one mail brought
   is spent once (auth/threepid, redeem_claim and redeem_validated). *)
THEOREM ProofsAreSpentOnce == RegSpec => []ProofOnce
<1>1. RegInv => ProofOnce
  BY Zenon DEF RegInv, AddressesInv, ProofOnce
<1> QED
  BY <1>1, RegStart, RegKeeps, PTL DEF RegSpec

(* Tokens and verified addresses together: neither is spent beyond its limit,
   whoever races for it (registration_tokens/mod.rs, auth/threepid). *)
THEOREM SpendingIsBounded == RegSpec => []SpentWithinLimits
<1>1. UsesWithinLimit /\ ProofOnce => SpentWithinLimits
  BY Zenon DEF SpentWithinLimits
<1> QED
  BY <1>1, TokensAreBounded, ProofsAreSpentOnce, PTL

-----------------------------------------------------------------------------
(* Attempt limits.                                                         *)

BucketType == [tokens : Nat, last : Nat]

LimitTypes ==
    /\ buckets \in [LKeys -> BucketType \cup {NoBucket}]
    /\ ticks \in Nat
    /\ flying \in [LKeys -> Nat] /\ wrong \in [LKeys -> Nat]
    /\ opening \in [LKeys -> Nat] /\ birth \in [LKeys -> Nat]

\* What is in flight is a whole number of attempts.
WholeAttempts == \A k \in LKeys : \E n \in Nat : flying[k] = n * Cost

\* The ledger of one key: what counted, what is in flight and what the bucket
\* still holds is at most what it opened with and has been credited.
Ledger(k) ==
    /\ birth[k] <= ticks
    /\ wrong[k] + flying[k] <= opening[k] + (ticks - birth[k])
    /\ buckets[k] # NoBucket =>
         /\ buckets[k].last <= ticks /\ birth[k] <= buckets[k].last
         /\ buckets[k].tokens <= Full
         /\ wrong[k] + flying[k] + buckets[k].tokens <= opening[k] + (buckets[k].last - birth[k])

LimitsInv == LimitTypes /\ WholeAttempts /\ \A k \in LKeys : Ledger(k)

\* A full bucket pays for an attempt.
LEMMA FullPays == Full \in Nat /\ Full >= Cost
<1> DEFINE f == Burst * Cost
<1>1. Cost \in Nat \ {0} /\ Burst \in Nat \ {0}
  BY LimitsAssumption, Zenon
<1>2. PICK b \in Nat : Burst = b + 1
  BY <1>1
<1>3. Burst * Cost = b * Cost + Cost
  BY <1>1, <1>2
<1>4. b * Cost \in Nat
  BY <1>1, <1>2
<1> QED
  BY <1>1, <1>3, <1>4 DEF Full

\* An attempt in flight has been paid for in full.
LEMMA PaidWhole ==
  ASSUME LimitsInv, NEW k \in LKeys
  PROVE  /\ flying[k] > 0 => flying[k] - Cost \in Nat /\ \E n \in Nat : flying[k] - Cost = n * Cost
         /\ \E n \in Nat : flying[k] + Cost = n * Cost
<1>1. Cost \in Nat \ {0}
  BY LimitsAssumption, Zenon
<1>2. PICK n \in Nat : flying[k] = n * Cost
  BY Zenon DEF LimitsInv, WholeAttempts
<1>3. flying[k] + Cost = (n + 1) * Cost
  BY <1>1, <1>2
<1>4. ASSUME flying[k] > 0 PROVE flying[k] - Cost \in Nat /\ \E m \in Nat : flying[k] - Cost = m * Cost
  <2>1. n # 0
    BY <1>1, <1>2, <1>4
  <2>2. PICK m \in Nat : n = m + 1
    BY <2>1
  <2>3. flying[k] = m * Cost + Cost
    BY <1>1, <1>2, <2>2
  <2>4. m * Cost \in Nat
    BY <1>1
  <2> QED
    BY <1>1, <2>3, <2>4
<1> QED
  BY <1>3, <1>4

LEMMA LimitsStart == LimitsInit => LimitsInv
<1> SUFFICES ASSUME LimitsInit PROVE LimitsInv
  BY Zenon
<1>1. Cost \in Nat
  BY LimitsAssumption, Zenon
<1>2. 0 = 0 * Cost
  BY <1>1
<1>3. WholeAttempts
  BY <1>2, Zenon DEF LimitsInit, WholeAttempts
<1>4. LimitTypes /\ \A k \in LKeys : Ledger(k)
  BY DEF LimitsInit, LimitTypes, Ledger
<1> QED
  BY <1>3, <1>4, Zenon DEF LimitsInv

\* What a known bucket holds after the refill.
LEMMA RefillBounds ==
  ASSUME LimitsInv, NEW k \in LKeys, buckets[k] # NoBucket
  PROVE  /\ buckets[k] \in BucketType
         /\ refill(buckets[k]) \in Nat /\ refill(buckets[k]) <= Full
         /\ refill(buckets[k]) <= buckets[k].tokens + (ticks - buckets[k].last)
<1>1. buckets[k] \in BucketType /\ buckets[k].last <= ticks /\ ticks \in Nat /\ buckets[k].tokens <= Full
  BY Zenon DEF LimitsInv, LimitTypes, Ledger
<1>2. buckets[k].tokens \in Nat /\ buckets[k].last \in Nat /\ Full \in Nat
  BY <1>1, FullPays, Zenon DEF BucketType
<1> QED
  BY <1>1, <1>2 DEF refill

LEMMA LimitsStep == LimitsInv /\ [LimitsNext]_limitVars => LimitsInv'
<1> SUFFICES ASSUME LimitsInv, [LimitsNext]_limitVars PROVE LimitsInv'
  BY Zenon
<1>t. LimitTypes /\ WholeAttempts /\ \A k \in LKeys : Ledger(k)
  BY Zenon DEF LimitsInv
<1>c. Cost \in Nat \ {0} /\ Full \in Nat /\ Full >= Cost
  BY FullPays, LimitsAssumption, Zenon
<1>n. \A b \in BucketType : b # NoBucket
  BY LimitsAssumption, Zenon DEF BucketType
<1>1. ASSUME NEW k \in LKeys, CheckKnown(k) PROVE LimitsInv'
  <2> DEFINE b == buckets[k]  r == refill(b)  new == [tokens |-> r - Cost, last |-> ticks]
  <2>1. b \in BucketType /\ r \in Nat /\ r <= Full /\ r <= b.tokens + (ticks - b.last)
    BY <1>1, RefillBounds, Zenon DEF CheckKnown
  <2>2. /\ r >= Cost
        /\ buckets' = [buckets EXCEPT ![k] = new]
        /\ flying' = [flying EXCEPT ![k] = @ + Cost]
        /\ UNCHANGED <<ticks, wrong, opening, birth>>
    BY <1>1, Zenon DEF CheckKnown, debit
  <2>3. new \in BucketType /\ new.tokens = r - Cost /\ new.last = ticks
    BY <1>t, <1>c, <2>1, <2>2 DEF BucketType, LimitTypes
  <2> HIDE DEF r, new, b
  <2>4. LimitTypes'
    BY <1>t, <1>c, <2>2, <2>3 DEF LimitTypes
  <2>5. WholeAttempts'
    BY <1>t, <2>2, PaidWhole, Zenon DEF LimitTypes, WholeAttempts
  <2>6. ASSUME NEW j \in LKeys PROVE Ledger(j)'
    <3>1. CASE j = k
      <4>1. buckets'[k] = new /\ flying'[k] = flying[k] + Cost
        BY <1>t, <2>2, Zenon DEF LimitTypes
      <4>2. /\ b.last <= ticks /\ birth[k] <= b.last
            /\ wrong[k] + flying[k] + b.tokens <= opening[k] + (b.last - birth[k])
        BY <1>t, <1>1, Zenon DEF Ledger, CheckKnown, b
      <4>3. /\ b.last \in Nat /\ b.tokens \in Nat /\ birth[k] \in Nat /\ wrong[k] \in Nat
            /\ flying[k] \in Nat /\ opening[k] \in Nat /\ ticks \in Nat
        BY <1>t, <2>1, Zenon DEF LimitTypes, BucketType
      <4> QED
        BY <3>1, <4>1, <4>2, <4>3, <2>1, <2>2, <2>3, <1>c DEF Ledger
    <3>2. CASE j # k
      BY <3>2, <1>t, <2>2, Zenon DEF LimitTypes, Ledger
    <3> QED
      BY <3>1, <3>2, Zenon
  <2> QED
    BY <2>4, <2>5, <2>6, Zenon DEF LimitsInv
<1>2. ASSUME NEW k \in LKeys, CheckNew(k) PROVE LimitsInv'
  <2> DEFINE new == [tokens |-> Full - Cost, last |-> ticks]
  <2>1. PICK gone \in SUBSET Buckets :
          buckets' = [j \in LKeys |-> IF j = k THEN new ELSE IF j \in gone THEN NoBucket ELSE buckets[j]]
    BY <1>2, ZenonT(30) DEF CheckNew
  <2>2. /\ flying' = [flying EXCEPT ![k] = @ + Cost]
        /\ wrong' = [wrong EXCEPT ![k] = 0]
        /\ opening' = [opening EXCEPT ![k] = Full + flying[k]]
        /\ birth' = [birth EXCEPT ![k] = ticks] /\ UNCHANGED ticks
    BY <1>2, Zenon DEF CheckNew
  <2>3. new \in BucketType /\ new.tokens = Full - Cost /\ new.last = ticks
    BY <1>t, <1>c DEF BucketType, LimitTypes
  <2> HIDE DEF new
  <2>4. LimitTypes'
    BY <1>t, <1>c, <2>1, <2>2, <2>3 DEF LimitTypes
  <2>5. WholeAttempts'
    BY <1>t, <2>2, PaidWhole, Zenon DEF LimitTypes, WholeAttempts
  <2>6. ASSUME NEW j \in LKeys PROVE Ledger(j)'
    <3>1. CASE j = k
      BY <3>1, <1>t, <1>c, <2>1, <2>2, <2>3 DEF LimitTypes, Ledger
    <3>2. CASE j # k
      <4>1. buckets'[j] \in {buckets[j], NoBucket}
        BY <3>2, <2>1, Zenon
      <4> QED
        BY <3>2, <4>1, <1>t, <2>2, Zenon DEF LimitTypes, Ledger
    <3> QED
      BY <3>1, <3>2, Zenon
  <2> QED
    BY <2>4, <2>5, <2>6, Zenon DEF LimitsInv
<1>3. ASSUME NEW k \in LKeys, failed(k) PROVE LimitsInv'
  <2>1. /\ flying[k] > 0 /\ flying' = [flying EXCEPT ![k] = @ - Cost]
        /\ wrong' = [wrong EXCEPT ![k] = @ + Cost] /\ UNCHANGED <<buckets, ticks, opening, birth>>
    BY <1>3, Zenon DEF failed
  <2>2. flying[k] - Cost \in Nat
    BY <2>1, PaidWhole, Zenon
  <2>3. LimitTypes'
    BY <1>t, <1>c, <2>1, <2>2 DEF LimitTypes
  <2>4. WholeAttempts'
    BY <1>t, <2>1, PaidWhole, Zenon DEF LimitTypes, WholeAttempts
  <2>5. ASSUME NEW j \in LKeys PROVE Ledger(j)'
    BY <1>t, <1>c, <2>1, <2>2 DEF LimitTypes, Ledger, BucketType
  <2> QED
    BY <2>3, <2>4, <2>5, Zenon DEF LimitsInv
<1>4. ASSUME NEW k \in LKeys, refund(k) PROVE LimitsInv'
  <2>1. /\ flying[k] > 0 /\ flying' = [flying EXCEPT ![k] = @ - Cost]
        /\ UNCHANGED <<ticks, wrong, opening, birth>>
    BY <1>4, Zenon DEF refund
  <2>2. flying[k] - Cost \in Nat
    BY <2>1, PaidWhole, Zenon
  <2>3. WholeAttempts'
    BY <1>t, <2>1, PaidWhole, Zenon DEF LimitTypes, WholeAttempts
  <2>4. CASE buckets[k] = NoBucket
    <3>1. buckets' = buckets
      BY <1>4, <2>4, Zenon DEF refund
    <3>2. LimitTypes'
      BY <1>t, <1>c, <2>1, <2>2, <3>1, Zenon DEF LimitTypes
    <3>3. ASSUME NEW j \in LKeys PROVE Ledger(j)'
      BY <1>t, <1>c, <2>1, <2>2, <2>4, <3>1 DEF LimitTypes, Ledger, BucketType
    <3> QED
      BY <2>3, <3>2, <3>3, Zenon DEF LimitsInv
  <2>5. CASE buckets[k] # NoBucket
    <3> DEFINE b == buckets[k]
               new == [b EXCEPT !.tokens = IF @ + Cost > Full THEN Full ELSE @ + Cost]
    <3>1. buckets' = [buckets EXCEPT ![k] = new]
      BY <1>4, <2>5, Zenon DEF refund
    <3>2. b \in BucketType /\ b.tokens \in Nat /\ b.last \in Nat
      BY <1>t, <2>5, Zenon DEF LimitTypes, BucketType
    <3>3. new \in BucketType /\ new.last = b.last /\ new.tokens <= Full /\ new.tokens <= b.tokens + Cost
      BY <3>2, <1>c DEF BucketType
    <3>4. new.tokens \in Nat
      BY <3>3, Zenon DEF BucketType
    <3>5. buckets'[k] = new /\ \A j \in LKeys \ {k} : buckets'[j] = buckets[j]
      BY <3>1, <1>t, Zenon DEF LimitTypes
    <3> HIDE DEF new
    <3>6. LimitTypes'
      BY <1>t, <1>c, <2>1, <2>2, <3>1, <3>3, Zenon DEF LimitTypes
    <3>7. ASSUME NEW j \in LKeys PROVE Ledger(j)'
      <4>1. CASE j = k
        BY <4>1, <1>t, <1>c, <2>1, <2>2, <2>5, <3>2, <3>3, <3>4, <3>5 DEF LimitTypes, Ledger
      <4>2. CASE j # k
        BY <4>2, <1>t, <2>1, <3>5, Zenon DEF LimitTypes, Ledger
      <4> QED
        BY <4>1, <4>2, Zenon
    <3> QED
      BY <2>3, <3>6, <3>7, Zenon DEF LimitsInv
  <2> QED
    BY <2>4, <2>5, Zenon
<1>5. ASSUME Tick PROVE LimitsInv'
  <2>1. ticks' = ticks + 1 /\ UNCHANGED <<buckets, flying, wrong, opening, birth>>
    BY <1>5, Zenon DEF Tick
  <2> QED
    BY <1>t, <2>1 DEF LimitsInv, LimitTypes, WholeAttempts, Ledger, BucketType
<1>6. ASSUME UNCHANGED limitVars PROVE LimitsInv'
  BY <1>t, <1>6, Zenon DEF limitVars, LimitsInv, LimitTypes, WholeAttempts, Ledger, Full
<1> QED
  BY <1>1, <1>2, <1>3, <1>4, <1>5, <1>6, Zenon DEF LimitsNext

(* Concurrent attempts on one account, however many started before the
   first of them failed, with refunds of attempts that did not count and
   evictions of buckets (ratelimit.rs, attempts.rs): the ones that counted
   never exceed what the bucket opened with and has accrued since. *)
THEOREM GuessesAreBounded == LimitsSpec => []GuessesBounded
<1>1. LimitsInv => GuessesBounded
  BY DEF LimitsInv, LimitTypes, Ledger, GuessesBounded
<1> QED
  BY <1>1, LimitsStart, LimitsStep, PTL DEF LimitsSpec

=============================================================================
