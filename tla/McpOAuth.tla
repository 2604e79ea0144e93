------------------------------ MODULE McpOAuth ------------------------------
(***************************************************************************)
(* The authorization of one remote MCP server,                             *)
(* apps/api/src/services/mcp-oauth.ts: begin offers a link, the callback   *)
(* redeems its code, and every run that mounts the server first renews a   *)
(* token near its end.  The token endpoint is awaited, and callbacks, runs *)
(* and a revocation go on meanwhile.                                       *)
(*                                                                         *)
(* Abstracted: discovery and registration, which come before begin writes  *)
(* anything; the checks of an endpoint and of an issuer, which refuse; a   *)
(* token to the number of its issue.  The authorization server, external,  *)
(* redeems a code once and for its own verifier, and replaces or keeps a   *)
(* refresh token when it is used.                                          *)
(***************************************************************************)
EXTENDS Naturals, FiniteSets

CONSTANTS Links,        \* authorizations begun
          Exchanges,    \* requests to the token endpoint at one time
          MaxTokens,    \* bound: tokens issued
          Nothing

ASSUME OAuthAssumption == MaxTokens \in Nat /\ Nothing \notin Links

VARIABLES
    pending,    \* mcp_oauth_states: the links whose state may still be taken
    registered, \* the server's row names a client and an endpoint
    verifier,   \* the vault's one slot for it
    token,      \* the vault's access token or none, refresh token or 0, and
                \* the expiry of the first
    exchange,
    \* The authorization server:
    consented,  \* links the operator has approved; the browser may reload
    redeemed,   \* codes it has redeemed
    valid,      \* refresh tokens it still takes
    issued,
    \* For the properties:
    posted,     \* how often each code was sent
    lost,       \* an answer of the server was lost
    granted     \* a code was redeemed and its answer stored since the last
                \* revocation

vault == <<pending, registered, verifier, token>>
server == <<consented, redeemed, valid, issued>>
oauthVars == <<vault, exchange, server, posted, lost, granted>>

NoToken == [access |-> FALSE, number |-> 0, expiry |-> "unknown"]
Open == [at |-> "free", link |-> Nothing, verifier |-> Nothing, number |-> 0]

OAuthInit ==
    /\ pending = {} /\ registered = FALSE /\ verifier = Nothing /\ token = NoToken
    /\ exchange = [e \in Exchanges |-> Open]
    /\ consented = {} /\ redeemed = {} /\ valid = {} /\ issued = 0
    /\ posted = [l \in Links |-> 0]
    /\ lost = FALSE /\ granted = FALSE

\* begin, from the verifier on, and saveOAuthRegistration.
Begin(l) ==
    /\ l \notin pending \cup consented
    /\ pending' = pending \cup {l}
    /\ verifier' = l
    /\ registered' = TRUE
    /\ UNCHANGED <<token, exchange, server, posted, lost, granted>>

\* Ten minutes pass, or the janitor sweeps the state away.
StateLapses(l) ==
    /\ l \in pending
    /\ pending' = pending \ {l}
    /\ UNCHANGED <<registered, verifier, token, exchange, server, posted, lost, granted>>

\* External: the operator approves, and the browser is sent back.
Consent(l) ==
    /\ l \in pending \ consented
    /\ consented' = consented \cup {l}
    /\ UNCHANGED <<vault, exchange, redeemed, valid, issued, posted, lost, granted>>

TakenState_OnSuccess(l) == pending

\* takeState: deleted before anything is awaited.
TakenState(l) == pending \ {l}

\* complete, to the token endpoint; a reloaded page calls it again.
Callback(e, l) ==
    /\ exchange[e].at = "free"
    /\ l \in consented \cap pending
    /\ pending' = TakenState(l)
    /\ IF verifier = Nothing
         THEN UNCHANGED <<exchange, posted>>
         ELSE /\ exchange' = [exchange EXCEPT ![e] = [Open EXCEPT !.at = "posted", !.link = l,
                                                                  !.verifier = verifier]]
              /\ posted' = [posted EXCEPT ![l] = @ + 1]
    /\ UNCHANGED <<registered, verifier, token, server, lost, granted>>

\* refreshIfExpiring, before a run.
Renew(e) ==
    /\ exchange[e].at = "free"
    /\ registered /\ token.access /\ token.number # 0 /\ token.expiry = "near"
    /\ exchange' = [exchange EXCEPT ![e] = [Open EXCEPT !.at = "posted", !.number = token.number]]
    /\ UNCHANGED <<vault, server, posted, lost, granted>>

\* External.
Serves(e, replaces) ==
    /\ exchange[e].at = "posted"
    /\ issued < MaxTokens
    /\ LET x == exchange[e]
           accepts == IF x.link # Nothing THEN x.link \notin redeemed /\ x.verifier = x.link
                      ELSE x.number \in valid
           fresh == IF x.link # Nothing \/ replaces THEN issued + 1 ELSE 0
       IN  /\ exchange' = [exchange EXCEPT ![e].at = IF accepts THEN "granted" ELSE "refused",
                                           ![e].number = IF accepts THEN fresh ELSE @]
           /\ redeemed' = IF x.link # Nothing THEN redeemed \cup {x.link} ELSE redeemed
           /\ valid' = IF ~accepts \/ fresh = 0 THEN valid
                       ELSE (valid \ {x.number}) \cup {fresh}
           /\ issued' = IF accepts THEN issued + 1 ELSE issued
    /\ UNCHANGED <<vault, consented, posted, lost, granted>>

Stored_AccessOnly(number, expiry) ==
    [access |-> TRUE, number |-> IF token.number = 0 THEN number ELSE token.number, expiry |-> expiry]

\* An answer that names no refresh token leaves the one in the vault.
Stored(number, expiry) ==
    [access |-> TRUE, number |-> IF number = 0 THEN token.number ELSE number, expiry |-> expiry]

\* exchange stores the answer, and complete drops the verifier.
Granted(e, expiry) ==
    /\ exchange[e].at = "granted"
    /\ token' = Stored(exchange[e].number, expiry)
    /\ verifier' = IF exchange[e].link # Nothing THEN Nothing ELSE verifier
    /\ exchange' = [exchange EXCEPT ![e] = Open]
    /\ granted' = (granted \/ exchange[e].link # Nothing)
    /\ UNCHANGED <<pending, registered, server, posted, lost>>

\* The caller is told; what the vault holds stays.
Refused(e) ==
    /\ exchange[e].at = "refused"
    /\ exchange' = [exchange EXCEPT ![e] = Open]
    /\ UNCHANGED <<token, pending, registered, verifier, server, posted, lost, granted>>

\* HTTP_TIMEOUT_MS, a dead network or the end of the process.
AnswerIsLost(e) ==
    /\ exchange[e].at # "free"
    /\ exchange' = [exchange EXCEPT ![e] = Open]
    /\ lost' = (lost \/ exchange[e].at = "granted")
    /\ UNCHANGED <<vault, server, posted, granted>>

\* REFRESH_MARGIN_MS; a token of no stated lifetime is left alone.
TokenAges ==
    /\ token.expiry = "far"
    /\ token' = [token EXCEPT !.expiry = "near"]
    /\ UNCHANGED <<pending, registered, verifier, exchange, server, posted, lost, granted>>

Revoke ==
    /\ token' = NoToken /\ verifier' = Nothing /\ registered' = FALSE
    /\ granted' = FALSE
    /\ UNCHANGED <<pending, exchange, server, posted, lost>>

OAuthNext ==
    \/ \E l \in Links : Begin(l) \/ StateLapses(l) \/ Consent(l)
    \/ \E e \in Exchanges, l \in Links : Callback(e, l)
    \/ \E e \in Exchanges : \/ Renew(e) \/ Refused(e) \/ AnswerIsLost(e)
                            \/ \E b \in BOOLEAN : Serves(e, b)
                            \/ \E expiry \in {"unknown", "far"} : Granted(e, expiry)
    \/ TokenAges \/ Revoke

OAuthSpec == OAuthInit /\ [][OAuthNext]_oauthVars

-----------------------------------------------------------------------------
(* Properties *)

\* takeState, "Consume a state, single use": however often the browser comes
\* back, and while an exchange of it is awaited, a code is sent once.
CodeIsSentOnce == \A l \in Links : posted[l] <= 1

\* exchange and refreshIfExpiring: runs that renew one token at once, new
\* authorizations and refusals leave a token the server still takes, unless
\* its answer was lost.
RenewalsLeaveAToken ==
    granted /\ ~lost /\ (\A e \in Exchanges : exchange[e].at = "free") => token.number \in valid

-----------------------------------------------------------------------------
(* What the comments promise and the code does not keep *)

\* revoke: "Forget an authorization entirely".
RevokedStaysForgotten == ~granted => token = NoToken

\* complete, "The PKCE verifier for this flow": each pending link has its own.
EveryLinkHasItsVerifier ==
    [][\A e \in Exchanges, l \in Links :
         exchange[e].link # l /\ exchange'[e].link = l => exchange'[e].verifier = l]_oauthVars
=============================================================================
