---------------------------- MODULE OAuthTokens ----------------------------
(***************************************************************************)
(* The Twitch tokens of a process (identity_oauth): refresh tokens are     *)
(* read from .env when it starts, access tokens are refreshed when they    *)
(* near their expiry, and `authorize` writes a new refresh token to .env   *)
(* after a visit of the browser to the callback server.                    *)
(*                                                                         *)
(* Twitch is external: a refresh may rotate the refresh token, and the     *)
(* answer takes up to Latency ticks (httpx's 30 s) or is lost.  A token a  *)
(* refresh rotated away is only in the memory of the process that did it.  *)
(***************************************************************************)
EXTENDS Integers

CONSTANTS Life,       \* expires_in of an access token
          Margin,     \* TOKEN_MIN_TTL_SECONDS
          Latency,    \* the timeout of a request
          MaxTokens   \* bound: refresh tokens ever issued

\* 300 seconds, and 30 for a request.
ASSUME OAuthAssumption == Life \in Nat /\ Margin \in Nat /\ Latency \in 0..Margin

Role == {"channel", "bot"}
None == 0             \* no refresh token, no access token
Static == Life + 1    \* expires_at is None: the expiry is not known

VARIABLES
    single,    \* TWITCH_SINGLE_ACCOUNT
    legacy,    \* TWITCH_REFRESH_TOKEN in .env
    env,       \* the refresh tokens of the roles in .env
    issued,    \* refresh tokens issued so far: 1..issued
    valid,     \* those Twitch accepts
    proc,      \* "down", "up", "asked" or "answered"
    asking,    \* the role whose refresh is under way
    mine,      \* RoleTokenState.refresh_token
    believed,  \* expires_at - now, Static, or None without an access token
    left,      \* the time the access token really has left
    answer,    \* the answer on its way: a new refresh token, the life left, its age
    spent,     \* history: the tokens a role state of this run exchanged itself
    given,     \* history: the refresh tokens the roles of this run started with
    due,       \* history: the token last authorized for a role
    auth,      \* authorize_role: "idle", "waiting", "exchange" or "validate"
    authRole, authCode, authError, authToken

oauthVars == << single, legacy, env, issued, valid, proc, asking, mine, believed, left,
                answer, spent, given, due, auth, authRole, authCode, authError, authToken >>
twitch == << issued, valid >>
tokens == << mine, believed, left, spent, given >>
files == << single, legacy, env, due >>
authVars == << auth, authRole, authCode, authError, authToken >>

Silence == [token |-> None, life |-> 0, age |-> 0]

OAuthInit ==
    /\ single \in BOOLEAN /\ issued = 2 /\ valid = {1, 2}
    /\ \/ legacy = 1 /\ env = [r \in Role |-> None]
       \/ legacy = None /\ env = [channel |-> 1, bot |-> 2]
    /\ proc = "down" /\ asking = "bot" /\ answer = Silence
    /\ mine = [r \in Role |-> None] /\ given = mine /\ spent = [r \in Role |-> {}]
    /\ believed = [r \in Role |-> None] /\ left = [r \in Role |-> 0]
    /\ due = [r \in Role |-> None]
    /\ auth = "idle" /\ authRole = "channel" /\ authCode = FALSE /\ authError = FALSE
    /\ authToken = None

-----------------------------------------------------------------------------
(* token_refresh, multi_account_provider *)

Or(a, b) == IF a # None THEN a ELSE b

\* resolve_refresh_token: with one account the channel's token serves both roles.
Resolved(r) ==
    IF r = "channel" THEN Or(env["channel"], legacy)
    ELSE IF single THEN Or(Or(env["channel"], legacy), Or(env["bot"], legacy))
    ELSE Or(env["bot"], legacy)

\* is_access_token_fresh: a token whose expiry is not known is fresh for ever.
TokenFresh(r) == believed[r] = Static \/ believed[r] > Margin

\* The provider reads the environment once; a static access token may be set there.
StartProcess(static) ==
    /\ proc = "down" /\ proc' = "up"
    /\ mine' = [r \in Role |-> Resolved(r)] /\ given' = mine'
    /\ believed' = [r \in Role |-> IF static THEN Static ELSE None]
    /\ left' = [r \in Role |-> IF static THEN Life ELSE 0]
    /\ spent' = [r \in Role |-> {}]
    /\ UNCHANGED << files, twitch, asking, answer, authVars >>

\* The process ends, or an exception of get_credentials ends it.
EndProcess ==
    /\ proc # "down" /\ proc' = "down"
    /\ mine' = [r \in Role |-> None] /\ given' = mine'
    /\ believed' = [r \in Role |-> None] /\ left' = [r \in Role |-> 0]
    /\ spent' = [r \in Role |-> {}] /\ answer' = Silence
    /\ UNCHANGED << files, twitch, asking, authVars >>

\* get_credentials without a fresh token: refresh_access_token posts the refresh token,
\* if there is one.
Ask(r) ==
    /\ proc = "up" /\ ~TokenFresh(r) /\ mine[r] # None
    /\ proc' = "asked" /\ asking' = r
    /\ UNCHANGED << files, twitch, tokens, answer, authVars >>

\* Twitch exchanges a valid token, and may put a new one in its place.
Exchanged(rotate) ==
    /\ proc = "asked" /\ mine[asking] \in valid
    /\ rotate => issued < MaxTokens
    /\ IF rotate
       THEN /\ issued' = issued + 1
            /\ valid' = (valid \ {mine[asking]}) \cup {issued'}
       ELSE UNCHANGED twitch
    /\ answer' = [token |-> IF rotate THEN issued' ELSE None, life |-> Life, age |-> 0]
    /\ proc' = "answered"
    /\ UNCHANGED << files, asking, tokens, authVars >>

\* Mutant: the rotated refresh token in the answer is not kept.
Arrive_NotKept(expires) ==
    /\ proc = "answered" /\ proc' = "up"
    /\ mine' = mine
    /\ spent' = [spent EXCEPT ![asking] =
                    IF answer.token # None THEN @ \cup {mine[asking]} ELSE @]
    /\ left' = [left EXCEPT ![asking] = answer.life]
    /\ believed' = [believed EXCEPT ![asking] = IF expires THEN Life ELSE Static]
    /\ answer' = Silence
    /\ UNCHANGED << files, twitch, asking, given, authVars >>

\* The answer arrives: its expiry counts from now; without expires_in it is unknown.
Arrive(expires) ==
    /\ proc = "answered" /\ proc' = "up"
    /\ mine' = [mine EXCEPT ![asking] = Or(answer.token, @)]
    /\ spent' = [spent EXCEPT ![asking] =
                    IF answer.token # None THEN @ \cup {mine[asking]} ELSE @]
    /\ left' = [left EXCEPT ![asking] = answer.life]
    /\ believed' = [believed EXCEPT ![asking] = IF expires THEN Life ELSE Static]
    /\ answer' = Silence
    /\ UNCHANGED << files, twitch, asking, given, authVars >>

\* Another process exchanges a token of the same .env, and Twitch rotates it.
Elsewhere(t) ==
    /\ t \in valid \cap ({env[r] : r \in Role} \cup {legacy})
    /\ valid' = valid \ {t}
    /\ UNCHANGED << files, issued, proc, asking, tokens, answer, authVars >>

Down(n) == IF n > 0 THEN n - 1 ELSE 0

Tick ==
    /\ proc # "down" /\ answer.age < Latency
    /\ believed' = [r \in Role |-> IF believed[r] = Static THEN Static ELSE Down(believed[r])]
    /\ left' = [r \in Role |-> Down(left[r])]
    /\ answer' = IF proc = "answered"
                 THEN [answer EXCEPT !.life = Down(@), !.age = @ + 1] ELSE answer
    /\ UNCHANGED << files, twitch, proc, asking, mine, spent, given, authVars >>

-----------------------------------------------------------------------------
(* bootstrap.authorize_role *)

\* The callback server is started and the browser sent to Twitch.
AuthorizeStart(r) ==
    /\ auth = "idle" /\ auth' = "waiting" /\ authRole' = r
    /\ UNCHANGED << files, twitch, proc, asking, tokens, answer, authCode, authError,
                    authToken >>

\* do_GET, in the server's thread; what comes after the wait is over is not looked at.
Callback(code) ==
    /\ auth = "waiting"
    /\ IF code THEN authCode' = TRUE /\ UNCHANGED authError
       ELSE authError' = TRUE /\ UNCHANGED authCode
    /\ UNCHANGED << files, twitch, proc, asking, tokens, answer, auth, authRole,
                    authToken >>

\* _wait_for_callback: an error goes before a code, whichever came first.
CallbackSeen ==
    /\ auth = "waiting" /\ (authCode \/ authError)
    /\ auth' = IF authError THEN "idle" ELSE "exchange"
    /\ authCode' = FALSE /\ authError' = FALSE
    /\ UNCHANGED << files, twitch, proc, asking, tokens, answer, authRole, authToken >>

\* The time is over, even if a code has just come; or a request fails: the token, if
\* one was issued already, is lost.
AuthorizeFails ==
    /\ auth # "idle" /\ auth' = "idle"
    /\ authCode' = FALSE /\ authError' = FALSE /\ authToken' = None
    /\ UNCHANGED << files, twitch, proc, asking, tokens, answer, authRole >>

\* exchange_code_for_token
ExchangeCode ==
    /\ auth = "exchange" /\ issued < MaxTokens
    /\ issued' = issued + 1 /\ valid' = valid \cup {issued'}
    /\ authToken' = issued' /\ auth' = "validate"
    /\ UNCHANGED << files, proc, asking, tokens, answer, authRole, authCode, authError >>

\* env_updates_for_authorization
Updated(r) == IF r = "channel" /\ single THEN Role ELSE {r}

\* The roles an authorization is meant for: with one account the channel's serves both.
Served(r) == IF ~single THEN {r} ELSE IF r = "channel" THEN Role ELSE {}

\* fetch_token_info answered: .env is rewritten.
SaveAuthorization ==
    /\ auth = "validate" /\ auth' = "idle" /\ authToken' = None
    /\ env' = [r \in Role |-> IF r \in Updated(authRole) THEN authToken ELSE env[r]]
    /\ due' = [r \in Role |-> IF r \in Served(authRole) THEN authToken ELSE due[r]]
    /\ UNCHANGED << single, legacy, twitch, proc, asking, tokens, answer, authRole,
                    authCode, authError >>

-----------------------------------------------------------------------------
OAuthNext ==
    \/ (\E static \in BOOLEAN : StartProcess(static)) \/ EndProcess
    \/ \E r \in Role : Ask(r) \/ AuthorizeStart(r)
    \/ \E yes \in BOOLEAN : Exchanged(yes) \/ Arrive(yes) \/ Callback(yes)
    \/ \E t \in valid : Elsewhere(t)
    \/ Tick \/ CallbackSeen \/ AuthorizeFails \/ ExchangeCode \/ SaveAuthorization

OAuthSpec == OAuthInit /\ [][OAuthNext]_oauthVars

-----------------------------------------------------------------------------
\* The tokens of a process work.  One it takes for fresh by its expiry has not expired
\* at Twitch, though the expiry is counted from the arrival of a late answer
\* (is_access_token_fresh).  The refresh token a role would post next is none that the
\* process had rotated and been answered for - neither in this role nor in the other -
\* except where both roles were given one token, with a single account or the legacy
\* one: there the role that has not refreshed yet holds the token the other rotated
\* away, and this one case is the only one (refresh_access_token, resolve_refresh_token).
\* And what a process started after an authorization reads is the token that brought,
\* whatever was in .env before (env_updates_for_authorization) - with one account, the
\* authorization of the channel.
TokensWork ==
    /\ \A r \in Role : TokenFresh(r) /\ believed[r] # Static => left[r] > 0
    /\ \A r, s \in Role : mine[r] \in spent[s] =>
          /\ r # s /\ given[r] = given[s]
          /\ mine[r] = given[r]
    /\ \A r \in Role : due[r] \in {None, Resolved(r)}
=============================================================================
