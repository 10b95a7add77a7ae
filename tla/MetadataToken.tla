--------------------------- MODULE MetadataToken ---------------------------
(***************************************************************************)
(* The metadata client (internal/utils/metadata.go): a request carries a   *)
(* token that is cached for half its life; a request the server answers    *)
(* with 401 is made once more with a new token; each HTTP call is tried up *)
(* to four times.  Calls are made one after the other, as Run and main do; *)
(* module NodeAgent makes them.                                            *)
(*                                                                         *)
(* The server renews its tokens in epochs: a token is good in the epoch it *)
(* was issued in.  0 is no token.                                          *)
(***************************************************************************)
EXTENDS Naturals

CONSTANT MaxResets  \* bound on the server's epochs

ASSUME ResetsAssumption == MaxResets \in Nat

Steps == 4          \* the steps of the backoff in withRetry

VARIABLES
    epoch,      \* of the server
    tokenCache,
    token,      \* in the hands of the call
    mpc,        \* where the call is
    tries,      \* of the HTTP call
    skipRetry,
    resets      \* epochs that began during the call

metaVars == <<epoch, tokenCache, token, mpc, tries, skipRetry, resets>>

NoCall ==
    /\ mpc' = "idle" /\ token' = 0 /\ tries' = 0
    /\ skipRetry' = FALSE /\ resets' = 0

MetaInit ==
    /\ epoch = 1 /\ tokenCache = 0 /\ token = 0
    /\ mpc = "idle" /\ tries = 0 /\ skipRetry = FALSE /\ resets = 0

BeginCall ==
    /\ mpc = "idle"
    /\ mpc' = "cache"
    /\ UNCHANGED <<epoch, tokenCache, token, tries, skipRetry, resets>>

EndCall == NoCall /\ UNCHANGED <<epoch, tokenCache>>

\* The cache is a variable of the process.
ForgetToken == NoCall /\ tokenCache' = 0 /\ UNCHANGED epoch

LookupToken ==
    /\ mpc = "cache"
    /\ token' = tokenCache
    /\ mpc' = IF tokenCache = 0 THEN "token" ELSE "request"
    /\ tries' = 0
    /\ UNCHANGED <<epoch, tokenCache, skipRetry, resets>>

\* The PUT for a new token, which is cached.
FetchToken ==
    /\ mpc = "token"
    /\ token' = epoch
    /\ tokenCache' = epoch
    /\ mpc' = "request"
    /\ tries' = 0
    /\ UNCHANGED <<epoch, skipRetry, resets>>

RequestOK ==
    /\ mpc = "request"
    /\ token = epoch
    /\ mpc' = "ok"
    /\ UNCHANGED <<epoch, tokenCache, token, tries, skipRetry, resets>>

\* Mutation: the token the server refused stays in the cache.
UnauthorizedKeepsToken ==
    /\ mpc = "request"
    /\ token # epoch
    /\ mpc' = IF skipRetry THEN "failed" ELSE "cache"
    /\ skipRetry' = TRUE
    /\ UNCHANGED <<epoch, tokenCache, token, tries, resets>>

\* 401 is not tried again by withRetry; getWithToken drops the token and starts
\* over, once.
Unauthorized ==
    /\ mpc = "request"
    /\ token # epoch
    /\ IF skipRetry
       THEN mpc' = "failed" /\ UNCHANGED <<tokenCache, skipRetry>>
       ELSE mpc' = "cache" /\ skipRetry' = TRUE /\ tokenCache' = 0
    /\ UNCHANGED <<epoch, token, tries, resets>>

\* withRetry: a transport error, 429 or 5xx, of either HTTP call.
TransientError ==
    /\ mpc \in {"token", "request"}
    /\ tries + 1 < Steps
    /\ tries' = tries + 1
    /\ UNCHANGED <<epoch, tokenCache, token, mpc, skipRetry, resets>>

RetriesExhausted ==
    /\ mpc \in {"token", "request"}
    /\ tries + 1 = Steps
    /\ tries' = Steps
    /\ mpc' = "failed"
    /\ UNCHANGED <<epoch, tokenCache, token, skipRetry, resets>>

\* Any other 4xx, or a body that cannot be read, ends the call at once.
Rejected ==
    /\ mpc \in {"token", "request"}
    /\ mpc' = "rejected"
    /\ UNCHANGED <<epoch, tokenCache, token, tries, skipRetry, resets>>

\* The cached token's time is up.
ExpireToken ==
    /\ mpc = "idle"
    /\ tokenCache # 0
    /\ tokenCache' = 0
    /\ UNCHANGED <<epoch, token, mpc, tries, skipRetry, resets>>

\* The server renews its tokens; without a token out nobody would notice.
ResetTokens ==
    /\ epoch <= MaxResets
    /\ tokenCache # 0 \/ token # 0
    /\ epoch' = epoch + 1
    /\ resets' = IF mpc = "idle" THEN resets ELSE resets + 1
    /\ UNCHANGED <<tokenCache, token, mpc, tries, skipRetry>>

getWithToken == LookupToken \/ FetchToken \/ RequestOK \/ Unauthorized

---------------------------------------------------------------------------
\* A call that was not rejected fails for a reason of its own: the server renewed
\* its tokens while the call ran, or one HTTP call met four transient errors.  A
\* token that was stale before the call, however it came to be in the cache,
\* never fails it.
FailsForCause == mpc = "failed" => resets > 0 \/ tries = Steps
===========================================================================
