--------------------------- MODULE StsCredential ---------------------------
(***************************************************************************)
(* The ram_role_sts credential (internal/controller/credential.go): the    *)
(* Secret of the token is read at most every five minutes, and the last    *)
(* credential is used on when reading it fails.  The two reconcilers share *)
(* one stsTokenCredential, whose fields no lock protects: each read and    *)
(* write of a field is a step.                                             *)
(*                                                                         *)
(* A token is named by the time it expires at; 0 is none: the nil session  *)
(* credential, the zero expiration.                                        *)
(***************************************************************************)
EXTENDS Naturals

CONSTANTS
    Caller,       \* the goroutines that call GetCredential
    Refresh,      \* age at which a credential is read again (5 minutes)
    Lifetime,     \* life of a token
    MaxTime,      \* bound on the clock
    MaxFailures   \* bound on failing updates

VARIABLES
    now,
    secret,                \* the token in the Secret
    sessionCredential, credentialExpiration, lastUpdate,
    pc,                    \* of each caller
    began,                 \* when its call began
    token,                 \* what updateCredential read
    result,                \* the fields GetCredential has read so far
    failures

shared == <<sessionCredential, credentialExpiration, lastUpdate>>
vars == <<now, secret, shared, pc, began, token, result, failures>>

Field == {"accessKeyId", "accessKeySecret", "securityToken"}
NoResult == [f \in Field |-> 0]

Init ==
    /\ now = 1
    /\ secret = 1 + Lifetime
    /\ sessionCredential = 0 /\ credentialExpiration = 0 /\ lastUpdate = 0
    /\ pc = [c \in Caller |-> "idle"]
    /\ began = [c \in Caller |-> 0]
    /\ token = [c \in Caller |-> 0]
    /\ result = [c \in Caller |-> NoResult]
    /\ failures = 0

Goto(c, label) == pc' = [pc EXCEPT ![c] = label]

\* A session credential that is there stays, so one look at it will do.
Call(c) ==
    /\ pc[c] \in {"idle", "returned", "error"}
    /\ began' = [began EXCEPT ![c] = now]
    /\ result' = [result EXCEPT ![c] = NoResult]
    /\ Goto(c, IF sessionCredential = 0 THEN "get" ELSE "expired?")
    /\ UNCHANGED <<now, secret, shared, token, failures>>

\* needUpdateCredential, two reads.
needUpdateCredential(c) ==
    /\ \/ pc[c] = "expired?" /\ Goto(c, IF credentialExpiration < now THEN "get" ELSE "old?")
       \/ pc[c] = "old?" /\ Goto(c, IF lastUpdate + Refresh < now THEN "get" ELSE "accessKeyId")
    /\ UNCHANGED <<now, secret, shared, began, token, result, failures>>

\* updateCredential: read and decode the Secret, then set the three fields.
GetSecret(c) ==
    /\ pc[c] = "get"
    /\ token' = [token EXCEPT ![c] = secret]
    /\ Goto(c, "expiration")
    /\ UNCHANGED <<now, secret, shared, began, result, failures>>

SetExpiration(c) ==
    /\ pc[c] = "expiration"
    /\ credentialExpiration' = token[c]
    /\ Goto(c, "session")
    /\ UNCHANGED <<now, secret, sessionCredential, lastUpdate, began, token, result, failures>>

SetSession(c) ==
    /\ pc[c] = "session"
    /\ sessionCredential' = token[c]
    /\ Goto(c, "update")
    /\ UNCHANGED <<now, secret, credentialExpiration, lastUpdate, began, token, result, failures>>

SetLastUpdate(c) ==
    /\ pc[c] = "update"
    /\ lastUpdate' = now
    /\ Goto(c, "accessKeyId")
    /\ UNCHANGED <<now, secret, sessionCredential, credentialExpiration, began, token, result,
                   failures>>

\* The update fails before it sets a field: the last credential is used on
\* while credentialExpiration is in the future.
UpdateFails(c) ==
    /\ pc[c] = "get"
    /\ failures < MaxFailures
    /\ failures' = failures + 1
    /\ Goto(c, IF credentialExpiration > now THEN "accessKeyId" ELSE "error")
    /\ UNCHANGED <<now, secret, shared, began, token, result>>

\* The result is put together from three reads of the session credential.
After == [accessKeyId     |-> "accessKeySecret",
          accessKeySecret |-> "securityToken",
          securityToken   |-> "returned"]

ReadField(c, f) ==
    /\ pc[c] = f
    /\ result' = [result EXCEPT ![c][f] = sessionCredential]
    /\ Goto(c, IF sessionCredential = 0 THEN "panic" ELSE After[f])
    /\ UNCHANGED <<now, secret, shared, began, token, failures>>

\* The provider replaces the token from time to time.
Rotate ==
    /\ now <= MaxTime
    /\ now + Lifetime > secret
    /\ secret' = now + Lifetime
    /\ UNCHANGED <<now, shared, pc, began, token, result, failures>>

Tick ==
    /\ now < MaxTime
    /\ now' = now + 1
    /\ UNCHANGED <<secret, shared, pc, began, token, result, failures>>

GetCredential(c) ==
    \/ Call(c) \/ needUpdateCredential(c) \/ GetSecret(c) \/ UpdateFails(c)
    \/ SetExpiration(c) \/ SetSession(c) \/ SetLastUpdate(c)
    \/ \E f \in Field : ReadField(c, f)

Next == Rotate \/ Tick \/ \E c \in Caller : GetCredential(c)

Spec == Init /\ [][Next]_vars

---------------------------------------------------------------------------
\* What GetCredential returns is one token, read whole, that had not expired when
\* the call began: "credential still valid" (credential.go) also when the update
\* failed.  (The code does not look at the expiration of what it reads from the
\* Secret; a token that is past it there is returned, and not held against it.)
ValidCredential ==
    \A c \in Caller :
        /\ pc[c] # "panic"
        /\ pc[c] = "returned" =>
             /\ \A f \in Field : result[c][f] = result[c].accessKeyId
             /\ result[c].accessKeyId >= began[c] \/ result[c].accessKeyId = secret
===========================================================================
