----------------------------- MODULE CertSync -----------------------------
(***************************************************************************)
(* The certificate of the pod webhook (internal/cert/webhook.go): every    *)
(* controller replica runs SyncCert before it serves                       *)
(* (cmd/controller/main.go), they agree on one certificate through a       *)
(* Secret, and put its CA in the MutatingWebhookConfiguration.             *)
(*                                                                         *)
(* A certificate, with its key and CA, is a number: a fresh one for each   *)
(* call of GenerateCerts.                                                  *)
(***************************************************************************)
EXTENDS Naturals

CONSTANTS
    Replica,      \* replicas of the controller
    Hook,         \* webhooks of the configuration
    MaxFailures,  \* bound on failing API calls, file writes and deaths
    MaxInstalls   \* bound on re-installations

ASSUME BoundsAssumption == MaxFailures \in Nat /\ MaxInstalls \in Nat

None == 0             \* no certificate
PatchSteps == 3       \* the steps of the backoff of the patch

VARIABLES
    secret,    \* the certificate in the Secret; None: there is no Secret
    caBundle,  \* the CA of each webhook; None: empty
    made,      \* certificates generated so far
    pc,        \* where SyncCert is in each replica
    cert,      \* the certificate SyncCert holds
    certDir,   \* the certificate in the files of the replica
    empty,     \* the webhooks the replica read without a CABundle
    tries,     \* patches tried
    failures, installs

vars == <<secret, caBundle, made, pc, cert, certDir, empty, tries, failures, installs>>

PCs == {"get", "create", "read", "write", "hooks", "patch", "serving", "down"}

Init ==
    /\ secret = None
    /\ caBundle = [h \in Hook |-> None]
    /\ made = 0
    /\ pc = [r \in Replica |-> "get"]
    /\ cert = [r \in Replica |-> None]
    /\ certDir = [r \in Replica |-> None]
    /\ empty = [r \in Replica |-> {}]
    /\ tries = [r \in Replica |-> 0]
    /\ failures = 0 /\ installs = 0

Goto(r, label) == pc' = [pc EXCEPT ![r] = label]

\* A server certificate with the CA that signed it, both new.
GenerateCerts == made + 1

\* Mutation: a Secret that exists is taken to mean that its CA is in place.
GetSecretOfSynced(r) ==
    /\ pc[r] = "get"
    /\ cert' = [cert EXCEPT ![r] = IF secret # None THEN secret ELSE made + 1]
    /\ IF secret # None
       THEN /\ certDir' = [certDir EXCEPT ![r] = secret]
            /\ Goto(r, "serving")
            /\ UNCHANGED made
       ELSE made' = made + 1 /\ Goto(r, "create") /\ UNCHANGED certDir
    /\ UNCHANGED <<secret, caBundle, empty, tries, failures, installs>>

\* The first Get: a Secret that exists is used as it is; without one a
\* certificate is generated, only in memory yet.
GetSecret(r) ==
    /\ pc[r] = "get"
    /\ \/ /\ secret # None
          /\ cert' = [cert EXCEPT ![r] = secret]
          /\ Goto(r, "write")
          /\ UNCHANGED made
       \/ /\ secret = None
          /\ made' = GenerateCerts
          /\ cert' = [cert EXCEPT ![r] = GenerateCerts]
          /\ Goto(r, "create")
    /\ UNCHANGED <<secret, caBundle, certDir, empty, tries, failures, installs>>

\* Mutation: a replica that finds the Secret created keeps its own certificate.
CreateSecretOrKeepOwn(r) ==
    /\ pc[r] = "create"
    /\ secret' = IF secret = None THEN cert[r] ELSE secret
    /\ Goto(r, "write")
    /\ UNCHANGED <<caBundle, made, cert, certDir, empty, tries, failures, installs>>

\* Create decides which replica's certificate it is: AlreadyExists sends the
\* others to read the winner's.
CreateSecret(r) ==
    /\ pc[r] = "create"
    /\ IF secret = None
       THEN secret' = cert[r] /\ Goto(r, "write")
       ELSE Goto(r, "read") /\ UNCHANGED secret
    /\ UNCHANGED <<caBundle, made, cert, certDir, empty, tries, failures, installs>>

ReadWinner(r) ==
    /\ pc[r] = "read"
    /\ secret # None
    /\ cert' = [cert EXCEPT ![r] = secret]
    /\ Goto(r, "write")
    /\ UNCHANGED <<secret, caBundle, made, certDir, empty, tries, failures, installs>>

WriteFiles(r) ==
    /\ pc[r] = "write"
    /\ certDir' = [certDir EXCEPT ![r] = cert[r]]
    /\ Goto(r, "hooks")
    /\ UNCHANGED <<secret, caBundle, made, cert, empty, tries, failures, installs>>

\* The configuration is read once; a webhook with a CABundle is left alone.
GetWebhook(r) ==
    /\ pc[r] = "hooks"
    /\ LET without == {h \in Hook : caBundle[h] = None} IN
       /\ empty' = [empty EXCEPT ![r] = without]
       /\ Goto(r, IF without = {} THEN "serving" ELSE "patch")
    /\ tries' = [tries EXCEPT ![r] = 0]
    /\ UNCHANGED <<secret, caBundle, made, cert, certDir, failures, installs>>

\* The patch carries the difference to what was read, and no resource version.
PatchWebhook(r) ==
    /\ pc[r] = "patch"
    /\ caBundle' = [h \in Hook |-> IF h \in empty[r] THEN cert[r] ELSE caBundle[h]]
    /\ Goto(r, "serving")
    /\ UNCHANGED <<secret, made, cert, certDir, empty, tries, failures, installs>>

\* A failed patch is tried again, with the same difference, until the backoff
\* has no step left.
RetryPatch(r) ==
    /\ pc[r] = "patch"
    /\ failures < MaxFailures
    /\ failures' = failures + 1
    /\ tries' = [tries EXCEPT ![r] = @ + 1]
    /\ Goto(r, IF tries[r] + 1 < PatchSteps THEN "patch" ELSE "down")
    /\ UNCHANGED <<secret, caBundle, made, cert, certDir, empty, installs>>

\* Any other error, and the Secret gone or invalid, ends the process: main
\* panics.  It may also be killed.  Its memory and files go with it.
Fail(r) ==
    /\ pc[r] # "down"
    /\ failures < MaxFailures
    /\ failures' = failures + 1
    /\ Goto(r, "down")
    /\ UNCHANGED <<secret, caBundle, made, cert, certDir, empty, tries, installs>>

Restart(r) ==
    /\ pc[r] = "down"
    /\ Goto(r, "get")
    /\ cert' = [cert EXCEPT ![r] = None]
    /\ certDir' = [certDir EXCEPT ![r] = None]
    /\ UNCHANGED <<secret, caBundle, made, empty, tries, failures, installs>>

\* The chart is removed and installed again: its webhooks are new, the Secret,
\* which SyncCert created, is still there.
Reinstall ==
    /\ installs < MaxInstalls
    /\ installs' = installs + 1
    /\ caBundle' = [h \in Hook |-> None]
    /\ pc' = [r \in Replica |-> "down"]
    /\ UNCHANGED <<secret, made, cert, certDir, empty, tries, failures>>

SyncCert(r) ==
    \/ GetSecret(r) \/ CreateSecret(r) \/ ReadWinner(r) \/ WriteFiles(r)
    \/ GetWebhook(r) \/ PatchWebhook(r)

Serving == /\ \A r \in Replica : pc[r] = "serving"
           /\ UNCHANGED vars

Next == \/ \E r \in Replica : SyncCert(r) \/ RetryPatch(r) \/ Fail(r) \/ Restart(r)
        \/ Reinstall
        \/ Serving

Spec == Init /\ [][Next]_vars

\* The process runs, and the Deployment restarts it when it ends.
FairSpec == Spec /\ \A r \in Replica : WF_vars(SyncCert(r)) /\ WF_vars(Restart(r))

---------------------------------------------------------------------------
\* The values the Secret, the webhooks and each replica range over.
TypeOK ==
    /\ secret \in Nat /\ made \in Nat
    /\ caBundle \in [Hook -> Nat]
    /\ pc \in [Replica -> PCs]
    /\ cert \in [Replica -> Nat] /\ certDir \in [Replica -> Nat]
    /\ empty \in [Replica -> SUBSET Hook]
    /\ tries \in [Replica -> Nat]
    /\ failures \in Nat /\ installs \in Nat

\* A replica that serves presents a certificate that every CABundle in force
\* vouches for: replicas that start together, die between any two steps of
\* SyncCert or overlap with a re-installation never disagree on the CA.
ServedIsTrusted ==
    \A r \in Replica : pc[r] = "serving" =>
        /\ certDir[r] # None
        /\ \A h \in Hook : caBundle[h] \in {None, certDir[r]}

\* A CA in place stays until the chart is removed: a patch that was put together
\* from an old read, and may be tried again while another replica patches, never
\* replaces it by another.
CAStays ==
    [][ installs' = installs =>
          \A h \in Hook : caBundle[h] # None => caBundle'[h] = caBundle[h] ]_vars

\* When failures and re-installations end, every replica serves and every
\* webhook trusts it: nobody is left waiting for a patch another replica was
\* to make.
EventuallyTrusted ==
    <>[](\A r \in Replica : pc[r] = "serving" /\ \A h \in Hook : caBundle[h] = certDir[r])
===========================================================================
