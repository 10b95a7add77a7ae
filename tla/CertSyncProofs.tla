-------------------------- MODULE CertSyncProofs --------------------------
(***************************************************************************)
(* ServedIsTrusted and CAStays of CertSync for any number of replicas,     *)
(* webhooks, failures and re-installations.  Neither is inductive: that    *)
(* two serving replicas have the same certificate follows from both having *)
(* the Secret's, which is written once, and that a CABundle is theirs, and *)
(* patched only with what it has, from its being the Secret's.             *)
(***************************************************************************)
EXTENDS CertSync, TLAPS

Holding == {"write", "hooks", "patch", "serving"}
Written == {"hooks", "patch", "serving"}

\* What replica r holds, given the Secret: past Create or Get it is the
\* Secret's certificate.
Holds(r) ==
    /\ pc[r] = "create" => cert[r] # None
    /\ pc[r] \in Holding => secret # None /\ cert[r] = secret
    /\ pc[r] \in Written => certDir[r] = secret

Agreement ==
    /\ TypeOK
    /\ \A r \in Replica : Holds(r)
    /\ \A h \in Hook : caBundle[h] \in {None, secret}

\* SyncCert starts without a Secret, a CA or a certificate in hand.
LEMMA InitAgreement == Init => Agreement
BY DEF Init, Agreement, TypeOK, Holds, Holding, Written, PCs, None

\* Every step of a replica, every failure and every re-installation keeps what
\* the replicas hold in agreement with the Secret.
LEMMA StepAgreement == Agreement /\ [Next]_vars => Agreement'
<1> SUFFICES ASSUME Agreement, [Next]_vars PROVE Agreement'
    OBVIOUS
<1> USE DEF Agreement, TypeOK, Holds, Holding, Written, PCs, None, Goto
<1>1. ASSUME NEW r \in Replica, GetSecret(r) PROVE Agreement'
    BY <1>1 DEF GetSecret, GenerateCerts
<1>2. ASSUME NEW r \in Replica, CreateSecret(r) PROVE Agreement'
    <2>1. CASE secret = None
        <3>1. secret' = cert[r] /\ pc' = [pc EXCEPT ![r] = "write"] /\ cert[r] # None
            BY <1>2, <2>1 DEF CreateSecret
        <3>2. UNCHANGED <<caBundle, made, cert, certDir, empty, tries, failures, installs>>
            BY <1>2 DEF CreateSecret
        <3>3. \A h \in Hook : caBundle[h] = None
            BY <2>1
        <3>4. \A q \in Replica : pc[q] \notin Holding
            BY <2>1
        <3> QED BY <3>1, <3>2, <3>3, <3>4
    <2>2. CASE secret # None
        BY <1>2, <2>2 DEF CreateSecret
    <2> QED BY <2>1, <2>2
<1>3. ASSUME NEW r \in Replica, ReadWinner(r) PROVE Agreement'
    BY <1>3 DEF ReadWinner
<1>4. ASSUME NEW r \in Replica, WriteFiles(r) PROVE Agreement'
    BY <1>4 DEF WriteFiles
<1>5. ASSUME NEW r \in Replica, GetWebhook(r) PROVE Agreement'
    BY <1>5 DEF GetWebhook
<1>6. ASSUME NEW r \in Replica, PatchWebhook(r) PROVE Agreement'
    BY <1>6 DEF PatchWebhook
<1>7. ASSUME NEW r \in Replica, RetryPatch(r) PROVE Agreement'
    BY <1>7 DEF RetryPatch
<1>8. ASSUME NEW r \in Replica, Fail(r) PROVE Agreement'
    BY <1>8 DEF Fail
<1>9. ASSUME NEW r \in Replica, Restart(r) PROVE Agreement'
    BY <1>9 DEF Restart
<1>10. CASE Reinstall
    BY <1>10 DEF Reinstall
<1>11. CASE UNCHANGED vars
    BY <1>11 DEF vars
<1> QED
    BY <1>1, <1>2, <1>3, <1>4, <1>5, <1>6, <1>7, <1>8, <1>9, <1>10, <1>11
    DEF Next, SyncCert, Serving

\* Whatever the interleaving of the replicas and wherever they die, a replica
\* that serves presents the certificate that the webhooks trust.
THEOREM ServedTrusted == Spec => []ServedIsTrusted
<1>1. Agreement => ServedIsTrusted
    BY DEF Agreement, Holds, Holding, Written, ServedIsTrusted, None
<1> QED
    BY InitAgreement, StepAgreement, <1>1, PTL DEF Spec

\* The patch of PatchWebhook names the webhooks that were without a CA when the
\* replica read them, and is sent without a resource version; still no replica
\* ever replaces the CA another one has put there.
THEOREM CANeverReplaced == Spec => CAStays
<1> DEFINE Stays ==
      installs' = installs =>
          \A h \in Hook : caBundle[h] # None => caBundle'[h] = caBundle[h]
<1>1. Agreement /\ [Next]_vars => [Stays]_vars
    <2> SUFFICES ASSUME Agreement, Next, installs' = installs,
                        NEW h \in Hook, caBundle[h] # None
                 PROVE  caBundle'[h] = caBundle[h]
        OBVIOUS
    <2>1. ASSUME NEW r \in Replica, PatchWebhook(r) PROVE caBundle'[h] = caBundle[h]
        <3>1. cert[r] = secret /\ caBundle[h] = secret
            BY <2>1 DEF PatchWebhook, Agreement, Holds, Holding
        <3> QED BY <2>1, <3>1 DEF PatchWebhook
    <2>2. CASE Reinstall
        <3>1. installs' = installs + 1 /\ installs \in Nat
            BY <2>2 DEF Reinstall, Agreement, TypeOK
        <3> QED BY <3>1
    <2>3. CASE \E r \in Replica : RetryPatch(r) \/ Fail(r) \/ Restart(r)
        BY <2>3 DEF RetryPatch, Fail, Restart
    <2>4. CASE \E r \in Replica : SyncCert(r)
        BY <2>1, <2>4
           DEF SyncCert, GetSecret, CreateSecret, ReadWinner, WriteFiles, GetWebhook
    <2>5. CASE Serving
        BY <2>5 DEF Serving, vars
    <2> QED BY <2>2, <2>3, <2>4, <2>5 DEF Next
<1>2. CAStays <=> [][Stays]_vars
    BY DEF CAStays
<1> HIDE DEF Stays
<1> QED
    BY InitAgreement, StepAgreement, <1>1, <1>2, PTL DEF Spec
===========================================================================
