--------------------- MODULE DomainCertificatesProofs ---------------------
(***************************************************************************)
(* Custom domains and certificates are safe for every number of hosts,     *)
(* projects, verifications and handshakes, and without the bounds.         *)
(*                                                                         *)
(* Two facts carry the proof.  What a verification has proved was          *)
(* published for its host, so a row with the same challenge was proved     *)
(* too.  And issueMu makes the call between the order and the file the     *)
(* only one that touches back-off, files and the certificate served, and   *)
(* its certificate the newest.                                             *)
(***************************************************************************)
EXTENDS DomainCertificates, TLAPS

\* Under issueMu.
Inside == {"holding", "admitted", "ordering", "answered", "saving", "saved"}
Issued == {"answered", "saving", "saved"}

LockHeld == \A c \in Calls : call[c].step \in Inside <=> issueMu = c

\* A challenge was shown if it is published, proved by a request, or in a verified row.
Proved ==
  /\ \A h \in Hosts : txt[h] \subseteq shown[h]
  /\ \A v \in Verifiers :
       verifier[v].step = "proved" => verifier[v].token \in shown[verifier[v].host]

\* The CA is asked only when a certificate is needed.
OrderNeeded ==
  \A c \in Calls : call[c].step = "ordering" => Needs(c)

\* The certificate under way is the newest; an installed one is in its file.
Newest ==
  /\ \A c \in Calls : call[c].step \in Issued => call[c].certificate = ordered
  /\ \A c \in Calls : call[c].step = "saved" => saved[call[c].host] = call[c].certificate
  /\ \A h \in Hosts : installed[h] <= saved[h] /\ saved[h] <= ordered

\* An order whose host has no verified binding goes no further than its check.
NoOrphan ==
  \A c \in Calls :
    /\ call[c].step = "answered" /\ Authorized(call[c].host) => c \notin orphans
    /\ call[c].step \in {"saving", "saved"} => c \notin orphans

IInv ==
  TypeOK /\ LockHeld /\ Proved /\ VerifiedByChallenge /\ OrderNeeded /\ Newest /\ NoOrphan

LEMMA InitIInv == Init => IInv
PROOF
  <1> SUFFICES ASSUME Init PROVE IInv
    OBVIOUS
  <1>1. TypeOK
    BY DomainAssumption DEF Init, TypeOK, Verification, Call, Tokens, Certificates
  <1>2. LockHeld /\ OrderNeeded /\ Newest /\ NoOrphan
    BY DomainAssumption DEF Init, LockHeld, OrderNeeded, Newest, NoOrphan, Inside, Issued,
       Calls
  <1>3. Proved /\ VerifiedByChallenge
    BY DEF Init, Proved, VerifiedByChallenge, Authorized
  <1> QED BY <1>1, <1>2, <1>3 DEF IInv

-----------------------------------------------------------------------------
(***************************************************************************)
(* Steps on bindings                                                       *)
(***************************************************************************)
\* What only the certificates' side can disturb.
LEMMA CertificatesFrame ==
  ASSUME LockHeld, OrderNeeded, Newest, UNCHANGED <<call, issueMu, store>>
  PROVE  LockHeld' /\ OrderNeeded' /\ Newest'
  BY DEF store, LockHeld, OrderNeeded, Newest, Needs, Valid

LEMMA BindingsIInv ==
  ASSUME IInv, NEW p \in Projects, NEW h \in Hosts,
         CreateDomain(p, h) \/ DeleteDomain(p, h)
  PROVE  IInv'
PROOF
  <1> USE DEF IInv
  <1>1. CASE CreateDomain(p, h)
    <2>1. TypeOK'
      BY <1>1, DomainAssumption DEF CreateDomain, TypeOK, Binding, Tokens, store
    <2>2. Proved' /\ VerifiedByChallenge' /\ NoOrphan'
      BY <1>1 DEF CreateDomain, TypeOK, Proved, VerifiedByChallenge, NoOrphan, Authorized
    <2> QED BY <1>1, <2>1, <2>2, CertificatesFrame DEF CreateDomain
  <1>2. CASE DeleteDomain(p, h)
    <2>1. TypeOK'
      BY <1>2 DEF DeleteDomain, TypeOK, store
    <2>2. Proved' /\ VerifiedByChallenge' /\ NoOrphan'
      BY <1>2 DEF DeleteDomain, TypeOK, Proved, VerifiedByChallenge, NoOrphan, Authorized
    <2> QED BY <1>2, <2>1, <2>2, CertificatesFrame DEF DeleteDomain
  <1> QED BY <1>1, <1>2

LEMMA ChangeIInv == ASSUME IInv, NEW h \in Hosts, ChangeTXT(h) PROVE IInv'
PROOF
  <1> USE DEF IInv
  <1>1. /\ txt' \in [Hosts -> SUBSET Tokens]
        /\ shown' = [shown EXCEPT ![h] = @ \cup txt'[h]]
        /\ \A g \in Hosts : g # h => txt'[g] = txt[g]
    BY DomainAssumption DEF ChangeTXT, TypeOK, Tokens
  <1>2. TypeOK'
    BY <1>1 DEF ChangeTXT, TypeOK, store
  <1>3. \A g \in Hosts : shown[g] \subseteq shown'[g] /\ txt'[g] \subseteq shown'[g]
    BY <1>1 DEF TypeOK, Proved
  <1>4. Proved' /\ VerifiedByChallenge' /\ NoOrphan'
    BY <1>3 DEF ChangeTXT, TypeOK, Verification, Proved, VerifiedByChallenge, NoOrphan,
       Authorized
  <1> QED BY <1>2, <1>4, CertificatesFrame DEF ChangeTXT

LEMMA VerificationIInv ==
  ASSUME IInv, NEW v \in Verifiers,
         \/ \E p \in Projects, h \in Hosts : ReadDomain(v, p, h)
         \/ LookupTXT(v) \/ VerifyDomain(v)
  PROVE  IInv'
PROOF
  <1> USE DEF IInv
  <1>1. ASSUME NEW p \in Projects, NEW h \in Hosts, ReadDomain(v, p, h) PROVE IInv'
    <2>1. TypeOK'
      BY <1>1 DEF ReadDomain, TypeOK, Verification, Binding, Tokens, store
    <2>2. Proved' /\ VerifiedByChallenge' /\ NoOrphan'
      BY <1>1 DEF ReadDomain, TypeOK, Proved, VerifiedByChallenge, NoOrphan, Authorized
    <2> QED BY <1>1, <2>1, <2>2, CertificatesFrame DEF ReadDomain
  <1>2. CASE LookupTXT(v)
    <2>1. TypeOK'
      BY <1>2 DEF LookupTXT, TypeOK, Verification, store
    <2>2. Proved'
      BY <1>2 DEF LookupTXT, TypeOK, Verification, Proved
    <2>3. VerifiedByChallenge' /\ NoOrphan'
      BY <1>2 DEF LookupTXT, VerifiedByChallenge, NoOrphan, Authorized
    <2> QED BY <1>2, <2>1, <2>2, <2>3, CertificatesFrame DEF LookupTXT
  <1>3. CASE VerifyDomain(v)
    <2>1. TypeOK'
      <3>1. verifier' \in [Verifiers -> Verification]
        BY <1>3 DEF VerifyDomain, TypeOK, Verification
      <3>2. binding' \in [Hosts -> Binding \cup {None}]
        <4>1. CASE Proves(binding[verifier[v].host], verifier[v].token)
          <5> DEFINE h == verifier[v].host
          <5>1. h \in Hosts /\ binding[h] \in Binding
            BY <4>1 DEF Proves, TypeOK, Verification
          <5>2. [binding[h] EXCEPT !.verified = TRUE] \in Binding
            BY <5>1 DEF Binding
          <5>3. binding' = [binding EXCEPT ![h] = [binding[h] EXCEPT !.verified = TRUE]]
            BY <1>3, <4>1 DEF VerifyDomain
          <5> QED BY <5>1, <5>2, <5>3 DEF TypeOK
        <4>2. CASE ~ Proves(binding[verifier[v].host], verifier[v].token)
          BY <1>3, <4>2 DEF VerifyDomain, TypeOK
        <4> QED BY <4>1, <4>2
      <3>3. orphans' \subseteq orphans
        BY <1>3 DEF VerifyDomain
      <3> QED BY <1>3, <3>1, <3>2, <3>3 DEF VerifyDomain, TypeOK, store
    <2>2. Proved'
      BY <1>3 DEF VerifyDomain, TypeOK, Verification, Proved
    <2>3. VerifiedByChallenge'
      <3>1. verifier[v].token \in shown[verifier[v].host] /\ shown' = shown
        BY <1>3 DEF VerifyDomain, Proved
      <3>2. CASE Proves(binding[verifier[v].host], verifier[v].token)
        BY <1>3, <3>1, <3>2 DEF VerifyDomain, Proves, TypeOK, Binding, VerifiedByChallenge,
           Authorized
      <3>3. CASE ~ Proves(binding[verifier[v].host], verifier[v].token)
        BY <1>3, <3>1, <3>3 DEF VerifyDomain, VerifiedByChallenge, Authorized
      <3> QED BY <3>2, <3>3
    <2>4. NoOrphan'
      BY <1>3 DEF VerifyDomain, Proves, TypeOK, Verification, Call, NoOrphan, Authorized
    <2> QED BY <1>3, <2>1, <2>2, <2>3, <2>4, CertificatesFrame DEF VerifyDomain
  <1> QED BY <1>1, <1>2, <1>3

-----------------------------------------------------------------------------
(***************************************************************************)
(* Steps on certificates                                                   *)
(***************************************************************************)
\* What only the bindings' side can disturb.
LEMMA BindingsFrame ==
  ASSUME Proved, VerifiedByChallenge, UNCHANGED domains
  PROVE  Proved' /\ VerifiedByChallenge'
  BY DEF domains, Proved, VerifiedByChallenge, Authorized

\* A call that returns leaves the lock to the others as it was.
LEMMA ReturnKeeps ==
  ASSUME IInv, NEW c \in Calls, Return(c)
  PROVE  /\ call' \in [Calls -> Call] /\ issueMu' \in Calls \cup {None} /\ LockHeld'
         /\ call'[c].step = "idle"
         /\ \A d \in Calls : d # c => call'[d] = call[d]
PROOF
  <1>1. call \in [Calls -> Call] /\ issueMu \in Calls \cup {None} /\ None \notin Calls
    BY DomainAssumption DEF IInv, TypeOK, Calls
  <1>2. /\ call' \in [Calls -> Call] /\ call'[c].step = "idle"
        /\ \A d \in Calls : d # c => call'[d] = call[d]
    BY <1>1, DomainAssumption DEF Return, Idle, Call
  <1>3. issueMu' = IF issueMu = c THEN None ELSE issueMu
    BY DEF Return
  <1>4. LockHeld'
    BY <1>1, <1>2, <1>3 DEF IInv, LockHeld, Inside
  <1> QED BY <1>1, <1>2, <1>3, <1>4

\* The call that holds the lock, or none, is the only one inside.
LEMMA Alone ==
  ASSUME LockHeld, NEW c \in Calls, NEW d \in Calls,
         call[c].step \in Inside, call[d].step \in Inside
  PROVE  c = d
  BY DEF LockHeld

\* A step of a call that changes nothing but the call and the lock.
LEMMA CallsIInv ==
  ASSUME IInv, NEW c \in Calls,
         \/ \E h \in Hosts : Ask(c, h)
         \/ Look(c) \/ Acquire(c) \/ GiveUp(c) \/ Admit(c) \/ Decide(c)
  PROVE  IInv'
PROOF
  <1> USE DEF IInv
  <1>1. UNCHANGED <<domains, store, orphans>>
    BY DEF Ask, Look, Acquire, GiveUp, Admit, Decide
  <1>2. /\ call' \in [Calls -> Call] /\ issueMu' \in Calls \cup {None} /\ LockHeld'
        /\ call'[c].step = "ordering" => Needs(c) /\ call'[c].host = call[c].host
        /\ call'[c].step \notin Issued
        /\ \A d \in Calls : d # c => call'[d] = call[d]
    <2>1. CASE Return(c)
      BY <2>1, ReturnKeeps DEF Issued
    <2>2. CASE \E h \in Hosts : Ask(c, h)
      BY <2>2, DomainAssumption DEF Ask, TypeOK, Call, LockHeld, Inside, Issued
    <2>3. CASE Acquire(c)
      BY <2>3, DomainAssumption DEF Acquire, At, TypeOK, Call, LockHeld, Inside, Issued, Calls
    <2>4. CASE At(c, "looking", "queued") /\ UNCHANGED issueMu
      BY <2>4 DEF At, TypeOK, Call, LockHeld, Inside, Issued
    <2>5. CASE At(c, "holding", "admitted") /\ UNCHANGED issueMu
      BY <2>5 DEF At, TypeOK, Call, LockHeld, Inside, Issued
    <2>6. CASE Decide(c)
      BY <2>6, ReturnKeeps DEF Decide, At, TypeOK, Call, LockHeld, Inside, Issued
    <2> QED BY <2>1, <2>2, <2>3, <2>4, <2>5, <2>6 DEF Look, GiveUp, Admit
  <1>3. TypeOK'
    BY <1>1, <1>2 DEF TypeOK, domains, store
  <1>4. OrderNeeded'
    BY <1>1, <1>2 DEF OrderNeeded, Needs, Valid, store
  <1>5. Newest'
    BY <1>1, <1>2 DEF Newest, Issued, store
  <1>6. NoOrphan'
    BY <1>1, <1>2 DEF NoOrphan, Issued, Authorized, domains
  <1> QED BY <1>1, <1>2, <1>3, <1>4, <1>5, <1>6, BindingsFrame

\* The failure of the call that holds the lock, before or after its file is replaced.
LEMMA FailIInv ==
  ASSUME IInv, NEW c \in Calls, call[c].step \in Inside, Fail(c),
         UNCHANGED <<domains, ordered, age, installed, orphans>>,
         \/ saved' = saved
         \/ /\ call[c].step = "saving"
            /\ saved' = [saved EXCEPT ![call[c].host] = call[c].certificate]
  PROVE  IInv'
PROOF
  <1> USE DEF IInv
  <1>1. /\ call' \in [Calls -> Call] /\ issueMu' \in Calls \cup {None} /\ LockHeld'
        /\ call'[c].step = "idle"
        /\ \A d \in Calls : d # c => call'[d] = call[d]
    BY ReturnKeeps DEF Fail
  <1>2. call[c].host \in Hosts /\ call[c].certificate \in 0 .. MaxOrders
    BY DEF TypeOK, Call
  <1>3. \A d \in Calls : call'[d].step \notin {"ordering", "answered", "saving", "saved"}
    BY <1>1, Alone DEF Inside
  <1>4. /\ saved' \in [Hosts -> 0 .. MaxOrders]
        /\ \A h \in Hosts : saved[h] <= saved'[h] /\ saved'[h] <= ordered
    BY <1>2, DomainAssumption DEF TypeOK, Newest, Issued
  <1>5. TypeOK'
    BY <1>1, <1>2, <1>4 DEF TypeOK, Fail, domains
  <1>6. OrderNeeded' /\ NoOrphan'
    BY <1>3 DEF OrderNeeded, NoOrphan
  <1>7. Newest'
    BY <1>3, <1>4, DomainAssumption DEF Newest, TypeOK, Issued
  <1> QED BY <1>1, <1>5, <1>6, <1>7, BindingsFrame

LEMMA AnswerIInv == ASSUME IInv, NEW c \in Calls, Answer(c) PROVE IInv'
PROOF
  <1> USE DEF IInv
  <1>1. CASE Fail(c) /\ UNCHANGED <<ordered, orphans>>
    BY <1>1, FailIInv DEF Answer, Inside
  <1>2. CASE ~ (Fail(c) /\ UNCHANGED <<ordered, orphans>>)
    <2>1. /\ call[c].step = "ordering" /\ ordered < MaxOrders /\ ordered' = ordered + 1
          /\ call' = [call EXCEPT ![c] = [step |-> "answered", host |-> call[c].host,
                                        certificate |-> ordered']]
          /\ orphans' = (IF Authorized(call[c].host) THEN orphans \ {c} ELSE orphans \cup {c})
          /\ UNCHANGED <<domains, issueMu, age, installed, saved, backoff>>
      BY <1>2 DEF Answer
    <2>2. /\ call' \in [Calls -> Call] /\ call'[c].step = "answered"
          /\ call'[c].certificate = ordered' /\ call'[c].host = call[c].host
          /\ \A d \in Calls : d # c => call'[d] = call[d]
      BY <2>1, DomainAssumption DEF TypeOK, Call
    <2>3. \A d \in Calls : call[d].step \in Inside => d = c
      BY <2>1, Alone DEF Inside
    <2>4. LockHeld'
      BY <2>1, <2>2 DEF LockHeld, Inside
    <2>5. TypeOK'
      BY <2>1, <2>2, DomainAssumption DEF TypeOK, domains
    <2>6. OrderNeeded'
      BY <2>2, <2>3 DEF OrderNeeded, Inside
    <2>7. Newest'
      BY <2>1, <2>2, <2>3 DEF Newest, TypeOK, Inside, Issued
    <2>8. NoOrphan'
      BY <2>1, <2>2, <2>3 DEF NoOrphan, Authorized, domains, Inside
    <2> QED BY <2>1, <2>4, <2>5, <2>6, <2>7, <2>8, BindingsFrame
  <1> QED BY <1>1, <1>2

LEMMA CheckAgainIInv == ASSUME IInv, NEW c \in Calls, CheckAgain(c) PROVE IInv'
PROOF
  <1> USE DEF IInv
  <1>1. CASE Authorized(call[c].host)
    <2>1. /\ call[c].step = "answered" /\ call' = [call EXCEPT ![c].step = "saving"]
          /\ UNCHANGED <<domains, issueMu, store, orphans>>
      BY <1>1 DEF CheckAgain, Recheck, At, store
    <2>2. /\ call' \in [Calls -> Call] /\ call'[c].step = "saving"
          /\ call'[c].certificate = call[c].certificate /\ call'[c].host = call[c].host
          /\ \A d \in Calls : d # c => call'[d] = call[d]
      BY <2>1 DEF TypeOK, Call
    <2>3. LockHeld' /\ Newest' /\ OrderNeeded'
      BY <2>1, <2>2 DEF LockHeld, Newest, OrderNeeded, Needs, Valid, store, Inside, Issued
    <2>4. TypeOK'
      BY <2>1, <2>2 DEF TypeOK, domains, store
    <2>5. NoOrphan'
      BY <1>1, <2>1, <2>2 DEF NoOrphan, Authorized, domains
    <2> QED BY <2>1, <2>3, <2>4, <2>5, BindingsFrame
  <1>2. CASE ~ Authorized(call[c].host)
    BY <1>2, FailIInv DEF CheckAgain, Recheck, Inside
  <1> QED BY <1>1, <1>2

LEMMA SaveIInv == ASSUME IInv, NEW c \in Calls, Save(c) PROVE IInv'
PROOF
  <1> USE DEF IInv
  <1>1. CASE At(c, "saving", "saved")
    <2>1. /\ call[c].step = "saving" /\ call' = [call EXCEPT ![c].step = "saved"]
          /\ saved' = [saved EXCEPT ![call[c].host] = call[c].certificate]
          /\ UNCHANGED <<domains, issueMu, ordered, age, installed, backoff, orphans>>
      <3>1. call'[c].step = "saved"
        BY <1>1 DEF At, TypeOK, Call
      <3>2. ~ Fail(c)
        BY <3>1, ReturnKeeps DEF Fail
      <3> QED BY <1>1, <3>2 DEF Save, At
    <2>2. /\ call' \in [Calls -> Call] /\ call'[c].step = "saved"
          /\ call'[c].certificate = call[c].certificate /\ call'[c].host = call[c].host
          /\ \A d \in Calls : d # c => call'[d] = call[d]
      BY <2>1 DEF TypeOK, Call
    <2>3. \A d \in Calls : call[d].step \in Inside => d = c
      BY <2>1, Alone DEF Inside
    <2>4. LockHeld' /\ OrderNeeded' /\ NoOrphan'
      BY <2>1, <2>2 DEF LockHeld, OrderNeeded, Needs, Valid, NoOrphan, Authorized, domains,
         Inside
    <2>5. TypeOK'
      BY <2>1, <2>2, DomainAssumption DEF TypeOK, Call, domains
    <2>6. Newest'
      BY <2>1, <2>2, <2>3, DomainAssumption DEF Newest, TypeOK, Call, Inside, Issued
    <2> QED BY <2>1, <2>4, <2>5, <2>6, BindingsFrame
  <1>2. CASE ~ At(c, "saving", "saved")
    BY <1>2, FailIInv DEF Save, Inside
  <1> QED BY <1>1, <1>2

LEMMA InstallIInv == ASSUME IInv, NEW c \in Calls, Install(c) PROVE IInv'
PROOF
  <1> USE DEF IInv
  <1>1. /\ call[c].step = "saved" /\ Return(c)
        /\ installed' = [installed EXCEPT ![call[c].host] = call[c].certificate]
        /\ backoff' = backoff \ {call[c].host}
        /\ UNCHANGED <<domains, ordered, age, saved, orphans>>
    BY DEF Install
  <1>2. /\ call' \in [Calls -> Call] /\ issueMu' \in Calls \cup {None} /\ LockHeld'
        /\ call'[c].step = "idle"
        /\ \A d \in Calls : d # c => call'[d] = call[d]
    BY <1>1, ReturnKeeps
  <1>3. \A d \in Calls : call'[d].step \notin {"ordering", "answered", "saving", "saved"}
    BY <1>1, <1>2, Alone DEF Inside
  <1>4. TypeOK'
    BY <1>1, <1>2 DEF TypeOK, Call, domains
  <1>5. OrderNeeded' /\ NoOrphan'
    BY <1>3 DEF OrderNeeded, NoOrphan
  <1>6. Newest'
    BY <1>1, <1>3, DomainAssumption DEF Newest, TypeOK, Call, Issued
  <1> QED BY <1>1, <1>2, <1>4, <1>5, <1>6, BindingsFrame

LEMMA TimeIInv ==
  ASSUME IInv, \/ \E n \in Certificates : Grow(n)
               \/ \E h \in Hosts : RetryDue(h)
  PROVE  IInv'
PROOF
  <1> USE DEF IInv
  <1>1. ASSUME NEW n \in Certificates, Grow(n) PROVE IInv'
    <2>1. /\ age' = [age EXCEPT ![n] = NextAge[@]] /\ age[n] \in {"fresh", "due"}
          /\ UNCHANGED <<domains, call, issueMu, ordered, installed, saved, backoff, orphans>>
      BY <1>1 DEF Grow, TypeOK
    <2>2. /\ age' \in [Certificates -> {"fresh", "due", "expired"}]
          /\ \A m \in Certificates : age'[m] # "expired" =>
               age[m] # "expired" /\ (age[m] = "due" => age'[m] = "due")
      BY <2>1 DEF TypeOK, NextAge
    <2>3. OrderNeeded'
      BY <2>1, <2>2 DEF OrderNeeded, Needs, Valid, TypeOK, Certificates
    <2>4. TypeOK' /\ LockHeld' /\ Newest' /\ NoOrphan'
      BY <2>1, <2>2 DEF TypeOK, LockHeld, Newest, NoOrphan, Authorized, domains
    <2> QED BY <2>1, <2>3, <2>4, BindingsFrame
  <1>2. ASSUME NEW h \in Hosts, RetryDue(h) PROVE IInv'
    <2>1. TypeOK' /\ LockHeld' /\ Newest' /\ NoOrphan'
      BY <1>2 DEF RetryDue, TypeOK, LockHeld, Newest, NoOrphan, Authorized, domains
    <2>2. OrderNeeded'
      BY <1>2 DEF RetryDue, OrderNeeded, Needs, Valid
    <2> QED BY <1>2, <2>1, <2>2, BindingsFrame DEF RetryDue
  <1> QED BY <1>1, <1>2

LEMMA RestartIInv == ASSUME IInv, Restart PROVE IInv'
PROOF
  <1> USE DEF IInv
  <1>1. /\ \A c \in Calls : call'[c].step = "idle"
        /\ \A v \in Verifiers : verifier'[v].step = "idle"
    BY DEF Restart, Idle, TypeOK, Call, Verification
  <1>2. TypeOK'
    <2>1. call' \in [Calls -> Call]
      BY DomainAssumption DEF Restart, Idle, TypeOK, Call
    <2>2. verifier' \in [Verifiers -> Verification]
      BY DEF Restart, TypeOK, Verification
    <2> QED BY <2>1, <2>2 DEF Restart, TypeOK
  <1>3. LockHeld' /\ OrderNeeded' /\ NoOrphan'
    BY <1>1, DomainAssumption DEF Restart, LockHeld, OrderNeeded, NoOrphan, Inside, Calls
  <1>4. Newest'
    BY <1>1, DomainAssumption DEF Restart, Newest, TypeOK, Issued
  <1>5. Proved' /\ VerifiedByChallenge'
    BY <1>1 DEF Restart, Proved, VerifiedByChallenge, Authorized
  <1> QED BY <1>2, <1>3, <1>4, <1>5

LEMMA StutterIInv == ASSUME IInv, UNCHANGED vars PROVE IInv'
PROOF
  <1> USE DEF IInv
  <1>1. UNCHANGED <<domains, call, issueMu, store, orphans>>
    BY DEF vars
  <1>2. TypeOK' /\ NoOrphan'
    BY <1>1 DEF TypeOK, NoOrphan, Authorized, domains, store
  <1> QED BY <1>1, <1>2, BindingsFrame, CertificatesFrame

LEMMA NextIInv == IInv /\ [Next]_vars => IInv'
PROOF
  <1> SUFFICES ASSUME IInv, [Next]_vars PROVE IInv'
    OBVIOUS
  <1>1. ASSUME NEW p \in Projects, NEW h \in Hosts, CreateDomain(p, h) \/ DeleteDomain(p, h)
        PROVE  IInv'
    BY <1>1, BindingsIInv
  <1>2. ASSUME NEW h \in Hosts, ChangeTXT(h) PROVE IInv'
    BY <1>2, ChangeIInv
  <1>3. ASSUME NEW h \in Hosts, RetryDue(h) PROVE IInv'
    BY <1>3, TimeIInv
  <1>4. ASSUME NEW v \in Verifiers, NEW p \in Projects, NEW h \in Hosts, ReadDomain(v, p, h)
        PROVE  IInv'
    BY <1>4, VerificationIInv
  <1>5. ASSUME NEW v \in Verifiers, LookupTXT(v) \/ VerifyDomain(v) PROVE IInv'
    BY <1>5, VerificationIInv
  <1>6. ASSUME NEW c \in Calls, NEW h \in Hosts, Ask(c, h) PROVE IInv'
    BY <1>6, CallsIInv
  <1>7. ASSUME NEW c \in Calls,
               \/ Look(c) \/ Acquire(c) \/ GiveUp(c) \/ Admit(c) \/ Decide(c)
               \/ Answer(c) \/ CheckAgain(c) \/ Save(c) \/ Install(c)
        PROVE  IInv'
    BY <1>7, CallsIInv, AnswerIInv, CheckAgainIInv, SaveIInv, InstallIInv
  <1>8. ASSUME NEW n \in Certificates, Grow(n) PROVE IInv'
    BY <1>8, TimeIInv
  <1> QED
    BY <1>1, <1>2, <1>3, <1>4, <1>5, <1>6, <1>7, <1>8, RestartIInv, StutterIInv DEF Next

-----------------------------------------------------------------------------
THEOREM Inductive == Spec => []IInv
  BY InitIInv, NextIInv, PTL DEF Spec

\* Every variable keeps its type.
THEOREM DomainTypes == Spec => []TypeOK
  BY Inductive, PTL DEF IInv

\* However long a DNS answer takes and whatever happens to the binding meanwhile, only
\* the challenge of the present binding verifies it (VerifyCustomDomainChallenge).
THEOREM DomainsVerifiedByChallenge == Spec => []VerifiedByChallenge
  BY Inductive, PTL DEF IInv

\* The CA is asked for one certificate at a time, and only for one that is needed
\* (Manager.obtain: issueMu, the second look and retryAt).
THEOREM CertificatesOrderedAsNeeded == Spec => []OrdersNeeded
PROOF
  <1>1. IInv => OrdersNeeded
    BY Alone DEF IInv, OrderNeeded, Needs, OrdersNeeded, Inside
  <1> QED BY <1>1, Inductive, PTL

\* A certificate is served only from its file, and one whose host lost its binding during
\* the order is never installed (Manager.obtain: the check after the issue, save first).
THEOREM CertificatesInstalledSoundly == Spec => []InstallsAreSound
PROOF
  <1>1. IInv => InstallsAreSound
    BY DEF IInv, Newest, NoOrphan, InstallsAreSound
  <1> QED BY <1>1, Inductive, PTL
=============================================================================
