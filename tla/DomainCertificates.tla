------------------------ MODULE DomainCertificates ------------------------
(***************************************************************************)
(* Custom domains and their certificates: a project binds a host, proves   *)
(* that it owns it with a TXT record, and the listener then orders and     *)
(* renews a certificate for the host from the CA, while the binding may be *)
(* removed, or made again by another project, at any moment.               *)
(*                                                                         *)
(* DNS and the CA are external: a lookup finds what is published at that   *)
(* moment or fails, an order is answered with a certificate or fails.      *)
(***************************************************************************)
EXTENDS Integers, FiniteSets

CONSTANTS
  Hosts,         \* custom domains
  Projects,      \* projects that may bind them
  Verifiers,     \* requests that verify a domain
  Handshakes,    \* TLS handshakes under way
  Renewal,       \* the renewal loop of Manager.Run
  None,          \* no binding, no holder
  MaxTokens,     \* bound: challenges ever drawn
  MaxOrders      \* bound: certificates ever issued

ASSUME DomainAssumption ==
  /\ Renewal \notin Handshakes /\ None \notin Handshakes \cup {Renewal}
  /\ MaxTokens \in Nat /\ MaxOrders \in Nat

Calls == Handshakes \cup {Renewal}
Tokens == 1 .. MaxTokens
Certificates == 1 .. MaxOrders

VARIABLES
  binding,    \* binding[h]: the custom_domains row of h, or None
  drawn,      \* challenges drawn so far; each is drawn once
  txt,        \* txt[h]: the challenges published in the DNS of h
  shown,      \* shown[h]: the challenges ever published there (not in the code)
  verifier,   \* verifier[v]: a verification under way
  call,       \* call[c]: a handshake or a renewal that needs a certificate
  issueMu,    \* the call that holds the issuance lock
  ordered,    \* certificates issued so far
  age,        \* age[n] of certificate n
  installed,  \* installed[h]: the certificate served for h, or 0
  saved,      \* saved[h]: the certificate in the file of h, or 0
  backoff,    \* hosts whose retryAt is still to come
  orphans     \* calls whose host was bound to nobody since the CA answered (not in the code)

domains == <<binding, drawn, txt, shown, verifier>>
store == <<ordered, age, installed, saved, backoff>>
vars == <<domains, call, issueMu, store, orphans>>

\* A row of custom_domains.  The project's deletion removes it too.
Binding == [project : Projects, token : Tokens, verified : BOOLEAN]
Verification == [step : {"idle", "asking", "proved"}, host : Hosts, token : 0 .. MaxTokens]
\* A call: "looking" has passed the first check, "queued" waits for issueMu, "holding" and
\* "admitted" hold it before the order, "ordering" until the CA answers, then "answered",
\* "saving" and "saved".
Call ==
  [step : {"idle", "looking", "queued", "holding", "admitted", "ordering", "answered",
           "saving", "saved"},
   host : Hosts, certificate : 0 .. MaxOrders]

Init ==
  /\ binding = [h \in Hosts |-> None] /\ drawn = 0
  /\ txt = [h \in Hosts |-> {}] /\ shown = txt
  /\ verifier \in
       {[v \in Verifiers |-> [step |-> "idle", host |-> h, token |-> 0]] : h \in Hosts}
  /\ call \in {[c \in Calls |-> [step |-> "idle", host |-> h, certificate |-> 0]] : h \in Hosts}
  /\ issueMu = None
  /\ ordered = 0 /\ age = [n \in Certificates |-> "fresh"]
  /\ installed = [h \in Hosts |-> 0] /\ saved = installed
  /\ backoff = {} /\ orphans = {}

-----------------------------------------------------------------------------
(***************************************************************************)
(* Bindings                                                                *)
(***************************************************************************)
\* AllowedTLSHost, for a custom domain.
Authorized(h) == binding[h] # None /\ binding[h].verified

\* CreateCustomDomain: the domain is unique, the challenge new.
CreateDomain(p, h) ==
  /\ binding[h] = None /\ drawn < MaxTokens
  /\ drawn' = drawn + 1
  /\ binding' = [binding EXCEPT ![h] =
                   [project |-> p, token |-> drawn + 1, verified |-> FALSE]]
  /\ UNCHANGED <<txt, shown, verifier, call, issueMu, store, orphans>>

\* DeleteCustomDomain, and the deletion of the project.
DeleteDomain(p, h) ==
  /\ binding[h] # None /\ binding[h].project = p
  /\ binding' = [binding EXCEPT ![h] = None]
  /\ UNCHANGED <<drawn, txt, shown, verifier, call, issueMu, store, orphans>>

\* The owner of the domain publishes a challenge it was told, or removes one.
ChangeTXT(h) ==
  /\ \/ \E t \in 1 .. drawn : txt' = [txt EXCEPT ![h] = {t}]
     \/ txt' = [txt EXCEPT ![h] = {}]
  /\ shown' = [shown EXCEPT ![h] = @ \cup txt'[h]]
  /\ UNCHANGED <<binding, drawn, verifier, call, issueMu, store, orphans>>

\* handleVerifyDomain reads the row; one that is verified is answered at once.
ReadDomain(v, p, h) ==
  /\ verifier[v].step = "idle"
  /\ binding[h] # None /\ binding[h].project = p /\ ~ binding[h].verified
  /\ verifier' = [verifier EXCEPT ![v] =
                    [step |-> "asking", host |-> h, token |-> binding[h].token]]
  /\ UNCHANGED <<binding, drawn, txt, shown, call, issueMu, store, orphans>>

\* LookupTXT finds the exact challenge, or the request ends without it.
LookupTXT(v) ==
  /\ verifier[v].step = "asking"
  /\ \/ /\ verifier[v].token \in txt[verifier[v].host]
        /\ verifier' = [verifier EXCEPT ![v].step = "proved"]
     \/ verifier' = [verifier EXCEPT ![v].step = "idle"]
  /\ UNCHANGED <<binding, drawn, txt, shown, call, issueMu, store, orphans>>

\* Fault: the proof is recorded for the domain, whoever binds it now.
ProvesHost(row, token) == row # None

\* The condition of VerifyCustomDomainChallenge on the row.
Proves(row, token) == row # None /\ row.token = token

VerifyDomain(v) ==
  LET h == verifier[v].host IN
  /\ verifier[v].step = "proved"
  /\ verifier' = [verifier EXCEPT ![v].step = "idle"]
  /\ IF Proves(binding[h], verifier[v].token)
     THEN /\ binding' = [binding EXCEPT ![h].verified = TRUE]
          /\ orphans' = {c \in orphans : call[c].host # h}
     ELSE UNCHANGED <<binding, orphans>>
  /\ UNCHANGED <<drawn, txt, shown, call, issueMu, store>>

-----------------------------------------------------------------------------
(***************************************************************************)
(* Certificates                                                            *)
(***************************************************************************)
Valid(h) == installed[h] # 0 /\ age[installed[h]] # "expired"

At(c, from, to) ==
  call[c].step = from /\ call' = [call EXCEPT ![c].step = to]

Idle(c) == [step |-> "idle", host |-> call[c].host, certificate |-> 0]

\* The call returns and gives the lock up if it has it.
Return(c) ==
  /\ call' = [call EXCEPT ![c] = Idle(c)]
  /\ issueMu' = (IF issueMu = c THEN None ELSE issueMu)

\* GetCertificate checks the host; the loop takes a host that has a certificate.
Ask(c, h) ==
  /\ call[c].step = "idle" /\ Authorized(h)
  /\ c = Renewal => installed[h] # 0
  /\ call' = [call EXCEPT ![c] = [step |-> IF c = Renewal THEN "queued" ELSE "looking",
                                  host |-> h, certificate |-> 0]]
  /\ UNCHANGED <<domains, issueMu, store, orphans>>

\* A valid certificate is served; otherwise the handshake goes on to obtain.
Look(c) ==
  /\ IF Valid(call[c].host)
     THEN call[c].step = "looking" /\ Return(c)
     ELSE At(c, "looking", "queued") /\ UNCHANGED issueMu
  /\ UNCHANGED <<domains, store, orphans>>

Acquire(c) ==
  /\ issueMu = None /\ At(c, "queued", "holding")
  /\ issueMu' = c
  /\ UNCHANGED <<domains, store, orphans>>

\* The handshake is over or the process stops while the call waits or before it decides.
GiveUp(c) ==
  /\ call[c].step \in {"queued", "holding"} /\ Return(c)
  /\ UNCHANGED <<domains, store, orphans>>

\* The host is checked again under the lock.
Admit(c) ==
  /\ IF Authorized(call[c].host)
     THEN At(c, "holding", "admitted") /\ UNCHANGED issueMu
     ELSE call[c].step = "holding" /\ Return(c)
  /\ UNCHANGED <<domains, store, orphans>>

\* Fault: a call that waited for the lock orders without looking again.
NeedsUnlessBackingOff(c) == call[c].host \notin backoff

\* Whether the CA is asked: no certificate that will do, and not backing off.
Needs(c) ==
  LET h == call[c].host IN
  /\ h \notin backoff
  /\ Valid(h) => c = Renewal /\ age[installed[h]] = "due"

Decide(c) ==
  /\ IF Needs(c)
     THEN At(c, "admitted", "ordering") /\ UNCHANGED issueMu
     ELSE call[c].step = "admitted" /\ Return(c)
  /\ UNCHANGED <<domains, store, orphans>>

\* Any failure of the order, of the check or of the file.
Fail(c) ==
  /\ Return(c)
  /\ backoff' = backoff \cup {call[c].host}

Answer(c) ==
  /\ call[c].step = "ordering"
  /\ \/ /\ ordered < MaxOrders
        /\ ordered' = ordered + 1
        /\ call' = [call EXCEPT ![c] = [step |-> "answered", host |-> call[c].host,
                                        certificate |-> ordered']]
        /\ orphans' = IF Authorized(call[c].host) THEN orphans \ {c} ELSE orphans \cup {c}
        /\ UNCHANGED <<issueMu, backoff>>
     \/ Fail(c) /\ UNCHANGED <<ordered, orphans>>
  /\ UNCHANGED <<domains, age, installed, saved>>

\* Fault: the host is not checked after the CA has answered.
RecheckNothing(c) == At(c, "answered", "saving") /\ UNCHANGED <<issueMu, backoff>>

Recheck(c) ==
  IF Authorized(call[c].host)
  THEN At(c, "answered", "saving") /\ UNCHANGED <<issueMu, backoff>>
  ELSE call[c].step = "answered" /\ Fail(c)

CheckAgain(c) ==
  /\ Recheck(c)
  /\ UNCHANGED <<domains, ordered, age, installed, saved, orphans>>

\* save: the file is renamed into place; an error before it leaves the old file, one after
\* it (the sync of the directory) the new one.
Save(c) ==
  /\ call[c].step = "saving"
  /\ \/ /\ At(c, "saving", "saved")
        /\ saved' = [saved EXCEPT ![call[c].host] = call[c].certificate]
        /\ UNCHANGED <<issueMu, backoff>>
     \/ /\ Fail(c)
        /\ saved' \in {saved, [saved EXCEPT ![call[c].host] = call[c].certificate]}
  /\ UNCHANGED <<domains, ordered, age, installed, orphans>>

Install(c) ==
  /\ call[c].step = "saved" /\ Return(c)
  /\ installed' = [installed EXCEPT ![call[c].host] = call[c].certificate]
  /\ backoff' = backoff \ {call[c].host}
  /\ UNCHANGED <<domains, ordered, age, saved, orphans>>

\* Time passes: a certificate comes due and expires, not before an older one does, and
\* the back-off of a host ends.
NextAge == [fresh |-> "due", due |-> "expired"]
AtLeast(a, b) == a = "expired" \/ (a = "due" /\ b # "expired")

Grow(n) ==
  /\ n <= ordered /\ age[n] # "expired"
  /\ \A m \in 1 .. n - 1 : AtLeast(age[m], NextAge[age[n]])
  /\ age' = [age EXCEPT ![n] = NextAge[@]]
  /\ UNCHANGED <<domains, call, issueMu, ordered, installed, saved, backoff, orphans>>

RetryDue(h) ==
  /\ h \in backoff /\ backoff' = backoff \ {h}
  /\ UNCHANGED <<domains, call, issueMu, ordered, age, installed, saved, orphans>>

\* The process dies: requests, back-off and lock are gone; New loads the files.
Restart ==
  /\ verifier' = [v \in Verifiers |-> [verifier[v] EXCEPT !.step = "idle"]]
  /\ call' = [c \in Calls |-> Idle(c)]
  /\ issueMu' = None /\ backoff' = {} /\ installed' = saved
  /\ UNCHANGED <<binding, drawn, txt, shown, ordered, age, saved, orphans>>

-----------------------------------------------------------------------------
Next ==
  \/ \E p \in Projects, h \in Hosts : CreateDomain(p, h) \/ DeleteDomain(p, h)
  \/ \E h \in Hosts : ChangeTXT(h) \/ RetryDue(h)
  \/ \E v \in Verifiers, p \in Projects, h \in Hosts : ReadDomain(v, p, h)
  \/ \E v \in Verifiers : LookupTXT(v) \/ VerifyDomain(v)
  \/ \E c \in Calls, h \in Hosts : Ask(c, h)
  \/ \E c \in Calls :
       \/ Look(c) \/ Acquire(c) \/ GiveUp(c) \/ Admit(c) \/ Decide(c)
       \/ Answer(c) \/ CheckAgain(c) \/ Save(c) \/ Install(c)
  \/ \E n \in Certificates : Grow(n)
  \/ Restart

Spec == Init /\ [][Next]_vars

-----------------------------------------------------------------------------
(***************************************************************************)
(* Properties                                                              *)
(***************************************************************************)
TypeOK ==
  /\ binding \in [Hosts -> Binding \cup {None}] /\ drawn \in 0 .. MaxTokens
  /\ txt \in [Hosts -> SUBSET Tokens] /\ shown \in [Hosts -> SUBSET Tokens]
  /\ verifier \in [Verifiers -> Verification] /\ call \in [Calls -> Call]
  /\ issueMu \in Calls \cup {None}
  /\ ordered \in 0 .. MaxOrders
  /\ age \in [Certificates -> {"fresh", "due", "expired"}]
  /\ installed \in [Hosts -> 0 .. MaxOrders] /\ saved \in [Hosts -> 0 .. MaxOrders]
  /\ backoff \subseteq Hosts /\ orphans \subseteq Calls

\* A verified domain was proved with the challenge of the binding that exists: a DNS
\* answer that was waited for while the domain was removed and bound again, by another
\* project or by the same one, verifies nothing.
VerifiedByChallenge ==
  \A h \in Hosts : Authorized(h) => binding[h].token \in shown[h]

\* The CA is asked by one call at a time, never for a host that is backing off from a
\* failure, and for a host with a valid certificate only to renew one that is due: the
\* calls that waited behind another's order use its certificate or its failure.
OrdersNeeded ==
  /\ \A c, d \in Calls : call[c].step = "ordering" /\ call[d].step = "ordering" => c = d
  /\ \A c \in Calls : call[c].step = "ordering" =>
       LET h == call[c].host IN
       /\ h \notin backoff
       /\ Valid(h) => c = Renewal /\ age[installed[h]] = "due"

\* A certificate becomes the one that is served only if it is in its file, so that it is
\* served after a restart as well, and only if its host was bound to a verified project at
\* some moment after the CA answered: an order that outlives the binding installs nothing.
InstallsAreSound ==
  /\ \A h \in Hosts : installed[h] <= saved[h]
  /\ \A c \in Calls : call[c].step = "saved" =>
       c \notin orphans /\ saved[call[c].host] = call[c].certificate
=============================================================================
