------------------------ MODULE VisitorAccessProofs ------------------------
(***************************************************************************)
(* What a visitor is served, for every set of rules that owners may set,   *)
(* every number of passwords, project lives and OAuth states.              *)
(*                                                                         *)
(* The argument: every cookie in the jar was earned (CookiesEarned), and a *)
(* cookie opens the site only under the secret it was earned with; a page  *)
(* with a submission in flight is locked (FormLock); the marker is there   *)
(* whenever an attempt has failed with a known state, or with any if the   *)
(* callback is on the site's own host (Marker).                            *)
(***************************************************************************)
EXTENDS VisitorAccess, FiniteSetTheorems, SequenceTheorems, TLAPS

Earned(c) ==
  /\ c.method = "pwd" => c.hash \in proven
  /\ c.method = "wework" => 0 \in proven

CookiesEarned == \A k \in DOMAIN jar : Earned(jar[k])

FormLock ==
  /\ \E hash \in 0 .. hashes : posts \subseteq {hash}
  /\ posts # {} => page.locked
  /\ page.shows = "form" /\ posts = {} /\ ~ stopped => ~ page.locked

Marker == failed = "known" \/ (failed = "unknown" /\ ~ Central) => marked

StatesGenerated == \A s \in States : states[s] # 0 => s <= generated

IInv ==
  TypeOK /\ StatesGenerated /\ CookiesEarned /\ FormLock /\ StateUsedOnce /\ Marker

-----------------------------------------------------------------------------
(***************************************************************************)
(* Pages, cookies and their types                                          *)
(***************************************************************************)
Kinds == {"nothing", "form", "content", "error", "wecom", "authorize"}

LEMMA PlainPage ==
  ASSUME NEW shows \in Kinds
  PROVE  /\ Plain(shows) \in Page /\ Plain(shows).shows = shows /\ ~ Plain(shows).locked
         /\ ~ Plain(shows).password
  BY DEF Kinds, Plain, Page

LEMMA FormPage ==
  ASSUME NEW r \in Rule PROVE FormOf(r) \in Page /\ ~ FormOf(r).locked /\ FormOf(r).shows = "form"
  BY VisitorAssumption DEF FormOf, Page, Rule

LEMMA AppliesType == ASSUME TypeOK PROVE Applies \in Rule \cup {None}
  BY DEF TypeOK, Applies, Level, Levels

LEMMA DecisionPage == ASSUME TypeOK PROVE Decision \in Page /\ ~ Decision.locked
  BY AppliesType, PlainPage, FormPage DEF Decision, Kinds

\* Whatever page is shown next, no submission is left behind, and a form is unlocked.
LEMMA GoKeeps ==
  ASSUME TypeOK, NEW to \in Page, ~ to.locked, Go(to), UNCHANGED hashes
  PROVE  page' \in Page /\ cached' \in Page /\ posts' = {} /\ stopped' \in BOOLEAN /\ FormLock'
PROOF
  <1>1. page' = to /\ posts' = {} /\ stopped' = FALSE /\ cached' \in {page, cached}
    BY DEF Go
  <1>2. 0 \in 0 .. hashes
    BY VisitorAssumption DEF TypeOK
  <1> QED BY <1>1, <1>2 DEF TypeOK, FormLock

\* A cookie that replaces its like, or is added.
LEMMA SetCookieKeeps ==
  ASSUME TypeOK, NEW c \in Cookie
  PROVE  /\ SetCookie(c) \in Seq(Cookie)
         /\ \A k \in DOMAIN SetCookie(c) :
              SetCookie(c)[k] = c \/ \E j \in DOMAIN jar : SetCookie(c)[k] = jar[j]
PROOF
  <1> DEFINE same == {k \in DOMAIN jar : jar[k].scope = c.scope}
  <1>1. jar \in Seq(Cookie)
    BY DEF TypeOK
  <1>2. CASE same = {}
    <2>1. SetCookie(c) = Append(jar, c)
      BY <1>2 DEF SetCookie
    <2> QED BY <1>1, <2>1
  <1>3. CASE same # {}
    <2>1. SetCookie(c) = [k \in DOMAIN jar |-> IF k \in same THEN c ELSE jar[k]]
      BY <1>3 DEF SetCookie
    <2> QED BY <1>1, <2>1
  <1> QED BY <1>2, <1>3

\* What is in two sequences put together comes from one of them.
LEMMA Joined ==
  ASSUME NEW front \in Seq(Cookie), NEW back \in Seq(Cookie)
  PROVE  /\ front \o back \in Seq(Cookie)
         /\ \A i \in DOMAIN (front \o back) :
              \/ \E j \in DOMAIN front : (front \o back)[i] = front[j]
              \/ \E j \in DOMAIN back : (front \o back)[i] = back[j]
PROOF
  <1>1. Len(front) \in Nat /\ Len(back) \in Nat
    OBVIOUS
  <1>2. /\ front \o back \in Seq(Cookie) /\ Len(front \o back) = Len(front) + Len(back)
        /\ \A i \in 1 .. Len(front) + Len(back) :
             (front \o back)[i] = IF i <= Len(front) THEN front[i] ELSE back[i - Len(front)]
    BY ConcatProperties
  <1>3. ASSUME NEW i \in 1 .. Len(front) + Len(back)
        PROVE  \/ i \in DOMAIN front
               \/ ~ (i <= Len(front)) /\ i - Len(front) \in DOMAIN back
    BY <1>1
  <1>4. DOMAIN front = 1 .. Len(front)
    OBVIOUS
  <1>5. DOMAIN (front \o back) = 1 .. Len(front) + Len(back)
    BY <1>2
  <1> QED BY <1>1, <1>2, <1>3, <1>4, <1>5

\* A cookie that expires leaves the others in their order.
LEMMA ExpiryKeeps ==
  ASSUME TypeOK, NEW k \in DOMAIN jar
  PROVE  LET rest == SubSeq(jar, 1, k - 1) \o SubSeq(jar, k + 1, Len(jar)) IN
         rest \in Seq(Cookie) /\ \A i \in DOMAIN rest : \E j \in DOMAIN jar : rest[i] = jar[j]
PROOF
  <1> DEFINE front == SubSeq(jar, 1, k - 1)  back == SubSeq(jar, k + 1, Len(jar))
  <1>1. jar \in Seq(Cookie) /\ k \in 1 .. Len(jar) /\ Len(jar) \in Nat
    BY DEF TypeOK
  <1>2. /\ front \in Seq(Cookie) /\ Len(front) = k - 1
        /\ \A i \in 1 .. k - 1 : front[i] = jar[i]
    BY <1>1
  <1>3. /\ back \in Seq(Cookie) /\ Len(back) = Len(jar) - k
        /\ \A i \in 1 .. Len(jar) - k : back[i] = jar[k + i]
    BY <1>1
  <1>4. /\ \A i \in DOMAIN front : i \in DOMAIN jar /\ front[i] = jar[i]
        /\ \A i \in DOMAIN back : k + i \in DOMAIN jar /\ back[i] = jar[k + i]
    <2>1. DOMAIN jar = 1 .. Len(jar) /\ DOMAIN front = 1 .. k - 1
      BY <1>1, <1>2
    <2>2. DOMAIN back = 1 .. Len(jar) - k
      BY <1>1, <1>3
    <2> HIDE DEF front, back
    <2> QED BY <1>1, <1>2, <1>3, <2>1, <2>2
  <1> HIDE DEF front, back
  <1>5. /\ front \o back \in Seq(Cookie)
        /\ \A i \in DOMAIN (front \o back) :
             \/ \E j \in DOMAIN front : (front \o back)[i] = front[j]
             \/ \E j \in DOMAIN back : (front \o back)[i] = back[j]
    BY <1>2, <1>3, Joined
  <1>6. /\ front \o back \in Seq(Cookie)
        /\ \A i \in DOMAIN (front \o back) : \E j \in DOMAIN jar : (front \o back)[i] = jar[j]
    BY <1>4, <1>5
  <1> QED BY <1>6 DEF front, back

\* Facts about cookies stay as long as passwords are not forgotten.
LEMMA CookiesFrame ==
  ASSUME CookiesEarned, proven \subseteq proven',
         \A k \in DOMAIN jar' : \E j \in DOMAIN jar : jar'[k] = jar[j]
  PROVE  CookiesEarned'
  BY DEF CookiesEarned, Earned

LEMMA DisplayFrame ==
  ASSUME FormLock, UNCHANGED <<hashes, display>> PROVE FormLock'
  BY DEF FormLock, display

\* A failure that is marked leaves the marker of its kind.
LEMMA MarkKeeps ==
  ASSUME IInv, NEW known \in BOOLEAN, Mark(known)
  PROVE  marked' \in BOOLEAN /\ failed' \in Failures /\ Marker'
PROOF
  <1>1. marked \in BOOLEAN /\ failed \in Failures /\ Marker
    BY DEF IInv, TypeOK
  <1>2. marked' = (marked \/ known \/ ~ Central) /\ failed' = Worse(known)
    BY DEF Mark
  <1>3. Worse(known) \in Failures /\ (Worse(known) = "known" => known \/ failed = "known")
    BY DEF Worse, Failures
  <1>4. marked' \in BOOLEAN
    BY <1>2, Zenon
  <1>5. Marker'
    <2>1. failed' = "known" => known \/ marked
      BY <1>1, <1>2, <1>3 DEF Marker
    <2> QED BY <1>2, <2>1, Zenon DEF Marker
  <1> QED BY <1>2, <1>3, <1>4, <1>5

-----------------------------------------------------------------------------
LEMMA InitIInv == Init => IInv
PROOF
  <1> SUFFICES ASSUME Init PROVE IInv
    OBVIOUS
  <1>1. TypeOK
    <2>1. Plain("nothing") \in Page
      BY PlainPage DEF Kinds
    <2>2. jar \in Seq(Cookie)
      BY DEF Init
    <2>3. /\ states \in [States -> 0 .. lives] /\ lives \in 1 .. MaxLives
          /\ hashes \in 0 .. MaxHash /\ generated \in 0 .. MaxState
      BY VisitorAssumption DEF Init
    <2> QED BY <2>1, <2>2, <2>3 DEF Init, TypeOK, Failures
  <1>2. CookiesEarned /\ StateUsedOnce /\ StatesGenerated /\ Marker
    BY DEF Init, CookiesEarned, StateUsedOnce, StatesGenerated, Marker
  <1>3. FormLock
    BY PlainPage DEF Init, FormLock, Kinds
  <1> QED BY <1>1, <1>2, <1>3 DEF IInv

\* Owners change rules and the project; the browser knows nothing of it.
LEMMA OwnersIInv ==
  ASSUME IInv, NEW l \in Levels,
         PutRule(l) \/ DeleteRule(l) \/ DeleteProject \/ CreateProject
  PROVE  IInv'
PROOF
  <1> USE DEF IInv
  <1>1. UNCHANGED <<oauth, browser, ghosts>>
    BY DEF PutRule, DeleteRule, DeleteProject, CreateProject
  <1>2. /\ hashes' \in 0 .. MaxHash /\ hashes <= hashes'
        /\ lives' \in 1 .. MaxLives /\ lives <= lives' /\ exists' \in BOOLEAN
        /\ rule' \in [Levels -> Rule \cup {None}]
        /\ \A m \in Levels : rule'[m] # None => rule'[m].hash <= hashes'
    <2>1. CASE PutRule(l)
      <3>1. PICK setting \in Settings :
              /\ hashes' = hashes + (IF setting.password THEN 1 ELSE 0)
              /\ rule' = [rule EXCEPT ![l] =
                   [ips |-> setting.ips, hash |-> IF setting.password THEN hashes' ELSE 0,
                    wecom |-> setting.wecom, allowed |-> setting.allowed]]
        BY <2>1 DEF PutRule
      <3> DEFINE new == [ips |-> setting.ips, hash |-> IF setting.password THEN hashes' ELSE 0,
                         wecom |-> setting.wecom, allowed |-> setting.allowed]
      <3>2. hashes \in 0 .. MaxHash /\ hashes' <= MaxHash /\ UNCHANGED <<lives, exists>>
        BY <2>1 DEF PutRule, TypeOK
      <3>3. hashes' \in 0 .. MaxHash /\ hashes <= hashes'
        BY <3>1, <3>2, VisitorAssumption
      <3>4. new \in Rule /\ new.hash <= hashes'
        BY <3>3, VisitorAssumption DEF Rule, Lists
      <3>5. \A m \in Levels : rule'[m] = IF m = l THEN new ELSE rule[m]
        BY <3>1 DEF TypeOK
      <3>6. \A m \in Levels : rule'[m] # None => rule'[m].hash <= hashes'
        <4> SUFFICES ASSUME NEW m \in Levels, rule'[m] # None PROVE rule'[m].hash <= hashes'
          OBVIOUS
        <4>1. CASE m = l
          BY <3>4, <3>5, <4>1
        <4>2. CASE m # l
          <5>1. rule'[m] = rule[m] /\ rule[m] # None
            BY <3>5, <4>2
          <5>2. rule[m].hash \in 0 .. MaxHash /\ rule[m].hash <= hashes
            BY <5>1 DEF TypeOK, Rule
          <5> QED BY <3>2, <3>3, <5>1, <5>2, VisitorAssumption
        <4> QED BY <4>1, <4>2
      <3> QED BY <3>1, <3>2, <3>3, <3>4, <3>6, VisitorAssumption DEF TypeOK
    <2>2. CASE DeleteRule(l) \/ DeleteProject \/ CreateProject
      <3>1. /\ hashes' = hashes /\ \A m \in Levels : rule'[m] \in {rule[m], None}
            /\ rule' \in [Levels -> Rule \cup {None}]
        BY <2>2 DEF DeleteRule, DeleteProject, CreateProject, TypeOK
      <3>2. lives' \in 1 .. MaxLives /\ lives <= lives' /\ exists' \in BOOLEAN
        <4>1. lives \in 1 .. MaxLives /\ exists \in BOOLEAN /\ MaxLives \in Nat
          BY VisitorAssumption DEF TypeOK
        <4>2. exists' \in BOOLEAN
          BY <2>2, <4>1, Zenon DEF DeleteRule, DeleteProject, CreateProject
        <4>3. lives' = lives \/ (lives < MaxLives /\ lives' = lives + 1)
          BY <2>2 DEF DeleteRule, DeleteProject, CreateProject
        <4> QED BY <4>1, <4>2, <4>3
      <3>3. \A m \in Levels : rule'[m] # None => rule'[m].hash <= hashes'
        BY <3>1 DEF TypeOK
      <3> QED BY <3>1, <3>2, <3>3, VisitorAssumption DEF TypeOK
    <2> QED BY <2>1, <2>2
  <1>3. TypeOK'
    BY <1>1, <1>2, VisitorAssumption DEF TypeOK, oauth, browser, display, ghosts
  <1>4. CookiesEarned' /\ StateUsedOnce' /\ StatesGenerated' /\ Marker'
    BY <1>1 DEF CookiesEarned, Earned, StateUsedOnce, StatesGenerated, Marker, oauth, browser, ghosts
  <1>5. FormLock'
    <2>1. 0 .. hashes \subseteq 0 .. hashes'
      BY <1>2, VisitorAssumption DEF TypeOK
    <2> QED BY <1>1, <2>1 DEF FormLock, browser, display
  <1> QED BY <1>3, <1>4, <1>5

\* The visitor moves between pages.
LEMMA BrowsingIInv ==
  ASSUME IInv, Visit \/ Stop \/ Back \/ ExpireCookie \/ Decline \/ Forget PROVE IInv'
PROOF
  <1> USE DEF IInv
  <1>1. CASE Visit \/ Decline
    <2>1. page' \in Page /\ cached' \in Page /\ posts' = {} /\ stopped' \in BOOLEAN /\ FormLock'
      BY <1>1, DecisionPage, PlainPage, GoKeeps DEF Visit, Decline, Kinds, site
    <2>2. UNCHANGED <<site, oauth, jar, marked, ghosts>>
      BY <1>1 DEF Visit, Decline
    <2>3. TypeOK'
      BY <2>1, <2>2 DEF TypeOK, site, oauth, ghosts
    <2>4. CookiesEarned' /\ StateUsedOnce' /\ StatesGenerated' /\ Marker'
      BY <2>2 DEF CookiesEarned, Earned, StateUsedOnce, StatesGenerated, Marker, oauth, ghosts
    <2> QED BY <2>1, <2>3, <2>4
  <1>2. CASE Stop
    <2>1. TypeOK' /\ CookiesEarned' /\ StateUsedOnce' /\ StatesGenerated' /\ Marker'
      BY <1>2 DEF Stop, TypeOK, CookiesEarned, Earned, StateUsedOnce, StatesGenerated, Marker,
         site, oauth, ghosts
    <2>2. FormLock'
      BY <1>2 DEF Stop, FormLock, site
    <2> QED BY <2>1, <2>2
  <1>3. CASE Back
    <2>1. page' \in Page /\ ~ page'.locked
      BY <1>3 DEF Back, Restored, TypeOK, Page
    <2>2. TypeOK'
      BY <1>3, <2>1, PlainPage DEF Back, TypeOK, Kinds, site, oauth, ghosts
    <2>3. CookiesEarned' /\ StateUsedOnce' /\ StatesGenerated' /\ Marker'
      BY <1>3 DEF Back, CookiesEarned, Earned, StateUsedOnce, StatesGenerated, Marker, oauth, ghosts
    <2>4. FormLock'
      BY <1>3, <2>1 DEF Back, FormLock, site
    <2> QED BY <2>2, <2>3, <2>4
  <1>4. CASE ExpireCookie
    <2>1. UNCHANGED <<site, oauth, marked, display, ghosts>>
      BY <1>4 DEF ExpireCookie
    <2>2. /\ jar' \in Seq(Cookie)
          /\ \A i \in DOMAIN jar' : \E j \in DOMAIN jar : jar'[i] = jar[j]
      <3>1. PICK k \in DOMAIN jar :
              jar' = SubSeq(jar, 1, k - 1) \o SubSeq(jar, k + 1, Len(jar))
        BY <1>4 DEF ExpireCookie
      <3> QED BY <3>1, ExpiryKeeps
    <2>3. TypeOK'
      BY <2>1, <2>2 DEF TypeOK, site, oauth, display, ghosts
    <2>4. CookiesEarned'
      BY <2>1, <2>2, CookiesFrame DEF ghosts
    <2>5. StateUsedOnce' /\ StatesGenerated' /\ Marker' /\ FormLock'
      BY <2>1, DisplayFrame DEF StateUsedOnce, StatesGenerated, Marker, site, oauth, ghosts
    <2> QED BY <2>3, <2>4, <2>5
  <1>5. CASE Forget
    <2>1. TypeOK' /\ CookiesEarned' /\ StateUsedOnce' /\ StatesGenerated' /\ Marker'
      BY <1>5 DEF Forget, Failures, TypeOK, CookiesEarned, Earned, StateUsedOnce,
         StatesGenerated, Marker, site, oauth,
         display
    <2> QED BY <1>5, <2>1, DisplayFrame DEF Forget, site
  <1> QED BY <1>1, <1>2, <1>3, <1>4, <1>5

\* The visitor submits a password, and the site answers.
LEMMA PasswordIInv ==
  ASSUME IInv, NEW hash \in 0 .. hashes, Submit(hash) \/ AnswerPost(hash) PROVE IInv'
PROOF
  <1> USE DEF IInv
  <1>1. CASE Submit(hash)
    <2>1. posts = {} /\ page \in Page
      BY <1>1 DEF Submit, Unlocked, FormLock, TypeOK
    <2>2. page' \in Page /\ page'.locked /\ posts' = {hash} /\ stopped' = FALSE
      BY <1>1, <2>1 DEF Submit, Page
    <2>3. TypeOK' /\ CookiesEarned' /\ StateUsedOnce' /\ StatesGenerated' /\ Marker'
      BY <1>1, <2>2 DEF Submit, TypeOK, CookiesEarned, Earned, StateUsedOnce, StatesGenerated, Marker, site,
         oauth, ghosts
    <2>4. FormLock'
      BY <1>1, <2>2 DEF Submit, FormLock, site
    <2> QED BY <2>3, <2>4
  <1>2. CASE AnswerPost(hash)
    <2>1. UNCHANGED <<site, oauth, marked, failed>>
      BY <1>2 DEF AnswerPost
    <2>2. /\ page' \in Page /\ cached' \in Page /\ posts' = {} /\ stopped' \in BOOLEAN
          /\ FormLock'
      <3>1. \E to \in Page : ~ to.locked /\ Go(to)
        <4>1. CASE Go(Plain("error")) \/ Go(Plain("nothing"))
          BY <4>1, PlainPage DEF Kinds
        <4>2. CASE Applies # None /\ Go(FormOf(Applies))
          BY <4>2, AppliesType, FormPage
        <4> QED BY <1>2, <4>1, <4>2 DEF AnswerPost
      <3> QED BY <2>1, <3>1, GoKeeps DEF site
    <2>3. CASE UNCHANGED <<jar, proven>>
      <3>1. TypeOK' /\ CookiesEarned' /\ StateUsedOnce' /\ StatesGenerated' /\ Marker'
        BY <2>1, <2>2, <2>3 DEF TypeOK, CookiesEarned, Earned, StateUsedOnce,
           StatesGenerated, Marker, site, oauth
      <3> QED BY <2>2, <3>1
    <2>4. CASE ~ UNCHANGED <<jar, proven>>
      <3> DEFINE c == [scope |-> "host", level |-> Level, method |-> "pwd", hash |-> hash,
                       allowed |-> {}]
      <3>1. /\ jar' = SetCookie(c) /\ proven' = proven \cup {hash}
        BY <1>2, <2>4 DEF AnswerPost
      <3>2. c \in Cookie /\ c.method = "pwd" /\ c.hash = hash
        BY VisitorAssumption DEF Cookie, Level, Levels, Lists, TypeOK
      <3>3. /\ jar' \in Seq(Cookie)
            /\ \A k \in DOMAIN jar' : jar'[k] = c \/ \E j \in DOMAIN jar : jar'[k] = jar[j]
        BY <3>1, <3>2, SetCookieKeeps
      <3>4. TypeOK' /\ StateUsedOnce' /\ StatesGenerated' /\ Marker'
        BY <2>1, <2>2, <3>1, <3>3 DEF TypeOK, StateUsedOnce, StatesGenerated, Marker, site, oauth
      <3>5. CookiesEarned'
        BY <3>1, <3>2, <3>3 DEF CookiesEarned, Earned
      <3> QED BY <2>2, <3>4, <3>5
    <2> QED BY <2>3, <2>4
  <1> QED BY <1>1, <1>2

\* The states of the WeCom login.
LEMMA StatesIInv ==
  ASSUME IInv, Authorize \/ Restart \/ \E s \in States : ExpireState(s) PROVE IInv'
PROOF
  <1> USE DEF IInv
  <1>1. CASE Authorize
    <2>1. UNCHANGED <<site, expired, callbacks, spent, jar, marked, ghosts>>
      BY <1>1 DEF Authorize
    <2>2. /\ page' \in Page /\ cached' \in Page /\ posts' = {} /\ stopped' \in BOOLEAN
          /\ FormLock'
      BY <1>1, PlainPage, GoKeeps DEF Authorize, Kinds, site
    <2>3. /\ generated' \in 0 .. MaxState /\ generated <= generated'
          /\ states' \in [States -> 0 .. lives]
          /\ \A s \in States : states'[s] \in {0, states[s]} \/ s = generated + 1
      <3>0. /\ generated \in 0 .. MaxState /\ MaxState \in Nat /\ lives \in Nat
            /\ states \in [States -> 0 .. lives]
        BY VisitorAssumption DEF TypeOK
      <3>1. CASE UNCHANGED <<generated, states>>
        BY <3>0, <3>1
      <3>2. CASE /\ generated < MaxState /\ generated' = generated + 1
                 /\ states' = [s \in States |-> IF s = generated' THEN lives
                                                ELSE IF s \in expired THEN 0 ELSE states[s]]
        BY <3>0, <3>2
      <3> QED BY <1>1, <3>1, <3>2 DEF Authorize
    <2>4. TypeOK'
      <3>1. 1 .. generated \subseteq 1 .. generated'
        BY <2>3, VisitorAssumption DEF TypeOK
      <3>2. [state : 1 .. generated, project : 1 .. lives]
              \subseteq [state : 1 .. generated', project : 1 .. lives]
        BY <3>1
      <3> QED BY <2>1, <2>2, <2>3, <3>1, <3>2 DEF TypeOK, site, ghosts
    <2>5. StateUsedOnce' /\ StatesGenerated'
      <3>0. /\ generated \in Nat /\ spent \subseteq 1 .. generated /\ spent' = spent
        BY <2>1, VisitorAssumption DEF TypeOK
      <3>1. /\ \A s \in States : states'[s] # 0 => states[s] # 0 \/ s = generated + 1
            /\ \A s \in States : s = generated + 1 /\ states'[s] # 0
                 => states[s] # 0 \/ generated' = generated + 1
            /\ generated' \in Nat /\ generated <= generated'
        <4>0. /\ generated \in 0 .. MaxState /\ MaxState \in Nat
          BY VisitorAssumption DEF TypeOK
        <4>1. CASE UNCHANGED <<generated, states>>
          BY <4>0, <4>1
        <4>2. CASE /\ generated < MaxState /\ generated' = generated + 1
                   /\ states' = [s \in States |-> IF s = generated' THEN lives
                                                  ELSE IF s \in expired THEN 0 ELSE states[s]]
          BY <4>0, <4>2
        <4> QED BY <1>1, <4>1, <4>2 DEF Authorize
      <3>2. \A s \in spent : s \in States /\ s <= generated
        BY <3>0, VisitorAssumption DEF TypeOK, States
      <3>3. StateUsedOnce'
        BY <3>0, <3>1, <3>2 DEF StateUsedOnce
      <3>4. StatesGenerated'
        <4>1. ASSUME NEW s \in States, states'[s] # 0 PROVE s <= generated'
          <5>1. s \in Int /\ (states[s] # 0 => s <= generated)
            BY DEF StatesGenerated, States
          <5> QED BY <3>0, <3>1, <4>1, <5>1
        <4> QED BY <4>1 DEF StatesGenerated
      <3> QED BY <3>3, <3>4
    <2>6. CookiesEarned' /\ Marker'
      BY <2>1 DEF CookiesEarned, Earned, Marker, ghosts
    <2> QED BY <2>2, <2>4, <2>5, <2>6
  <1>2. CASE Restart
    <2>1. TypeOK'
      BY <1>2, VisitorAssumption DEF Restart, TypeOK, States, site, browser, display, ghosts
    <2>2. StateUsedOnce' /\ StatesGenerated' /\ CookiesEarned' /\ Marker'
      BY <1>2, VisitorAssumption DEF Restart, StateUsedOnce, StatesGenerated, TypeOK, States, CookiesEarned,
         Earned, Marker, browser, ghosts
    <2> QED BY <1>2, <2>1, <2>2, DisplayFrame DEF Restart, site, browser
  <1>3. ASSUME NEW s \in States, ExpireState(s) PROVE IInv'
    <2>1. s \in 1 .. generated
      BY <1>3 DEF ExpireState, StatesGenerated, States
    <2>2. TypeOK'
      BY <1>3, <2>1 DEF ExpireState, TypeOK, site, browser, display, ghosts
    <2>3. StateUsedOnce' /\ StatesGenerated' /\ CookiesEarned' /\ Marker'
      BY <1>3 DEF ExpireState, StateUsedOnce, StatesGenerated, CookiesEarned, Earned, Marker, browser, ghosts
    <2> QED BY <1>3, <2>2, <2>3, DisplayFrame DEF ExpireState, site, browser
  <1> QED BY <1>1, <1>2, <1>3

\* A callback takes its state, and keeps it for the exchange if it was still good.
LEMMA CallbackIInv == ASSUME IInv, NEW s \in States, Callback(s) PROVE IInv'
PROOF
  <1> USE DEF IInv
  <1>1. /\ s <= generated /\ states' = [states EXCEPT ![s] = 0]
        /\ UNCHANGED <<site, generated, expired, jar, proven>>
    BY DEF Callback, Take
  <1>2. /\ states' \in [States -> 0 .. lives]
        /\ \A t \in States : states'[t] = IF t = s THEN 0 ELSE states[t]
    BY <1>1, VisitorAssumption DEF TypeOK
  <1>3. StatesGenerated'
    BY <1>1, <1>2 DEF StatesGenerated
  <1>4. CookiesEarned'
    BY <1>1 DEF CookiesEarned, Earned
  <1>5. CASE Reads(s)
    <2>1. /\ callbacks' = callbacks \cup {[state |-> s, project |-> states[s]]}
          /\ spent' = spent \cup {s} /\ UNCHANGED <<marked, failed, display>>
      BY <1>5 DEF Callback
    <2>2. s \in 1 .. generated /\ states[s] \in 1 .. lives
      BY <1>1, <1>5, VisitorAssumption DEF Reads, States, TypeOK
    <2>3. [state |-> s, project |-> states[s]] \in [state : 1 .. generated, project : 1 .. lives]
      BY <2>2
    <2>4. TypeOK'
      <3>1. callbacks' \subseteq [state : 1 .. generated, project : 1 .. lives]
        BY <2>1, <2>3 DEF TypeOK
      <3>2. spent' \subseteq 1 .. generated
        BY <2>1, <2>2 DEF TypeOK
      <3>3. UNCHANGED <<site, generated, expired, jar, proven, marked, failed, display>>
        BY <1>1, <2>1
      <3> QED BY <1>2, <3>1, <3>2, <3>3 DEF TypeOK, site, display
    <2>5. StateUsedOnce'
      <3>1. spent \subseteq States
        BY VisitorAssumption DEF TypeOK, States
      <3>2. ASSUME NEW t \in spent' PROVE states'[t] = 0
        BY <1>2, <2>1, <3>1, <3>2 DEF StateUsedOnce
      <3> QED BY <3>2 DEF StateUsedOnce
    <2>6. Marker' /\ FormLock'
      BY <1>1, <2>1, DisplayFrame DEF Marker, site
    <2> QED BY <1>3, <1>4, <2>4, <2>5, <2>6
  <1>6. CASE ~ Reads(s)
    <2>1. Mark(FALSE) /\ Go(Plain("error")) /\ UNCHANGED <<callbacks, spent>>
      BY <1>6 DEF Callback
    <2>2. /\ page' \in Page /\ cached' \in Page /\ posts' = {} /\ stopped' \in BOOLEAN
          /\ FormLock'
      BY <1>1, <2>1, PlainPage, GoKeeps DEF Kinds, site
    <2>3. marked' \in BOOLEAN /\ failed' \in Failures /\ Marker'
      BY <2>1, MarkKeeps
    <2>4. TypeOK'
      BY <1>1, <1>2, <2>1, <2>2, <2>3 DEF TypeOK, site
    <2>5. StateUsedOnce'
      BY <1>2, <2>1, VisitorAssumption DEF StateUsedOnce, TypeOK, States
    <2> QED BY <1>3, <1>4, <2>2, <2>3, <2>4, <2>5
  <1> QED BY <1>5, <1>6

\* The exchange is over: the callback fails, or the visitor gets his cookie.
LEMMA ExchangeIInv ==
  ASSUME IInv, NEW c \in callbacks, FailCallback(c) \/ FinishCallback(c) PROVE IInv'
PROOF
  <1> USE DEF IInv
  <1>1. /\ callbacks' = callbacks \ {c}
        /\ UNCHANGED <<site, generated, states, expired, spent>>
    BY DEF FailCallback, FinishCallback
  <1>2. /\ page' \in Page /\ cached' \in Page /\ posts' = {} /\ stopped' \in BOOLEAN
        /\ FormLock'
    BY <1>1, PlainPage, GoKeeps DEF FailCallback, FinishCallback, Kinds, site
  <1>3. StateUsedOnce' /\ StatesGenerated'
    BY <1>1 DEF StateUsedOnce, StatesGenerated
  <1>4. CASE FailCallback(c)
    <2>1. UNCHANGED <<jar, proven>>
      BY <1>4 DEF FailCallback
    <2>2. marked' \in BOOLEAN /\ failed' \in Failures /\ Marker'
      <3>1. CASE Mark(TRUE)
        BY <3>1, MarkKeeps
      <3>2. CASE UNCHANGED <<marked, failed>>
        BY <3>2 DEF Marker, TypeOK
      <3> QED BY <1>4, <3>1, <3>2 DEF FailCallback
    <2>3. TypeOK'
      BY <1>1, <1>2, <2>1, <2>2 DEF TypeOK, site
    <2>4. CookiesEarned'
      BY <2>1 DEF CookiesEarned, Earned
    <2> QED BY <1>2, <1>3, <2>2, <2>3, <2>4
  <1>5. CASE FinishCallback(c)
    <2> DEFINE k == [scope |-> IF Central THEN "parent" ELSE "host", level |-> Level,
                     method |-> "wework", hash |-> 0, allowed |-> Applies.allowed]
    <2>1. /\ jar' = SetCookie(k) /\ marked' = FALSE /\ failed' = "none"
          /\ proven' = proven \cup {0} /\ Applies # None
      BY <1>5 DEF FinishCallback, Admits
    <2>2. k \in Cookie /\ k.method = "wework"
      <3>1. Applies.allowed \in Lists
        BY <2>1, AppliesType DEF Rule
      <3>2. 0 \in 0 .. MaxHash /\ Level \in Levels
        BY VisitorAssumption DEF Level, Levels
      <3> QED BY <3>1, <3>2 DEF Cookie
    <2>3. /\ jar' \in Seq(Cookie)
          /\ \A i \in DOMAIN jar' : jar'[i] = k \/ \E j \in DOMAIN jar : jar'[i] = jar[j]
      BY <2>1, <2>2, SetCookieKeeps
    <2>4. proven' \subseteq 0 .. hashes
      BY <2>1, VisitorAssumption DEF TypeOK
    <2>5. TypeOK'
      BY <1>1, <1>2, <2>1, <2>3, <2>4 DEF TypeOK, Failures, site
    <2>6. CookiesEarned'
      BY <2>1, <2>2, <2>3 DEF CookiesEarned, Earned
    <2>7. Marker'
      BY <2>1 DEF Marker
    <2> QED BY <1>2, <1>3, <2>5, <2>6, <2>7
  <1> QED BY <1>4, <1>5

LEMMA StutterIInv == ASSUME IInv, UNCHANGED vars PROVE IInv'
PROOF
  <1>1. UNCHANGED <<site, oauth, browser, ghosts>>
    BY DEF vars
  <1>2. TypeOK' /\ StatesGenerated' /\ StateUsedOnce'
    BY <1>1 DEF IInv, TypeOK, StatesGenerated, StateUsedOnce, site, oauth, browser, display,
       ghosts
  <1>3. CookiesEarned' /\ Marker' /\ FormLock'
    BY <1>1, DisplayFrame DEF IInv, CookiesEarned, Earned, Marker, site, browser, ghosts
  <1> QED BY <1>2, <1>3 DEF IInv

LEMMA NextIInv == IInv /\ [Next]_vars => IInv'
PROOF
  <1> SUFFICES ASSUME IInv, [Next]_vars PROVE IInv'
    OBVIOUS
  <1>1. ASSUME NEW l \in Levels, PutRule(l) \/ DeleteRule(l) PROVE IInv'
    BY <1>1, OwnersIInv
  <1>2. CASE DeleteProject \/ CreateProject
    BY <1>2, OwnersIInv DEF Levels
  <1>3. CASE Visit \/ Stop \/ Back \/ ExpireCookie \/ Decline \/ Forget
    BY <1>3, BrowsingIInv
  <1>4. CASE Authorize \/ Restart
    BY <1>4, StatesIInv
  <1>5. ASSUME NEW hash \in 0 .. hashes, Submit(hash) \/ AnswerPost(hash) PROVE IInv'
    BY <1>5, PasswordIInv
  <1>6. ASSUME NEW s \in States, ExpireState(s) \/ Callback(s) PROVE IInv'
    BY <1>6, StatesIInv, CallbackIInv
  <1>7. ASSUME NEW c \in callbacks, FailCallback(c) \/ FinishCallback(c) PROVE IInv'
    BY <1>7, ExchangeIInv
  <1> QED BY <1>1, <1>2, <1>3, <1>4, <1>5, <1>6, <1>7, StutterIInv DEF Next

-----------------------------------------------------------------------------
THEOREM Inductive == Spec => []IInv
  BY InitIInv, NextIInv, PTL DEF Spec

\* Every variable keeps its type; rules, cookies, states and callbacks come from what existed.
THEOREM VisitorTypes == Spec => []TypeOK
  BY Inductive, PTL DEF IInv

\* The site serves its content only under the rule in force: siteHandler accepts a cookie
\* only for the password or the allow-list it was signed for (server/site.go).
THEOREM ContentIsAuthorized == Spec => []ServedAuthorized
PROOF
  <1>1. IInv => ServedAuthorized
    <2> SUFFICES ASSUME IInv, Decision.shows = "content", Applies # None, Applies.ips # "visitor"
                 PROVE  \/ Applies.hash > 0 /\ Applies.hash \in proven
                        \/ 0 \in proven /\ Admits
      BY DEF ServedAuthorized
    <2>1. Accepted
      <3>1. /\ Plain("error").shows # "content" /\ Plain("authorize").shows # "content"
            /\ FormOf(Applies).shows # "content"
        BY DEF Plain, FormOf
      <3> QED BY <3>1 DEF Decision
    <2>2. jar # <<>> /\ jar \in Seq(Cookie) /\ Signed(jar[1])
      BY <2>1 DEF Accepted, IInv, TypeOK
    <2>3. Earned(jar[1])
      BY <2>2 DEF IInv, CookiesEarned
    <2> QED BY <2>2, <2>3 DEF Signed, Earned, Admits
  <1> QED BY <1>1, Inductive, PTL

\* An OAuth state is exchanged at most once (wework/state.go: Consume deletes under its
\* lock), for every number of concurrent callbacks.
THEOREM StatesAreUsedOnce == Spec => []StateUsedOnce
  BY Inductive, PTL DEF IInv

\* The login form never submits twice and is never stuck (visitor/main.tsx).
THEOREM FormIsUsable == Spec => []FormUsable
PROOF
  <1>1. IInv => FormUsable
    <2> SUFFICES ASSUME IInv PROVE Cardinality(posts) <= 1
      BY DEF IInv, FormLock, FormUsable
    <2>1. PICK hash \in 0 .. hashes : posts \subseteq {hash}
      BY DEF IInv, FormLock
    <2>2. posts = {} \/ posts = {hash}
      BY <2>1
    <2> QED BY <2>2, FS_EmptySet, FS_Singleton
  <1> QED BY <1>1, Inductive, PTL

\* A login that failed at its exchange or its rule is not followed by another one by
\* itself, wherever WeCom calls back; with the callback on the site's own host nor is one
\* with an unknown state (wework_handler.go: markWeWorkAttemptFailed).
THEOREM MarkedFailureStopsLoop == Spec => []NoLoopBack
PROOF
  <1>1. IInv => NoLoopBack
    <2> SUFFICES ASSUME IInv, failed = "known" \/ (failed = "unknown" /\ ~ Central)
                 PROVE  Decision.shows # "authorize"
      BY DEF NoLoopBack
    <2>1. ~ Redirects
      BY DEF IInv, Marker, Redirects
    <2>2. /\ Plain("error").shows # "authorize" /\ Plain("content").shows # "authorize"
          /\ FormOf(Applies).shows # "authorize"
      BY DEF Plain, FormOf
    <2> QED BY <2>1, <2>2 DEF Decision
  <1> QED BY <1>1, Inductive, PTL
=============================================================================
