----------------------------- MODULE CookieJar -----------------------------
(***************************************************************************)
(* The cookie jar (secrets/auth.ts).  It keeps the cookies of a domain in  *)
(* one entry of a state store, set without a time to live, so the entry is *)
(* its value here; the store itself is StateStore.  set() reads the entry, *)
(* changes it and writes it back without suspending; fetch() suspends      *)
(* between reading the cookies it sends and storing those of the answer.   *)
(***************************************************************************)
EXTENDS Clock

CONSTANTS Domain, Cookie, CookieValue, Request

ASSUME CookieAssumption == None \notin [content : CookieValue, expiresAt : Nat \cup {Never}]

VARIABLES
  jar,       \* what is stored for each domain; None for a name without cookie
  fetching,  \* per fetch: its domain and what it sent, None before and after
  answered   \* the fetches that are over

inJarVars == <<jar, fetching, answered>>
jarVars == <<inJarVars, now>>

CookieDate == 0 .. MaxTime \cup {Never}
NoCookies == [c \in Cookie |-> None]
Cookies == [Cookie -> [content : CookieValue, expiresAt : CookieDate] \cup {None}]

JarInit ==
  /\ jar = [d \in Domain |-> NoCookies] /\ now = 0
  /\ fetching = [r \in Request |-> None] /\ answered = {}

LiveCookie(x) == x # None /\ (x.expiresAt = Never \/ x.expiresAt > now)

\* What is stored for a domain, without the expired cookies; get() and getAll().
GetCookies(d) == [c \in Cookie |-> IF LiveCookie(jar[d][c]) THEN jar[d][c] ELSE None]

JarSet(d) ==
  /\ \E c \in Cookie, v \in CookieValue, t \in CookieDate :
       jar' = [jar EXCEPT ![d] = [GetCookies(d) EXCEPT ![c] = [content |-> v, expiresAt |-> t]]]
  /\ UNCHANGED <<fetching, answered, now>>

JarClear(d) == jar' = [jar EXCEPT ![d] = NoCookies] /\ UNCHANGED <<fetching, answered, now>>

ClearAll == jar' = [d \in Domain |-> NoCookies] /\ UNCHANGED <<fetching, answered, now>>

JarFetch(r, d) ==
  /\ fetching[r] = None /\ r \notin answered
  /\ fetching' = [fetching EXCEPT ![r] = [domain |-> d, sent |-> GetCookies(d)]]
  /\ UNCHANGED <<jar, answered, now>>

\* The cookies of an answer, set one after the other.  Each set() also drops the
\* earlier ones that have expired already; no reader sees those, so they stay here.
Merged(stored, cookies) == [c \in Cookie |-> IF cookies[c] # None THEN cookies[c] ELSE stored[c]]

BugAnswerUpdatesSent(r) ==
  /\ fetching[r] # None
  /\ \E cookies \in Cookies :
       jar' = [jar EXCEPT ![fetching[r].domain] = Merged(fetching[r].sent, cookies)]
  /\ fetching' = [fetching EXCEPT ![r] = None] /\ answered' = answered \cup {r}
  /\ UNCHANGED now

JarAnswer(r) ==
  /\ fetching[r] # None
  /\ LET d == fetching[r].domain
     IN  \E cookies \in Cookies :
           jar' = [jar EXCEPT ![d] = IF cookies = NoCookies THEN @ ELSE Merged(GetCookies(d), cookies)]
  /\ fetching' = [fetching EXCEPT ![r] = None] /\ answered' = answered \cup {r}
  /\ UNCHANGED now

\* The request fails: the exception leaves fetch() and nothing is stored.
JarFetchFails(r) ==
  /\ fetching[r] # None
  /\ fetching' = [fetching EXCEPT ![r] = None] /\ answered' = answered \cup {r}
  /\ UNCHANGED <<jar, now>>

JarTick == Tick /\ UNCHANGED inJarVars

JarNext ==
  \/ \E d \in Domain : JarSet(d) \/ JarClear(d)
  \/ \E r \in Request, d \in Domain : JarFetch(r, d)
  \/ \E r \in Request : JarAnswer(r) \/ JarFetchFails(r)
  \/ ClearAll \/ JarTick

JarSpec == JarInit /\ [][JarNext]_jarVars
-----------------------------------------------------------------------------
\* Domains hold cookies, and a fetch what it sent.
JarTypeOK ==
  /\ jar \in [Domain -> Cookies]
  /\ fetching \in [Request -> [domain : Domain, sent : Cookies] \cup {None}]
  /\ answered \subseteq Request
  /\ now \in 0 .. MaxTime

\* A cookie that has not expired leaves the jar only when the jar is cleared:
\* an answer that comes late forgets nothing that was stored since its request.
NoCookieLost ==
  [][\A d \in Domain, c \in Cookie :
       LiveCookie(jar[d][c]) /\ jar'[d][c] = None => JarClear(d) \/ ClearAll]_jarVars
=============================================================================
