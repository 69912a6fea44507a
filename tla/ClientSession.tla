--------------------------- MODULE ClientSession ---------------------------
(***************************************************************************)
(* Sign-in, restoration after a reload, the idle and the absolute clock    *)
(* that the tabs of a browser share, and sign-out: by the user, by the     *)
(* clock, by a 401 of the server and by another tab.  A tab is one page of *)
(* the client; its requests are answered late, in any order or never.      *)
(***************************************************************************)
EXTENDS Integers, FiniteSets

CONSTANTS Tabs,
          IDLE_TIMEOUT, ABSOLUTE_SESSION, SESSION_TTL, WRITE_THROTTLE,
          MaxClock,   \* bound on time
          MaxTokens,  \* bound on sign-ins
          LastSignIn, \* bound on the time of the last sign-in
          MaxAsks     \* bound on the requests on their way

ASSUME SessionAssumption ==
    /\ IDLE_TIMEOUT \in Nat /\ ABSOLUTE_SESSION \in Nat /\ SESSION_TTL \in Nat
    /\ WRITE_THROTTLE \in Nat /\ MaxClock \in Nat /\ MaxTokens \in Nat /\ LastSignIn \in Nat /\ MaxAsks \in Nat

VARIABLES now,
          tokens,    \* the server's tokens: issued, last used; a revoked one is Missing
          activity, start,  \* localStorage, one for all tabs
          tab,       \* the state of each page and its sessionStorage
          news,      \* tabs with a storage event not handled yet
          asks,      \* requests on their way
          lastInput, \* history: when somebody last touched a signed-in tab
          solo       \* history: no other tab moved the clock of this session

sessionVars == <<now, tokens, activity, start, tab, news, asks, lastInput, solo>>
storage == <<activity, start>>
history == <<lastInput, solo>>

-----------------------------------------------------------------------------
Missing == -1
NoSession == 0
Time == 0..MaxClock
Issued == DOMAIN tokens
Token == NoSession..MaxTokens

(* A request: who asked, what for, the token it carries, whether the idle  *)
(* clock asked for it, and what the server said.                           *)
Kinds == {"login", "me", "read", "logout"}
Causes == {"idle", "other"}
Asks == [tab : Tabs, kind : Kinds, auth : Token, why : Causes, answer : {"none", "ok", "refused"}]
Ask(t, kind, auth, why) == [tab |-> t, kind |-> kind, auth |-> auth, why |-> why, answer |-> "none"]
Of(t, kind) == {a \in asks : a.tab = t /\ a.kind = kind}
Room == Cardinality(asks) < MaxAsks

SignedIn(t) == tab[t].status = "authenticated"

Page(status, kept) == [status |-> status, session |-> NoSession, ref |-> NoSession, memory |-> NoSession,
                       kept |-> kept, wrote |-> Missing]

SessionTypeOK ==
    /\ now \in Time
    /\ tokens \in [1..Cardinality(Issued) -> [issued : Time, used : Time \cup {Missing}]]
    /\ activity \in Time \cup {Missing} /\ start \in Time \cup {Missing}
    /\ tab \in [Tabs -> [status : {"restoring", "authenticated", "unauthenticated"}, session : Token,
                         ref : Token, memory : Token, kept : Token, wrote : Time \cup {Missing}]]
    /\ news \subseteq Tabs /\ asks \subseteq Asks
    /\ lastInput \in Time /\ solo \in [Tabs -> BOOLEAN]

SessionInit ==
    /\ now = 0 /\ tokens = <<>> /\ activity = Missing /\ start = Missing
    /\ tab = [t \in Tabs |-> Page("unauthenticated", NoSession)]
    /\ news = {} /\ asks = {}
    /\ lastInput = 0 /\ solo = [t \in Tabs |-> FALSE]

-----------------------------------------------------------------------------
(* Somebody else moved the shared clock.                                   *)
OthersAffected(t) == solo' = [u \in Tabs |-> u = t]

(* resetSessionClock.                                                      *)
resetSessionClock == start' = now /\ activity' = now

(* anchorSessionClock: the stored start counts only if it is not newer     *)
(* than the token.                                                         *)
anchorSessionClockMutant(issued) ==
    /\ start' = IF start # Missing THEN start ELSE now
    /\ activity' = now
anchorSessionClock(issued) ==
    /\ start' = IF start # Missing /\ start <= now /\ start <= issued THEN start ELSE issued
    /\ activity' = now

clearSessionClock == activity' = Missing /\ start' = Missing

(* notifySessionEnded: the other tabs hear that the key was set; the       *)
(* clearSessionClock that follows removes it.                              *)
notifySessionEnded(t) == news' = news \cup (Tabs \ {t})

-----------------------------------------------------------------------------
(* LoginView and AuthContext.login: one attempt at a time.                 *)
Submit(t) ==
    /\ tab[t].status = "unauthenticated" /\ Of(t, "login") = {} /\ Room /\ now <= LastSignIn
    /\ asks' = asks \cup {Ask(t, "login", tab[t].memory, "other")}
    /\ UNCHANGED <<now, tokens, storage, tab, news, history>>

(* A view reads; at boot, before the token is restored, without one.       *)
Read(t) ==
    /\ tab[t].status # "unauthenticated" /\ Of(t, "read") = {} /\ Room
    /\ asks' = asks \cup {Ask(t, "read", tab[t].memory, "other")}
    /\ UNCHANGED <<now, tokens, storage, tab, news, history>>

(* logout: not guarded, the button may be pressed again.                   *)
Logout(t) ==
    /\ SignedIn(t) /\ Room
    /\ asks' = asks \cup {Ask(t, "logout", tab[t].memory, "other")}
    /\ UNCHANGED <<now, tokens, storage, tab, news, history>>

(* The page is loaded anew: what it held in memory is gone, and so are the *)
(* answers it waited for.  A stored token is replayed unless it expired.   *)
Boot(t) ==
    LET kept == tab[t].kept
        live == kept # NoSession /\ now < tokens[kept].issued + SESSION_TTL
    IN /\ tab' = [tab EXCEPT ![t] = IF live THEN Page("restoring", kept)
                                    ELSE Page("unauthenticated", NoSession)]
       /\ asks' = {a \in asks : a.tab # t} \cup
                  (IF live THEN {Ask(t, "me", kept, "other")} ELSE {})
       /\ news' = news \ {t}
       /\ UNCHANGED <<now, tokens, storage, history>>

-----------------------------------------------------------------------------
(* The server: a token is good until it is revoked, is too old, or was not *)
(* used for too long; the request that finds this out revokes it.          *)
Known(k) == k \in Issued /\ tokens[k].used # Missing
Good(k) == /\ Known(k) /\ now - tokens[k].issued < ABSOLUTE_SESSION
           /\ now - tokens[k].used < IDLE_TIMEOUT
Answer(a, said) == asks' = (asks \ {a}) \cup {said}

ServeLogin(a) ==
    /\ a.answer = "none" /\ a.kind = "login"
    /\ \/ /\ Cardinality(Issued) < MaxTokens
          /\ LET k == Cardinality(Issued) + 1
             IN /\ tokens' = [i \in 1..k |-> IF i < k THEN tokens[i]
                                             ELSE [issued |-> now, used |-> now]]
                /\ Answer(a, [a EXCEPT !.answer = "ok", !.auth = k])
       \/ /\ Answer(a, [a EXCEPT !.answer = "refused"])
          /\ UNCHANGED tokens
    /\ UNCHANGED <<now, storage, tab, news, history>>

Serve(a) ==
    /\ a.answer = "none" /\ a.kind # "login"
    /\ Answer(a, [a EXCEPT !.answer = IF Good(a.auth) THEN "ok" ELSE "refused"])
    /\ tokens' = IF ~Known(a.auth) THEN tokens
                 ELSE IF Good(a.auth) /\ a.kind # "logout" THEN [tokens EXCEPT ![a.auth].used = now]
                 ELSE [tokens EXCEPT ![a.auth].used = Missing]
    /\ UNCHANGED <<now, storage, tab, news, history>>

-----------------------------------------------------------------------------
(* expireSession up to its await: once per session.                        *)
Expire(t, page, rest, why) ==
    IF page.ref = NoSession THEN /\ tab' = [tab EXCEPT ![t] = page]
                                 /\ asks' = rest
    ELSE /\ tab' = [tab EXCEPT ![t] = [page EXCEPT !.ref = NoSession]]
         /\ asks' = rest \cup {Ask(t, "logout", page.memory, why)}

(* onUnauthenticated: a 401 counts only if it answers the credential now   *)
(* in use; then the token is dropped and the session expires.              *)
CurrentCredentialMutant(page, auth) == TRUE
CurrentCredential(page, auth) == page.memory = NoSession \/ auth = page.memory
Forget(page) == [page EXCEPT !.memory = NoSession, !.kept = NoSession]

Hear401(a) == IF CurrentCredential(tab[a.tab], a.auth)
              THEN Expire(a.tab, Forget(tab[a.tab]), asks \ {a}, "other")
              ELSE asks' = asks \ {a} /\ UNCHANGED tab

(* What comes back is the server's answer, or an error of the network: the *)
(* request or the answer was lost, or it took too long.                    *)
Results(a) == {"failed"} \cup ({a.answer} \ {"none"})
Refused(a, result) == IF result = "refused" THEN Hear401(a) ELSE asks' = asks \ {a} /\ UNCHANGED tab

GotRead(a) ==
    /\ a.kind = "read"
    /\ \E result \in Results(a) : Refused(a, result)
    /\ UNCHANGED <<now, tokens, storage, news, history>>

Enter(t, k) == [Page("authenticated", k) EXCEPT !.session = k, !.ref = k, !.memory = k]

(* login: a fresh clock, a fresh session; or the error, and the form again. *)
SignIn(a) ==
    /\ a.kind = "login" /\ a.answer = "ok"
    /\ tab' = [tab EXCEPT ![a.tab] = Enter(a.tab, a.auth)]
    /\ asks' = asks \ {a}
    /\ resetSessionClock
    /\ OthersAffected(a.tab) /\ lastInput' = now
    /\ UNCHANGED <<now, tokens, news>>

SignInFails(a) ==
    /\ a.kind = "login"
    /\ \E result \in Results(a) \ {"ok"} : Refused(a, result)
    /\ UNCHANGED <<now, tokens, storage, news, history>>

(* restoreDetailed: the token proved good, was refused and is discarded, or *)
(* nothing is known of it and it is kept for another load.                 *)
Restore(a) ==
    /\ a.kind = "me" /\ a.answer = "ok"
    /\ tab' = [tab EXCEPT ![a.tab] = Enter(a.tab, a.auth)]
    /\ asks' = asks \ {a}
    /\ anchorSessionClock(tokens[a.auth].issued)
    /\ OthersAffected(a.tab) /\ lastInput' = now
    /\ UNCHANGED <<now, tokens, news>>

RestoreFails(a) ==
    /\ a.kind = "me"
    /\ \E result \in Results(a) \ {"ok"} :
           tab' = [tab EXCEPT ![a.tab] = Page("unauthenticated", IF result = "refused" THEN NoSession ELSE @.kept)]
    /\ asks' = asks \ {a}
    /\ UNCHANGED <<now, tokens, storage, news, history>>

(* The end of logout and of expireSession, whatever the server said: the   *)
(* token is dropped, the others are told, the clock is cleared.            *)
EndSession(a) ==
    /\ tab' = [tab EXCEPT ![a.tab] = Page("unauthenticated", NoSession)]
    /\ asks' = asks \ {a}
    /\ notifySessionEnded(a.tab) /\ clearSessionClock
    /\ solo' = [u \in Tabs |-> FALSE]
    /\ UNCHANGED <<now, tokens, lastInput>>
GotLogout(a) == a.kind = "logout" /\ EndSession(a)

(* The storage event: the handler reads the key, which may already be gone. *)
HearEnded(t) ==
    /\ t \in news /\ Room
    /\ news' = news \ {t}
    /\ Expire(t, tab[t], asks, "other") \/ UNCHANGED <<tab, asks>>
    /\ UNCHANGED <<now, tokens, storage, history>>

(* A rendering of AuthProvider while a sign-out is on its way.             *)
Rerender(t) ==
    /\ SignedIn(t) /\ tab[t].ref # tab[t].session
    /\ tab' = [tab EXCEPT ![t].ref = tab[t].session]
    /\ UNCHANGED <<now, tokens, storage, news, asks, history>>

-----------------------------------------------------------------------------
(* markActive: the write is coalesced.                                     *)
MarkActive(t) ==
    /\ SignedIn(t) /\ lastInput' = now
    /\ IF tab[t].wrote # Missing
       THEN UNCHANGED <<activity, tab>>
       ELSE activity' = now /\ tab' = [tab EXCEPT ![t].wrote = now]
    /\ UNCHANGED <<now, tokens, start, news, asks, solo>>

(* The poll of each second.                                                *)
TooOld == start # Missing /\ now - start >= ABSOLUTE_SESSION
TooIdle == activity # Missing /\ now - activity >= IDLE_TIMEOUT
Poll(t) ==
    /\ SignedIn(t) /\ Room
    /\ \/ TooOld /\ Expire(t, tab[t], asks, "other")
       \/ ~TooOld /\ TooIdle /\ Expire(t, tab[t], asks, "idle")
    /\ UNCHANGED <<now, tokens, storage, news, history>>

(* Time passes, in units longer than the timeout of a request; a laptop    *)
(* that sleeps lets it pass without a poll.                                *)
Pass ==
    /\ now < MaxClock /\ asks = {}
    /\ now' = now + 1
    /\ tab' = [t \in Tabs |-> [tab[t] EXCEPT !.wrote = IF now + 1 - @ < WRITE_THROTTLE THEN @ ELSE Missing]]
    /\ UNCHANGED <<tokens, storage, news, asks, history>>

SessionNext ==
    \/ \E t \in Tabs : \/ Submit(t) \/ Read(t) \/ Logout(t) \/ Boot(t) \/ Rerender(t)
                       \/ MarkActive(t) \/ Poll(t) \/ HearEnded(t)
    \/ \E a \in asks : \/ ServeLogin(a) \/ Serve(a) \/ GotRead(a) \/ SignIn(a) \/ SignInFails(a)
                       \/ Restore(a) \/ RestoreFails(a) \/ GotLogout(a)
    \/ Pass
SessionSpec == SessionInit /\ [][SessionNext]_sessionVars

-----------------------------------------------------------------------------
(* A 401 ends a session only if the server refuses the token of that very  *)
(* session: the late answer to another credential never does.              *)
LateRejectionsAreHarmless ==
    [][\A t \in Tabs : SignedIn(t) /\ tab[t].ref # NoSession /\ tab'[t].memory = NoSession /\ tab[t].memory # NoSession
                       /\ tab'[t].status = "authenticated"
        => ~Known(tab[t].session)]_sessionVars

(* The idle clock signs nobody out while somebody works in any tab.        *)
WorkIsNotInterrupted ==
    [][\A a \in asks' \ asks : a.answer = "none" /\ a.why = "idle"
        => now - lastInput >= IDLE_TIMEOUT - WRITE_THROTTLE]_sessionVars

(* Nobody is signed out by a late refusal or by the idle clock in the      *)
(* middle of work.  A logout pressed twice is left out: the answer to the  *)
(* second ends whatever session its tab has by then.                       *)
SignOutsHaveACause == LateRejectionsAreHarmless /\ WorkIsNotInterrupted

(* A session whose clock no other tab moved cannot outlive the ceiling,    *)
(* however often its page is reloaded: a poll would end it.                *)
CeilingHolds ==
    \A t \in Tabs : SignedIn(t) /\ solo[t] /\ now - tokens[tab[t].session].issued >= ABSOLUTE_SESSION
        => TooOld
=============================================================================
