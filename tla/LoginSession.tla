---------------------------- MODULE LoginSession ----------------------------
(***************************************************************************)
(* Login sessions of one browser profile: the tabs of the dashboard        *)
(* (web/src/lib/auth-session.ts, auth-session-sync.ts, http-client.ts and  *)
(* their callers), which share one refresh cookie, and the server's rows   *)
(* of user_sessions (service/auth_session.go, model/user_session.go).      *)
(*                                                                         *)
(* A tab keeps its access token in memory.  The refresh secrets of a       *)
(* session are a chain, each derived from the one before, so a cookie is   *)
(* the session and the position in its chain.  Every request is answered   *)
(* in steps that other requests may come between; the Set-Cookie of an     *)
(* answer takes effect when it reaches the browser, whatever the tab that  *)
(* asked has done since.  The only use of authEpoch is to compare it with  *)
(* its value when a refresh began: the flag current is that comparison.    *)
(* The session cache is the subject of SessionCache; rows are read here.   *)
(***************************************************************************)
EXTENDS Naturals, Sequences, FiniteSets

CONSTANTS
    Tabs,
    WebLocks,     \* navigator.locks exists
    MaxLogins,    \* bound: sign-ins after the session the profile starts with
    MaxSecure,    \* bound: changes of password, 2FA or passkey
    MaxExpiries,  \* bound: access tokens that expire
    MaxReloads,   \* bound: reloads by the user
    MaxRevokes,   \* bound: sessions revoked from another device
    MaxFaults,    \* bound: requests refused with 5xx or 429, or answers lost
    MaxSends,     \* bound: requests the user makes
    MaxLate,      \* bound: events that reach a tab after a minute
    MaxEvents     \* bound: all the events bounded above, sign-ins aside

ASSUME LoginSessionAssumption ==
    /\ WebLocks \in BOOLEAN
    /\ {MaxLogins, MaxSecure, MaxExpiries, MaxReloads, MaxRevokes, MaxFaults,
        MaxSends, MaxLate, MaxEvents} \subseteq Nat

VARIABLES
    row,        \* user_sessions by sid
    userVer,    \* users.auth_version
    cookie,     \* the refresh cookie of the profile
    tab,        \* per tab: auth store, refresh in progress, foreground request
    net,        \* requests and answers in flight
    inbox,      \* per tab: BroadcastChannel messages not yet delivered
    spent,      \* budgets used
    lost,       \* sessions a refresh of which may have rotated without its cookie arriving
    left,       \* per tab: revoked sessions it has signed out of since it loaded
    entered,    \* per tab: the session of its last sign-in
    missed      \* per tab: sessions whose sign-in it was told of too late

vars == <<row, userVer, cookie, tab, net, inbox, spent, lost, left, entered, missed>>
server == <<row, userVer>>
ghosts == <<left, entered, missed>>

None == 0
Sids == 1..(MaxLogins + 1)
NoCookie == [sid |-> None, gen |-> 0]

(* A tab as a page load leaves it.  loaded: beforeLoad has returned and the listener
   is mounted.  run: the state of refreshPromise; op: the request the user waits for,
   again when it is the one retry it has. *)
FreshTab == [sid |-> None, ver |-> 0, valid |-> FALSE, boot |-> "idle", loaded |-> FALSE,
             run |-> "none", current |-> FALSE, retry |-> FALSE,
             op |-> "none", kind |-> "none", again |-> FALSE]

Idle == [stage |-> "none"]
Kinds == {"login", "logout", "api", "secure"}

(* An aborted request leaves its slot to the tab's next one. *)
Slots == Tabs \X {"run", "op", "lostrun", "lostop"}

Init ==
    /\ row = [s \in Sids |-> [status |-> IF s = 1 THEN "active" ELSE "none", gen |-> 0,
                              ver |-> 1, uav |-> 1, reason |-> "none"]]
    /\ userVer = 1
    /\ cookie = [sid |-> 1, gen |-> 0]
    /\ tab = [t \in Tabs |-> FreshTab]
    /\ net = [x \in Slots |-> Idle]
    /\ inbox = [t \in Tabs |-> <<>>]
    /\ spent = [secure |-> 0, expiry |-> 0, reload |-> 0, revoke |-> 0, fault |-> 0, send |-> 0, late |-> 0]
    /\ lost = {}
    /\ left = [t \in Tabs |-> {}]
    /\ entered = [t \in Tabs |-> None]
    /\ missed = [t \in Tabs |-> {}]

Spend(b, max) ==
    /\ spent[b] < max
    /\ spent.secure + spent.expiry + spent.reload + spent.revoke + spent.fault + spent.late < MaxEvents
    /\ spent' = [spent EXCEPT ![b] = @ + 1]

-----------------------------------------------------------------------------
(* The auth store, as functions from one record of a tab to the next. *)

Bumped(b) == [b EXCEPT !.current = FALSE]

Reset(b, boot) == [b EXCEPT !.sid = None, !.ver = 0, !.valid = FALSE, !.boot = boot]

(* Mutant: storing a bundle does not end the refresh that is under way. *)
Applied_KeepsEpoch(b, sid, ver) ==
    [b EXCEPT !.sid = sid, !.ver = ver, !.valid = TRUE, !.boot = "complete"]

(* applyAuthBundle *)
Applied(b, sid, ver) ==
    Bumped([b EXCEPT !.sid = sid, !.ver = ver, !.valid = TRUE, !.boot = "complete"])

(* Mutant: signing out does not end the refresh that is under way. *)
Cleared_KeepsEpoch(b) == Reset(b, "complete")

(* clearAuthentication *)
Cleared(b) == Bumped(Reset(b, "complete"))

(* refreshAuthentication: one refresh at a time in a tab, later callers join it. *)
Joined(b) ==
    IF b.run # "none" THEN b ELSE [b EXCEPT !.run = "lock", !.current = TRUE, !.retry = TRUE]

(* publishAuthSessionEvent reaches the other tabs whose listener is mounted. *)
Published(t, kind, sid) ==
    IF sid = None THEN inbox
    ELSE [u \in Tabs |-> IF u # t /\ tab[u].loaded
                         THEN Append(inbox[u], [kind |-> kind, sid |-> sid]) ELSE inbox[u]]

(* A request carries the X-Auth-Session header, the cookie and the access token of the
   moment it is sent, as far as the server looks at them; ver of a refresh is the version
   of the row that the server will read. *)
Request(kind, b, c) ==
    CASE kind = "refresh" -> [stage |-> "sent", kind |-> kind, expected |-> b.sid, cookie |-> c, ver |-> 0]
      [] kind = "login" -> [stage |-> "sent", kind |-> kind]
      [] kind = "logout" -> [stage |-> "sent", kind |-> kind, cookie |-> c, sid |-> b.sid, valid |-> b.valid]
      [] OTHER -> [stage |-> "sent", kind |-> kind, sid |-> b.sid, ver |-> b.ver, valid |-> b.valid]

(* What is left for the tab when the refresh ends: the caller goes on, fails, or, told
   that nobody is signed in, loads the sign-in page. *)
AfterRefresh(b, outcome) ==
    LET e == [b EXCEPT !.run = "none", !.current = FALSE, !.retry = FALSE, !.loaded = TRUE]
        awaited == e.op = "await"
        done == [e EXCEPT !.op = "none", !.kind = "none", !.again = FALSE]
    IN  CASE ~ awaited -> e
          [] awaited /\ outcome = "authenticated" -> [e EXCEPT !.op = "wait", !.again = TRUE]
          [] awaited /\ outcome = "anonymous" /\ e.kind # "logout" -> FreshTab
          [] OTHER -> done

(* The retry of the caller leaves in the same turn. *)
Resent(t, b, c) ==
    IF tab[t].op = "await" /\ b.op = "wait"
    THEN [net EXCEPT ![<<t, "run">>] = Idle, ![<<t, "op">>] = Request(b.kind, b, c)]
    ELSE [net EXCEPT ![<<t, "run">>] = Idle]

SetCookie(reply) == IF reply.set THEN reply.cookie ELSE cookie

(* The refresh m can bring the session s to the cookie or to a tab. *)
Bears(m, s) ==
    /\ m.stage # "none" /\ m.kind = "refresh"
    /\ IF m.stage = "reply" THEN m.code = "ok" /\ m.sid = s ELSE m.cookie.sid = s

-----------------------------------------------------------------------------
(* The refresh of a tab. *)

(* bootstrapAuthentication, before the first page and before every navigation. *)
Bootstrap(t) ==
    /\ ~ tab[t].valid
    /\ tab[t].boot # "complete" \/ tab[t].sid # None
    /\ tab[t].run = "none"
    /\ tab' = [tab EXCEPT ![t] = Joined([@ EXCEPT !.boot = "checking"])]
    /\ UNCHANGED <<server, cookie, net, inbox, spent, lost, ghosts>>

(* withTimeout: the page is shown after 4 s although the refresh goes on. *)
BootTimeout(t) ==
    /\ tab[t].run # "none" /\ ~ tab[t].loaded
    /\ tab' = [tab EXCEPT ![t].loaded = TRUE]
    /\ UNCHANGED <<server, cookie, net, inbox, spent, lost, ghosts>>

(* getFreshAuthHeaders with a token at the end of its life. *)
FreshHeaders(t) ==
    /\ tab[t].loaded /\ tab[t].sid # None /\ ~ tab[t].valid /\ tab[t].run = "none"
    /\ tab' = [tab EXCEPT ![t] = Joined(@)]
    /\ UNCHANGED <<server, cookie, net, inbox, spent, lost, ghosts>>

(* Mutant: the lock is not taken. *)
LockFree_Ignored(t) == TRUE

(* Mutant: a tab lets every other tab that wants the lock go first. *)
LockFree_AfterAll(t) == \A u \in Tabs \ {t} : tab[u].run = "none"

(* The exclusive Web Lock is held while a refresh is under way. *)
LockFree(t) == \A u \in Tabs \ {t} : tab[u].run # "wait"

(* performRefreshWithBrowserLock, then the first half of runRefresh. *)
RunRefresh(t) ==
    /\ tab[t].run = "lock"
    /\ WebLocks => LockFree(t)
    /\ IF tab[t].current
       THEN /\ tab' = [tab EXCEPT ![t].run = "wait"]
            /\ net' = [net EXCEPT ![<<t, "run">>] = Request("refresh", tab[t], cookie)]
       ELSE /\ tab' = [tab EXCEPT ![t] = AfterRefresh(@, "transient")]
            /\ UNCHANGED net
    /\ UNCHANGED <<server, cookie, inbox, spent, lost, ghosts>>

Answered(x, kind) == net[x].stage = "reply" /\ net[x].kind = kind

(* The answer of a refresh that is still current: what is stored, what the callers are
   told and whether other tabs hear of a sign-out. *)
Outcome(b, reply) ==
    CASE reply.code = "ok" -> [tab |-> AfterRefresh(Applied(b, reply.sid, reply.ver), "authenticated"),
                               signsOut |-> FALSE]
      [] reply.code = "unauthorized" -> [tab |-> AfterRefresh(Cleared(b), "anonymous"), signsOut |-> TRUE]
      [] OTHER -> [tab |-> AfterRefresh([b EXCEPT !.boot = "idle"], "transient"), signsOut |-> FALSE]

IsCurrent(b) == b.current

(* The second half of runRefresh. *)
RefreshAnswer(t) ==
    LET reply == net[<<t, "run">>]
        o == Outcome(tab[t], reply)
    IN  /\ Answered(<<t, "run">>, "refresh")
        /\ IsCurrent(tab[t])
        /\ reply.code # "mismatch"
        /\ cookie' = SetCookie(reply)
        /\ tab' = [tab EXCEPT ![t] = o.tab]
        /\ net' = Resent(t, o.tab, cookie')
        /\ inbox' = IF o.signsOut THEN Published(t, "signed_out", tab[t].sid) ELSE inbox
        /\ UNCHANGED <<server, spent, lost, ghosts>>

(* AUTH_SESSION_MISMATCH: the store is reset, without a new epoch, and the refresh
   repeated for whatever session the cookie is of. *)
RefreshMismatch(t) ==
    /\ Answered(<<t, "run">>, "refresh")
    /\ IsCurrent(tab[t])
    /\ net[<<t, "run">>].code = "mismatch" /\ tab[t].retry
    /\ LET b == [Reset(tab[t], "idle") EXCEPT !.retry = FALSE] IN
       /\ tab' = [tab EXCEPT ![t] = b]
       /\ net' = [net EXCEPT ![<<t, "run">>] = Request("refresh", b, cookie)]
    /\ UNCHANGED <<server, cookie, inbox, spent, lost, ghosts>>

(* The tab has signed in or out since: its store is left alone, the cookie is not. *)
RefreshSuperseded(t) ==
    /\ Answered(<<t, "run">>, "refresh")
    /\ ~ IsCurrent(tab[t])
    /\ cookie' = SetCookie(net[<<t, "run">>])
    /\ tab' = [tab EXCEPT ![t] = AfterRefresh(@, "transient")]
    /\ net' = [net EXCEPT ![<<t, "run">>] = Idle]
    /\ UNCHANGED <<server, inbox, spent, lost, ghosts>>

-----------------------------------------------------------------------------
(* Requests the user makes. *)

Accepted(sid, ver, valid) ==
    /\ valid /\ sid # None
    /\ row[sid].status = "active" /\ row[sid].ver = ver /\ row[sid].uav = userVer

MaySend(t, kind) ==
    CASE kind = "login" -> tab[t].sid = None /\ \E s \in Sids : row[s].status = "none"
      [] kind = "secure" -> tab[t].sid # None /\ spent.secure < MaxSecure
      [] kind = "api" -> tab[t].sid # None /\ ~ Accepted(tab[t].sid, tab[t].ver, tab[t].valid)
      [] kind = "logout" -> tab[t].sid # None

(* Sign-in is offered only while nobody is signed in; a call that is accepted changes
   nothing, so only the others are sent. *)
Send(t, kind) ==
    /\ tab[t].loaded /\ tab[t].op = "none"
    /\ MaySend(t, kind)
    /\ spent.send < MaxSends /\ spent' = [spent EXCEPT !.send = @ + 1]
    /\ tab' = [tab EXCEPT ![t].op = "wait", ![t].kind = kind]
    /\ net' = [net EXCEPT ![<<t, "op">>] = Request(kind, tab[t], cookie)]
    /\ UNCHANGED <<server, cookie, inbox, lost, ghosts>>

OpDone(b) == [b EXCEPT !.op = "none", !.kind = "none", !.again = FALSE]
OpAwaits(b) == Joined([b EXCEPT !.op = "await"])

ReplyTo(t, kind, codes) ==
    /\ Answered(<<t, "op">>, kind)
    /\ net[<<t, "op">>].code \in codes
    /\ cookie' = SetCookie(net[<<t, "op">>])
    /\ net' = [net EXCEPT ![<<t, "op">>] = Idle]
    /\ UNCHANGED <<server, spent, lost>>

(* handleLoginSuccess *)
LoginAnswer(t) ==
    LET reply == net[<<t, "op">>] IN
    /\ ReplyTo(t, "login", {"ok"})
    /\ tab' = [tab EXCEPT ![t] = Applied(OpDone(@), reply.sid, reply.ver)]
    /\ inbox' = IF tab[t].sid # reply.sid THEN Published(t, "authenticated", reply.sid) ELSE inbox
    /\ entered' = [entered EXCEPT ![t] = reply.sid]
    /\ UNCHANGED <<left, missed>>

(* handleSignOut after a success *)
LogoutAnswer(t) ==
    LET sid == tab[t].sid IN
    /\ ReplyTo(t, "logout", {"ok"})
    /\ tab' = [tab EXCEPT ![t] = Cleared(OpDone(@))]
    /\ inbox' = Published(t, "signed_out", sid)
    /\ left' = [left EXCEPT ![t] = IF sid # None /\ row[sid].status = "revoked" THEN @ \cup {sid} ELSE @]
    /\ UNCHANGED <<entered, missed>>

(* executeLogout on AUTH_SESSION_MISMATCH *)
LogoutMismatch(t) ==
    /\ ReplyTo(t, "logout", {"mismatch"})
    /\ tab' = [tab EXCEPT ![t] = IF @.again THEN OpDone(@) ELSE OpAwaits(@)]
    /\ UNCHANGED <<inbox, ghosts>>

(* The interceptor: applyAuthRotation, refused when the tab holds another session. *)
SecureAnswer(t) ==
    LET reply == net[<<t, "op">>] IN
    /\ ReplyTo(t, "secure", {"ok"})
    /\ tab' = [tab EXCEPT ![t] = IF @.sid = reply.sid THEN Applied(OpDone(@), reply.sid, reply.ver)
                                 ELSE OpDone(@)]
    /\ UNCHANGED <<inbox, ghosts>>

(* The interceptor on 401: refresh and send again, once. *)
Denied(t) ==
    /\ \E kind \in {"api", "secure"} : ReplyTo(t, kind, {"unauthorized"})
    /\ ~ tab[t].again
    /\ tab' = [tab EXCEPT ![t] = OpAwaits(@)]
    /\ UNCHANGED <<inbox, ghosts>>

(* A retry that did not help, or failed for another reason. *)
OpFailed(t) ==
    /\ \E kind \in Kinds : ReplyTo(t, kind, {"error"})
    /\ tab' = [tab EXCEPT ![t] = OpDone(@)]
    /\ UNCHANGED <<inbox, ghosts>>

CallAnswer(t) ==
    /\ ReplyTo(t, "api", {"ok"})
    /\ tab' = [tab EXCEPT ![t] = OpDone(@)]
    /\ UNCHANGED <<inbox, ghosts>>

-----------------------------------------------------------------------------
(* Page loads and messages between tabs. *)

(* A page that is replaced drops its memory, its listener and its requests; what the
   server does with those is decided later. *)
MayUnload(t) ==
    \A k \in {"run", "op"} : net[<<t, k>>].stage # "none" => net[<<t, "lost" \o k>>].stage = "none"

Unload(t) ==
    /\ tab' = [tab EXCEPT ![t] = FreshTab]
    /\ net' = [net EXCEPT ![<<t, "run">>] = Idle, ![<<t, "op">>] = Idle,
                          ![<<t, "lostrun">>] = IF net[<<t, "run">>].stage = "none" THEN @ ELSE net[<<t, "run">>],
                          ![<<t, "lostop">>] = IF net[<<t, "op">>].stage = "none" THEN @ ELSE net[<<t, "op">>]]
    /\ inbox' = [inbox EXCEPT ![t] = <<>>]
    /\ lost' = lost \cup {s \in Sids : Bears(net[<<t, "run">>], s)}
    /\ left' = [left EXCEPT ![t] = {}]
    /\ UNCHANGED <<server, cookie, entered, missed>>

(* redirectToSignIn after clearAuthentication: the second 401 of a call. *)
DeniedTwice(t) ==
    /\ \E kind \in {"api", "secure"} : Answered(<<t, "op">>, kind)
    /\ net[<<t, "op">>].code = "unauthorized" /\ tab[t].again
    /\ MayUnload(t)
    /\ Unload(t)
    /\ UNCHANGED spent

Reload(t) ==
    /\ tab[t].loaded /\ MayUnload(t)
    /\ Spend("reload", MaxReloads)
    /\ Unload(t)

Delivers(t, kind) == tab[t].loaded /\ inbox[t] # <<>> /\ Head(inbox[t]).kind = kind

(* Mutant: the store is cleared where the page should be loaded again. *)
HearAuthenticated_Clears(t) ==
    /\ Delivers(t, "authenticated")
    /\ Head(inbox[t]).sid # tab[t].sid
    /\ tab' = [tab EXCEPT ![t] = Cleared(@)]
    /\ inbox' = [inbox EXCEPT ![t] = Tail(@)]
    /\ UNCHANGED <<server, cookie, net, spent, lost, ghosts>>

(* The listener of __root.tsx: another session was signed in to. *)
HearAuthenticated(t) ==
    /\ Delivers(t, "authenticated")
    /\ Head(inbox[t]).sid # tab[t].sid
    /\ MayUnload(t)
    /\ Unload(t)
    /\ UNCHANGED spent

(* The session of this tab was signed out of. *)
HearSignedOut(t) ==
    LET sid == Head(inbox[t]).sid IN
    /\ Delivers(t, "signed_out")
    /\ sid = tab[t].sid
    /\ tab' = [tab EXCEPT ![t] = Cleared(@)]
    /\ inbox' = [inbox EXCEPT ![t] = Tail(@)]
    /\ left' = [left EXCEPT ![t] = IF row[sid].status = "revoked" THEN @ \cup {sid} ELSE @]
    /\ UNCHANGED <<server, cookie, net, spent, lost, entered, missed>>

(* A frozen tab gets its messages when it wakes; after a minute it discards them. *)
HearLate(t) ==
    LET event == Head(inbox[t]) IN
    /\ tab[t].loaded /\ inbox[t] # <<>>
    /\ Spend("late", MaxLate)
    /\ inbox' = [inbox EXCEPT ![t] = Tail(@)]
    /\ missed' = [missed EXCEPT ![t] = IF event.kind = "authenticated" THEN @ \cup {event.sid} ELSE @]
    /\ UNCHANGED <<server, cookie, tab, net, lost, left, entered>>

HearNothing(t) ==
    /\ tab[t].loaded /\ inbox[t] # <<>>
    /\ (Head(inbox[t]).kind = "authenticated") = (Head(inbox[t]).sid = tab[t].sid)
    /\ inbox' = [inbox EXCEPT ![t] = Tail(@)]
    /\ UNCHANGED <<server, cookie, tab, net, spent, lost, ghosts>>

(* The answer to an aborted request: the browser may still take its Set-Cookie. *)
LateAnswer(x) ==
    /\ x[2] \in {"lostrun", "lostop"}
    /\ net[x].stage = "reply"
    /\ cookie' \in {cookie, SetCookie(net[x])}
    /\ net' = [net EXCEPT ![x] = Idle]
    /\ UNCHANGED <<server, tab, inbox, spent, lost, ghosts>>

-----------------------------------------------------------------------------
(* The server.  An answer sets the cookie, clears it or leaves it alone. *)

Keep == [set |-> FALSE, cookie |-> NoCookie]
Clear == [set |-> TRUE, cookie |-> NoCookie]
Write(s, g) == [set |-> TRUE, cookie |-> [sid |-> s, gen |-> g]]

Reply(x, code, s, v, c) ==
    net' = [net EXCEPT ![x] = [stage |-> "reply", kind |-> net[x].kind, code |-> code,
                               sid |-> s, ver |-> v, set |-> c.set, cookie |-> c.cookie]]

Arrived(x, kind) == net[x].stage = "sent" /\ net[x].kind = kind

Revoked(s, why) == [row EXCEPT ![s].status = "revoked", ![s].reason = why]

Served == UNCHANGED <<cookie, tab, inbox, lost, ghosts>>

(* RefreshLoginSession up to the rotation. *)
CheckRefresh(x) ==
    LET c == net[x].cookie IN
    /\ Arrived(x, "refresh")
    /\ CASE c = NoCookie -> Reply(x, "unauthorized", None, 0, Clear) /\ UNCHANGED row
         [] c # NoCookie /\ net[x].expected \notin {None, c.sid} ->
                Reply(x, "mismatch", None, 0, Keep) /\ UNCHANGED row
         [] c # NoCookie /\ net[x].expected \in {None, c.sid} /\ row[c.sid].status # "active" ->
                Reply(x, "unauthorized", None, 0, Clear) /\ UNCHANGED row
         [] c # NoCookie /\ net[x].expected \in {None, c.sid} /\ row[c.sid].status = "active" ->
                IF row[c.sid].uav # userVer
                THEN /\ row' = Revoked(c.sid, "security")
                     /\ Reply(x, "unauthorized", None, 0, Clear)
                ELSE /\ net' = [net EXCEPT ![x].stage = "checked"]
                     /\ UNCHANGED row
    /\ UNCHANGED <<userVer, spent>> /\ Served

(* RotateUserSessionRefresh reads the row: the current secret is to be replaced, the one
   before it gets the same successor within RefreshReplayWindow and is reuse after it; how
   late it comes is up to the clock. *)
ReadRotation(x) ==
    LET s == net[x].cookie.sid
        r == row[s]
        behind == r.gen - net[x].cookie.gen
    IN  /\ net[x].stage = "checked"
        /\ CASE r.status # "active" -> Reply(x, "error", None, 0, Keep)
             [] r.status = "active" /\ behind = 0 ->
                    net' = [net EXCEPT ![x].stage = "rotating", ![x].ver = r.ver]
             [] r.status = "active" /\ behind = 1 ->
                    \/ Reply(x, "ok", s, r.ver, Write(s, r.gen))
                    \/ net' = [net EXCEPT ![x].stage = "reusing"]
             [] OTHER -> Reply(x, "unauthorized", None, 0, Clear)
        /\ UNCHANGED <<server, spent>> /\ Served

(* Its compare-and-swap.  A loser reads again; the secret it presents is no longer the
   current one then, so the three rounds of the loop are enough. *)
Rotate(x) ==
    LET c == net[x].cookie IN
    /\ net[x].stage = "rotating"
    /\ IF row[c.sid].status = "active" /\ row[c.sid].gen = c.gen
       THEN /\ row' = [row EXCEPT ![c.sid].gen = @ + 1]
            /\ net' = [net EXCEPT ![x].stage = "rotated", ![x].cookie.gen = @ + 1]
       ELSE /\ net' = [net EXCEPT ![x].stage = "checked"]
            /\ UNCHANGED row
    /\ UNCHANGED <<userVer, spent>> /\ Served

(* Its write to the cache, of the version it read.  The cache refuses it when it has heard
   of a later one or of a revocation: an error then, and no cookie, although the secret has
   been replaced. *)
PublishRotation(x) ==
    LET c == net[x].cookie
        r == row[c.sid]
    IN  /\ net[x].stage = "rotated"
        /\ \/ Reply(x, "ok", c.sid, net[x].ver, Write(c.sid, c.gen)) /\ UNCHANGED lost
           \/ /\ r.status # "active" \/ r.ver # net[x].ver
              /\ Reply(x, "error", None, 0, Keep)
              /\ lost' = lost \cup {c.sid}
        /\ UNCHANGED <<server, spent, cookie, tab, inbox, ghosts>>

(* Its revocation of a session whose old secret came back, unless it has ended meanwhile. *)
RevokeReused(x) ==
    LET s == net[x].cookie.sid IN
    /\ net[x].stage = "reusing"
    /\ IF row[s].status = "active"
       THEN row' = Revoked(s, "reuse") /\ Reply(x, "unauthorized", None, 0, Clear)
       ELSE UNCHANGED row /\ Reply(x, "error", None, 0, Keep)
    /\ UNCHANGED <<userVer, spent>> /\ Served

(* setupLogin *)
ServeLogin(x) ==
    /\ Arrived(x, "login")
    /\ \E s \in Sids :
         /\ row[s].status = "none" /\ \A u \in Sids : u < s => row[u].status # "none"
         /\ row' = [row EXCEPT ![s].status = "active", ![s].uav = userVer]
         /\ Reply(x, "ok", s, 1, Write(s, 0))
    /\ UNCHANGED <<userVer, spent>> /\ Served

RefusedLogin(x) ==
    /\ Arrived(x, "login")
    /\ \A s \in Sids : row[s].status # "none"
    /\ Reply(x, "error", None, 0, Keep)
    /\ UNCHANGED <<server, spent>> /\ Served

(* RevokeUserSessionByRefreshHash, inWindow telling whether the previous secret is still
   in its window. *)
ByRefreshHash(c, inWindow) ==
    IF /\ c # NoCookie /\ row[c.sid].status = "active"
       /\ row[c.sid].gen = c.gen \/ (row[c.sid].gen = c.gen + 1 /\ inWindow)
    THEN Revoked(c.sid, "logout") ELSE row

(* AuthLogout: by the access token while it is valid, else by the cookie. *)
ServeLogout(x) ==
    LET r == net[x]
        c == r.cookie
    IN  /\ Arrived(x, "logout")
        /\ IF c # NoCookie /\ r.sid \notin {None, c.sid}
           THEN Reply(x, "mismatch", None, 0, Keep) /\ UNCHANGED row
           ELSE /\ IF r.valid
                   THEN row' = IF row[r.sid].status = "active" THEN Revoked(r.sid, "logout") ELSE row
                   ELSE \E inWindow \in BOOLEAN : row' = ByRefreshHash(c, inWindow)
                /\ Reply(x, "ok", None, 0, IF r.valid /\ c.sid # r.sid THEN Keep ELSE Clear)
        /\ UNCHANGED <<userVer, spent>> /\ Served

(* UserAuth and ValidateLoginSession for any other call. *)
ServeCall(x) ==
    /\ Arrived(x, "api")
    /\ Reply(x, IF Accepted(net[x].sid, net[x].ver, net[x].valid) THEN "ok" ELSE "unauthorized", None, 0, Keep)
    /\ UNCHANGED <<server, spent>> /\ Served

(* A security setting and the user's auth version change in one transaction. *)
ChangeSecurity(x) ==
    /\ Arrived(x, "secure")
    /\ IF Accepted(net[x].sid, net[x].ver, net[x].valid)
       THEN /\ Spend("secure", MaxSecure)
            /\ userVer' = userVer + 1
            /\ net' = [net EXCEPT ![x].stage = "changed"]
       ELSE Reply(x, "unauthorized", None, 0, Keep) /\ UNCHANGED <<userVer, spent>>
    /\ UNCHANGED row /\ Served

(* AdvanceCurrentSessionToUserVersion: this session follows, the others are revoked. *)
AdvanceSession(x) ==
    LET s == net[x].sid IN
    /\ net[x].stage = "changed"
    /\ IF row[s].status = "active" /\ row[s].ver = net[x].ver
       THEN /\ row' = [u \in Sids |->
                         CASE u = s -> [row[u] EXCEPT !.ver = @ + 1, !.uav = userVer]
                           [] u # s /\ row[u].status = "active" ->
                                [row[u] EXCEPT !.status = "revoked", !.reason = "others"]
                           [] OTHER -> row[u]]
            /\ Reply(x, "ok", s, row[s].ver + 1, Keep)
       ELSE Reply(x, "error", None, 0, Keep) /\ UNCHANGED row
    /\ UNCHANGED <<userVer, spent>> /\ Served

-----------------------------------------------------------------------------
(* Time, other devices and failures. *)

TokenExpires(t) ==
    /\ tab[t].valid
    /\ Spend("expiry", MaxExpiries)
    /\ tab' = [tab EXCEPT ![t].valid = FALSE]
    /\ UNCHANGED <<server, cookie, net, inbox, lost, ghosts>>

(* DeleteLoginSession or RevokeOtherLoginSessions from another browser. *)
RevokedElsewhere(s) ==
    /\ row[s].status = "active"
    /\ Spend("revoke", MaxRevokes)
    /\ row' = Revoked(s, "elsewhere")
    /\ UNCHANGED <<userVer, cookie, tab, net, inbox, lost, ghosts>>

(* A request that fails before it is handled or at a statement of a refresh, or an answer
   that is lost. *)
Fail(x) ==
    /\ x[2] \in {"run", "op"}
    /\ net[x].stage \in {"sent", "checked", "rotating", "reusing", "reply"}
    /\ net[x].stage = "reply" => net[x].code # "error"
    /\ Spend("fault", MaxFaults)
    /\ Reply(x, "error", None, 0, Keep)
    /\ lost' = IF net[x].stage = "reply" THEN lost \cup {s \in Sids : Bears(net[x], s)} ELSE lost
    /\ UNCHANGED <<server, cookie, tab, inbox, ghosts>>

-----------------------------------------------------------------------------
Serve(x) ==
    \/ CheckRefresh(x) \/ ReadRotation(x) \/ Rotate(x) \/ PublishRotation(x) \/ RevokeReused(x)
    \/ ServeLogin(x) \/ RefusedLogin(x) \/ ServeLogout(x) \/ ServeCall(x) \/ ChangeSecurity(x) \/ AdvanceSession(x)

Handle(t) ==
    \/ RunRefresh(t) \/ RefreshAnswer(t) \/ RefreshMismatch(t) \/ RefreshSuperseded(t)
    \/ LoginAnswer(t) \/ LogoutAnswer(t) \/ LogoutMismatch(t) \/ SecureAnswer(t)
    \/ Denied(t) \/ DeniedTwice(t) \/ OpFailed(t) \/ CallAnswer(t)

Hear(t) == HearAuthenticated(t) \/ HearSignedOut(t) \/ HearNothing(t)

Choose(t) ==
    \/ BootTimeout(t) \/ FreshHeaders(t) \/ Reload(t) \/ TokenExpires(t) \/ HearLate(t)
    \/ \E kind \in Kinds : Send(t, kind)

Next ==
    \/ \E t \in Tabs : Bootstrap(t) \/ Handle(t) \/ Hear(t) \/ Choose(t)
    \/ \E x \in Slots : Serve(x) \/ LateAnswer(x) \/ Fail(x)
    \/ \E s \in Sids : RevokedElsewhere(s)

Spec == Init /\ [][Next]_vars

(* The router starts every page with bootstrapAuthentication, browsers and server run
   what they were given and requests end; Web Locks are granted in the order they were
   asked for.  Users, clocks and failures owe nothing. *)
Fairness ==
    /\ \A t \in Tabs : WF_vars(~ tab[t].loaded /\ Bootstrap(t)) /\ WF_vars(Hear(t))
    /\ \A t \in Tabs : SF_vars(RunRefresh(t)) /\ WF_vars(Handle(t))
    /\ \A x \in Slots : WF_vars(Serve(x)) /\ WF_vars(LateAnswer(x))

LiveSpec == Spec /\ Fairness

-----------------------------------------------------------------------------
(* A tab that has signed out of a session, itself or on another tab's word, never shows
   that session again without a page load: the answer of a refresh that was on its way
   is not applied (authEpoch in auth-session.ts). *)
NoResurrection == \A t \in Tabs : tab[t].sid \notin left[t]

(* The replay of an old refresh secret is detected only where there is something to
   detect: with Web Locks no tab makes the server revoke a session for reuse, however
   refreshes, sign-ins and sign-outs interleave, unless the secret was replaced and the
   browser not told: the page left while its refresh was under way, the answer was lost,
   or it was an error because the session was changed or revoked between the rotation and
   the write to the cache. *)
NoFalseReuse ==
    WebLocks => \A s \in Sids \ lost : row[s].reason # "reuse"

(* While a tab stays in one session no refresh replaces its token by one of an older
   session version: a refresh answered before a security change does not undo the token
   that the change returned.  The answer to a change may: applyAuthRotation compares the
   sessions only, and a later change of another tab may have overtaken it. *)
TokenNeverOlder ==
    [][\A t \in Tabs : tab'[t].sid = tab[t].sid /\ tab[t].loaded /\ tab'[t].loaded
                       => tab'[t].ver >= tab[t].ver \/ SecureAnswer(t)]_vars

(* A tab never goes back to a session older than the one it signed in to while that one is
   still good. *)
LoginSticks ==
    \A t \in Tabs : tab[t].sid # None /\ tab[t].sid < entered[t] => row[entered[t]].status # "active"

(* A refresh ends, also for the tabs waiting for the browser lock, and with it the wait
   of every caller. *)
RefreshEnds == \A t \in Tabs : tab[t].run # "none" ~> tab[t].run = "none"

(* A sign-in in one tab reaches another that hears of it within a minute: the tab comes to
   hold the new session, unless the cookie has gone to another one, the session has ended
   or a refresh failed. *)
LoginPropagates ==
    \A t \in Tabs, s \in Sids :
        (\E i \in 1..Len(inbox[t]) : inbox[t][i] = [kind |-> "authenticated", sid |-> s])
        ~> (tab[t].sid = s \/ cookie.sid # s \/ row[s].status # "active" \/ s \in missed[t] \/ spent.fault > 0)
=============================================================================
