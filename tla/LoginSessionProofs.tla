------------------------- MODULE LoginSessionProofs -------------------------
(***************************************************************************)
(* What LoginSession keeps, for any tabs and any bounds: no sign-out is    *)
(* undone by a late answer (Parted), no refresh takes a tab back to an     *)
(* older session version (Graded), and with Web Locks no secret is         *)
(* replayed while every answer arrives (Chained).                          *)
(*                                                                         *)
(* All three rest on Fresh: a session whose sign-in has not been answered  *)
(* is known to nobody else.  Steps are sorted by what they do to rows,     *)
(* stores, slots and the cookie, and the invariants look at these kinds.   *)
(***************************************************************************)
EXTENDS LoginSession, TLAPS

-----------------------------------------------------------------------------
(* Types *)

SidOrNone == Sids \cup {None}
Cookies == [sid : Sids, gen : Nat] \cup {NoCookie}
Codes == {"ok", "unauthorized", "mismatch", "error"}
(* A tab that waits for nothing would send a request of kind none, if it sent one. *)
OpKinds == Kinds \cup {"none"}
MsgKinds == OpKinds \cup {"refresh"}

RowType == [status : {"none", "active", "revoked"}, gen : Nat, ver : Nat, uav : Nat,
            reason : {"none", "security", "reuse", "logout", "others", "elsewhere"}]

TabType == [sid : SidOrNone, ver : Nat, valid : BOOLEAN, boot : {"idle", "checking", "complete"},
            loaded : BOOLEAN, run : {"none", "lock", "wait"}, current : BOOLEAN, retry : BOOLEAN,
            op : {"none", "wait", "await"}, kind : OpKinds, again : BOOLEAN]

(* What the server does with a refresh once it has been checked. *)
Handled == {"checked", "rotating", "rotated", "reusing"}
RefreshType == [stage : {"sent"} \cup Handled, kind : {"refresh"}, expected : SidOrNone, cookie : Cookies, ver : Nat]
LoginType == [stage : {"sent"}, kind : {"login"}]
LogoutType == [stage : {"sent"}, kind : {"logout"}, cookie : Cookies, sid : SidOrNone, valid : BOOLEAN]
CallType == [stage : {"sent", "changed"}, kind : {"api", "secure", "none"}, sid : SidOrNone, ver : Nat, valid : BOOLEAN]
ReplyType == [stage : {"reply"}, kind : MsgKinds, code : Codes, sid : SidOrNone, ver : Nat,
              set : BOOLEAN, cookie : Cookies]
MsgType == {Idle} \cup RefreshType \cup LoginType \cup LogoutType \cup CallType \cup ReplyType

(* What the fields of a message say about each other. *)
MsgInv(m) ==
    /\ m.stage \in Handled => m.cookie # NoCookie
    /\ m.stage = "changed" => m.sid \in Sids /\ m.kind = "secure"
    /\ m.stage = "reply" /\ m.code = "ok" /\ m.kind \in {"refresh", "login", "secure"} => m.sid \in Sids
    /\ m.stage = "reply" /\ (m.code # "ok" \/ m.kind \notin {"refresh", "login"}) => ~ m.set \/ m.cookie = NoCookie
    /\ m.stage = "reply" /\ m.code = "mismatch" => ~ m.set
    /\ m.stage = "reply" /\ m.code = "ok" /\ m.kind \in {"refresh", "login"} =>
          m.set /\ m.cookie # NoCookie /\ m.cookie.sid = m.sid

EventType == [kind : {"authenticated", "signed_out"}, sid : Sids]

Refreshers == {"run", "lostrun"}

Fits(x, m) == m \in MsgType /\ MsgInv(m) /\ (m.stage # "none" => (m.kind = "refresh") = (x[2] \in Refreshers))

Typed ==
    /\ row \in [Sids -> RowType] /\ userVer \in Nat /\ cookie \in Cookies
    /\ tab \in [Tabs -> TabType] /\ net \in [Slots -> MsgType]
    /\ lost \subseteq Sids /\ left \in [Tabs -> SUBSET Sids] /\ inbox \in [Tabs -> Seq(EventType)]
    /\ \A x \in Slots : Fits(x, net[x])
    /\ \A t \in Tabs : /\ net[<<t, "run">>].stage # "none" => tab[t].run = "wait"
                       /\ tab[t].sid = None => tab[t].ver = 0
    /\ \A s \in Sids : row[s].status = "none" => row[s].gen = 0

-----------------------------------------------------------------------------
(* Who knows a session *)

LoginReply(m) == m.stage = "reply" /\ m.kind = "login" /\ m.code = "ok"

(* Nobody has the session s, but perhaps an answer to a sign-in that is under way. *)
Unknown(s) ==
    /\ cookie.sid # s
    /\ \A t \in Tabs : tab[t].sid # s /\ s \notin left[t]
    /\ \A y \in Slots : ~ Bears(net[y], s)

(* The same after a step, of a session s named before or after it. *)
StaysUnknown(s) ==
    /\ cookie'.sid # s
    /\ \A t \in Tabs : tab'[t].sid # s /\ s \notin left'[t]
    /\ \A y \in Slots : ~ Bears(net'[y], s)

Grants(m, s) == LoginReply(m) /\ m.sid = s

(* Nobody has a session that does not exist, and nobody but the answer one whose sign-in
   has not been answered. *)
Fresh ==
    /\ \A s \in Sids : row[s].status = "none" => Unknown(s) /\ \A y \in Slots : ~ Grants(net[y], s)
    /\ \A x \in Slots : LoginReply(net[x]) =>
          /\ Unknown(net[x].sid) /\ row[net[x].sid].gen = 0 /\ net[x].cookie.gen = 0
          /\ \A y \in Slots : y # x => ~ Grants(net[y], net[x].sid)

-----------------------------------------------------------------------------
(* A refresh that has read its row will give its session, with the version it has read,
   unless it fails; so does a request that has been granted. *)
Granted(m) == m.stage = "reply" /\ m.code = "ok"
Pledged(m) == m.stage \in {"rotating", "rotated"} \/ Granted(m)
Whose(m) == IF m.stage = "reply" THEN m.sid ELSE m.cookie.sid
Given(m) == Pledged(m) /\ m.kind \in {"refresh", "login", "secure"}

(* A tab parts with revoked sessions only, and the refresh that might bring one back is
   no longer current. *)
Parted ==
    /\ \A t \in Tabs : \A s \in left[t] : row[s].status = "revoked"
    /\ \A t \in Tabs : LET m == net[<<t, "run">>] IN
          tab[t].current /\ Pledged(m) => Whose(m) \notin left[t]
    /\ NoResurrection

(* Nobody holds a version its row has not reached, and the answer to a current refresh is
   no older than what the tab holds. *)
Graded ==
    /\ \A t \in Tabs : tab[t].sid # None => tab[t].ver <= row[tab[t].sid].ver
    /\ \A x \in Slots : Given(net[x]) => net[x].ver <= row[Whose(net[x])].ver
    /\ \A s \in Sids : row[s].ver >= 1
    /\ \A t \in Tabs : LET m == net[<<t, "run">>] IN
          tab[t].current /\ Pledged(m) /\ Whose(m) = tab[t].sid => m.ver >= tab[t].ver

(* With Web Locks one refresh is under way, and unless a rotation of the session has been
   lost, the refresh carries its current secret and so does the cookie, but for the time
   between a rotation and its answer. *)
Renewed(m) == m.stage = "rotated" \/ Granted(m)

Exclusive == \A t, u \in Tabs : tab[t].run = "wait" /\ tab[u].run = "wait" => t = u

Linked(s) ==
    /\ \A t \in Tabs : ~ Bears(net[<<t, "lostrun">>], s)
    /\ cookie.sid = s => \/ cookie.gen = row[s].gen
                         \/ \E t \in Tabs : Renewed(net[<<t, "run">>]) /\ Whose(net[<<t, "run">>]) = s
    /\ \A t \in Tabs : LET m == net[<<t, "run">>] IN
          Bears(m, s) => m.stage # "reusing" /\ m.cookie.gen = row[s].gen
    /\ row[s].reason # "reuse"

Chained == WebLocks => Exclusive /\ \A s \in Sids \ lost : Linked(s)

-----------------------------------------------------------------------------
(* Kinds of steps: what becomes of a tab *)

Holds(b, c) == c.sid = b.sid /\ c.ver = b.ver
Same(b, c) == Holds(b, c) /\ c.run = b.run /\ c.current = b.current
Joins(b, c) == Holds(b, c) /\ b.run = "none" /\ c.run = "lock"
Drops(b, c) == Holds(b, c) /\ b.run = "lock" /\ c.run = "none" /\ c.current = FALSE
Forgets(b, c) == c.sid = None /\ c.ver = 0 /\ c.run = b.run /\ c.current = FALSE
Takes(b, c, m) == c.sid = m.sid /\ c.ver = m.ver /\ c.run = b.run /\ c.current = FALSE

(* what becomes of a row *)
Ended(r, q) ==
    /\ q.gen = r.gen /\ q.ver = r.ver
    /\ q.status = r.status \/ (r.status = "active" /\ q.status = "revoked")
    /\ q.reason = r.reason \/ q.reason # "reuse"

RowsEnd == row' \in [Sids -> RowType] /\ \A s \in Sids : Ended(row[s], row'[s])

(* and what becomes of a slot. *)
RunOf(t) == net[<<t, "run">>]
OpOf(t) == net[<<t, "op">>]
Quiet(m) == m \in MsgType /\ MsgInv(m) /\ (m = Idle \/ (m.stage = "sent" /\ m.kind \in OpKinds))

Turns(t, c) == c \in TabType /\ tab' = [tab EXCEPT ![t] = c]
Puts(x, m) == net' = [net EXCEPT ![x] = m]

(* Steps of a tab; the rows stay as they are. *)
Idles(t) ==
    /\ \E c : Turns(t, c) /\ (Same(tab[t], c) \/ Joins(tab[t], c) \/ Drops(tab[t], c))
    /\ net' = net \/ \E m : Quiet(m) /\ Puts(<<t, "op">>, m)
    /\ cookie' = cookie /\ left' = left /\ lost' = lost

Asks(t) ==
    /\ \E c : /\ Turns(t, c) /\ c.run = "wait"
              /\ \/ tab[t].run = "lock" /\ (WebLocks => LockFree(t)) /\ Holds(tab[t], c)
                 \/ /\ tab[t].run = "wait" /\ c.sid = None /\ c.ver = 0
                    /\ RunOf(t).stage = "reply" /\ RunOf(t).code = "mismatch"
    /\ \E m : m \in RefreshType /\ m.stage = "sent" /\ m.cookie = cookie /\ Puts(<<t, "run">>, m)
    /\ cookie' = cookie /\ left' = left /\ lost' = lost

Ends(t) ==
    /\ RunOf(t).stage = "reply"
    /\ \E c : /\ Turns(t, c) /\ c.run = "none" /\ c.current = FALSE
              /\ \/ Holds(tab[t], c)
                 \/ c.sid = None /\ c.ver = 0
                 \/ tab[t].current = TRUE /\ RunOf(t).code = "ok" /\ c.sid = RunOf(t).sid /\ c.ver = RunOf(t).ver
    /\ \E m : /\ m = OpOf(t) \/ Quiet(m)
              /\ net' = [net EXCEPT ![<<t, "run">>] = Idle, ![<<t, "op">>] = m]
    /\ cookie' = SetCookie(RunOf(t)) /\ left' = left /\ lost' = lost

(* The tab t parts with its session, if it is revoked. *)
Parts(t) ==
    \E L : /\ left' = [left EXCEPT ![t] = L]
           /\ L = left[t] \/ (tab[t].sid \in Sids /\ row[tab[t].sid].status = "revoked" /\ L = left[t] \cup {tab[t].sid})

Finishes(t) ==
    /\ OpOf(t).stage = "reply"
    /\ \E c : /\ Turns(t, c)
              /\ \/ (Same(tab[t], c) \/ Joins(tab[t], c)) /\ left' = left
                 \/ LoginReply(OpOf(t)) /\ Takes(tab[t], c, OpOf(t)) /\ left' = left
                 \/ /\ SecureAnswer(t) /\ OpOf(t).code = "ok" /\ OpOf(t).kind = "secure"
                    /\ OpOf(t).sid = tab[t].sid /\ Takes(tab[t], c, OpOf(t)) /\ left' = left
                 \/ Forgets(tab[t], c) /\ Parts(t)
    /\ Puts(<<t, "op">>, Idle) /\ cookie' = SetCookie(OpOf(t)) /\ lost' = lost

Unloads(t) ==
    /\ Turns(t, FreshTab)
    /\ left' = [left EXCEPT ![t] = {}]
    /\ lost' = lost \cup {s \in Sids : Bears(RunOf(t), s)}
    /\ \E m, n : /\ m = RunOf(t) \/ (RunOf(t).stage = "none" /\ m = net[<<t, "lostrun">>])
                 /\ n = OpOf(t) \/ (OpOf(t).stage = "none" /\ n = net[<<t, "lostop">>])
                 /\ net' = [net EXCEPT ![<<t, "run">>] = Idle, ![<<t, "op">>] = Idle,
                                       ![<<t, "lostrun">>] = m, ![<<t, "lostop">>] = n]
    /\ cookie' = cookie

Hearkens(t) ==
    /\ \E c : Turns(t, c) /\ Forgets(tab[t], c)
    /\ Parts(t)
    /\ net' = net /\ cookie' = cookie /\ lost' = lost

(* Steps of the server and the browser; tabs stay as they are. *)
Refuses(x) ==
    /\ net[x].stage # "none" /\ RowsEnd
    /\ \E m : /\ m \in ReplyType /\ MsgInv(m) /\ m.kind = net[x].kind
              /\ m.code # "ok" \/ m.kind \notin {"refresh", "login", "secure"}
              /\ Puts(x, m)
    /\ cookie' = cookie
    /\ lost \subseteq lost' /\ lost' \subseteq Sids
    /\ \A s \in Sids : Renewed(net[x]) /\ Bears(net[x], s) => s \in lost'

Proceeds(x) ==
    /\ \E m : /\ m \in MsgType /\ MsgInv(m) /\ m.kind = net[x].kind /\ Puts(x, m)
              /\ \/ /\ net[x] \in RefreshType /\ net[x].stage # "rotated"
                    /\ m \in RefreshType /\ m.cookie = net[x].cookie
                    /\ \/ m.stage = "checked"
                       \/ m.stage = "reusing" /\ row[m.cookie.sid].gen = m.cookie.gen + 1
                 \/ net[x] \in CallType /\ m.stage = "changed"
    /\ row' = row /\ cookie' = cookie /\ lost' = lost

Answers(x, s, v, g) ==
    \E m : /\ m \in ReplyType /\ MsgInv(m) /\ m.kind = net[x].kind /\ m.code = "ok" /\ Puts(x, m)
           /\ m.sid = s /\ m.ver = v
           /\ m.kind # "secure" => m.cookie.gen = g

(* A refresh reads its row, takes the next secret, is answered after that, or is given the
   secret another one has taken. *)
Rotates(x) ==
    LET s == net[x].cookie.sid IN
    /\ net[x] \in RefreshType /\ s \in Sids
    /\ \E m : /\ m \in MsgType /\ MsgInv(m) /\ m.kind = "refresh" /\ Puts(x, m)
              /\ Pledged(m) /\ Whose(m) = s /\ m.cookie.sid = s
              /\ \/ Pledged(net[x]) /\ m.ver = net[x].ver
                 \/ row[s].status = "active" /\ m.ver = row[s].ver
              /\ \/ /\ net[x].stage = "checked" /\ m.stage = "rotating"
                    /\ m.cookie.gen = net[x].cookie.gen /\ row' = row
                 \/ /\ net[x].stage = "rotating" /\ m.stage = "rotated" /\ row[s].status = "active"
                    /\ row[s].gen = net[x].cookie.gen /\ m.cookie.gen = row[s].gen + 1
                    /\ row' = [row EXCEPT ![s].gen = @ + 1]
                 \/ /\ net[x].stage = "rotated" /\ m.stage = "reply"
                    /\ m.cookie.gen = net[x].cookie.gen /\ row' = row
                 \/ /\ net[x].stage = "checked" /\ m.stage = "reply" /\ row[s].gen = net[x].cookie.gen + 1
                    /\ m.cookie.gen = row[s].gen /\ row' = row
    /\ cookie' = cookie /\ lost' = lost

Reuses(x) ==
    LET s == net[x].cookie.sid IN
    /\ net[x] \in RefreshType /\ net[x].stage = "reusing" /\ s \in Sids
    /\ row[s].status = "active" /\ row' = Revoked(s, "reuse")
    /\ \E m : m \in ReplyType /\ MsgInv(m) /\ m.kind = "refresh" /\ m.code = "unauthorized" /\ Puts(x, m)
    /\ cookie' = cookie /\ lost' = lost

Opens(x) ==
    /\ net[x].stage = "sent" /\ net[x].kind = "login"
    /\ \E s \in Sids : /\ row[s].status = "none"
                       /\ row' = [row EXCEPT ![s].status = "active", ![s].uav = userVer]
                       /\ Answers(x, s, 1, 0)
    /\ cookie' = cookie /\ lost' = lost

Advances(x) ==
    LET s == net[x].sid IN
    /\ net[x].stage = "changed" /\ s \in Sids /\ row' \in [Sids -> RowType]
    /\ row'[s].ver = row[s].ver + 1 /\ row'[s].gen = row[s].gen
    /\ row'[s].status = row[s].status /\ row'[s].reason = row[s].reason
    /\ \A u \in Sids \ {s} : Ended(row[u], row'[u])
    /\ Answers(x, s, row[s].ver + 1, 0)
    /\ cookie' = cookie /\ lost' = lost

Arrives(x) ==
    /\ x[2] \notin {"run", "op"} /\ net[x].stage = "reply" /\ Puts(x, Idle)
    /\ cookie' = cookie \/ cookie' = SetCookie(net[x])
    /\ row' = row /\ lost' = lost

ByTab == \E t \in Tabs : row' = row /\ (Idles(t) \/ Asks(t) \/ Ends(t) \/ Finishes(t) \/ Unloads(t) \/ Hearkens(t))

BySlot ==
    /\ tab' = tab /\ left' = left
    /\ \E x \in Slots : Refuses(x) \/ Proceeds(x) \/ Rotates(x) \/ Reuses(x) \/ Opens(x) \/ Advances(x) \/ Arrives(x)

ByOther == RowsEnd /\ tab' = tab /\ net' = net /\ cookie' = cookie /\ left' = left /\ lost' = lost

-----------------------------------------------------------------------------
(* Fields *)

LEMMA Constants ==
    /\ None \notin Sids /\ None = 0 /\ Sids \subseteq Nat
    /\ NoCookie \in Cookies /\ NoCookie.sid = None /\ NoCookie.gen = 0
    /\ Idle \in MsgType /\ Idle.stage = "none" /\ MsgInv(Idle)
BY LoginSessionAssumption DEF None, Sids, NoCookie, Cookies, Idle, MsgType, MsgInv, Handled

LEMMA CookieFields ==
    ASSUME NEW c \in Cookies
    PROVE  /\ c.sid \in SidOrNone /\ c.gen \in Nat
           /\ c # NoCookie => c.sid \in Sids /\ c = [sid |-> c.sid, gen |-> c.gen]
           /\ c.sid = None <=> c = NoCookie
BY LoginSessionAssumption DEF Cookies, NoCookie, SidOrNone, Sids, None

LEMMA MsgForms ==
    ASSUME NEW m \in MsgType
    PROVE  /\ m.stage \in {"none", "sent", "changed", "reply"} \cup Handled
           /\ m.stage = "none" <=> m = Idle
           /\ m.stage = "reply" <=> m \in ReplyType
           /\ m.stage = "sent" /\ m.kind = "refresh" => m \in RefreshType
           /\ m.stage \in Handled => m \in RefreshType /\ m.kind = "refresh"
           /\ m.stage = "changed" => m \in CallType
           /\ m.stage = "sent" /\ m.kind = "logout" => m \in LogoutType
           /\ m.stage = "sent" /\ m.kind \in {"api", "secure", "none"} => m \in CallType
           /\ m.stage # "none" => m.kind \in MsgKinds
BY DEF MsgType, Idle, Handled, RefreshType, LoginType, LogoutType, CallType, ReplyType, MsgKinds, OpKinds, Kinds

LEMMA TabFields ==
    ASSUME Typed, NEW t \in Tabs
    PROVE  /\ tab[t] \in TabType /\ tab[t].sid \in SidOrNone /\ tab[t].ver \in Nat
           /\ tab[t].run \in {"none", "lock", "wait"} /\ tab[t].current \in BOOLEAN
           /\ \A k \in {"run", "op", "lostrun", "lostop"} :
                <<t, k>> \in Slots /\ net[<<t, k>>] \in MsgType /\ MsgInv(net[<<t, k>>])
           /\ left[t] \subseteq Sids
BY DEF Typed, Fits, TabType, Slots

LEMMA RowFields ==
    ASSUME Typed, NEW s \in Sids
    PROVE  /\ row[s] \in RowType /\ row[s].status \in {"none", "active", "revoked"}
           /\ row[s].gen \in Nat /\ row[s].ver \in Nat
BY DEF Typed, RowType
-----------------------------------------------------------------------------
(* The functions on the store of a tab *)

LEMMA TabMakers ==
    ASSUME NEW b \in TabType
    PROVE  /\ \A boot \in {"idle", "checking", "complete"} :
                LET c == [b EXCEPT !.boot = boot] IN
                c \in TabType /\ Same(b, c)
           /\ [b EXCEPT !.loaded = TRUE] \in TabType /\ Same(b, [b EXCEPT !.loaded = TRUE])
           /\ [b EXCEPT !.valid = FALSE] \in TabType /\ Same(b, [b EXCEPT !.valid = FALSE])
           /\ \A kind \in Kinds : LET c == [[b EXCEPT !.op = "wait"] EXCEPT !.kind = kind] IN
                c \in TabType /\ Same(b, c)
           /\ OpDone(b) \in TabType /\ Same(b, OpDone(b))
           /\ [b EXCEPT !.op = "await"] \in TabType /\ Same(b, [b EXCEPT !.op = "await"])
BY DEF TabType, Same, Holds, OpDone, OpKinds, Kinds

LEMMA JoinedIs ==
    ASSUME NEW b \in TabType
    PROVE  /\ Joined(b) \in TabType
           /\ Joined(b) = b \/ Joins(b, Joined(b))
BY DEF TabType, Joined, Joins, Holds

LEMMA ClearedIs ==
    ASSUME NEW b \in TabType
    PROVE  Cleared(b) \in TabType /\ Forgets(b, Cleared(b))
BY DEF TabType, Cleared, Bumped, Reset, Forgets, SidOrNone

LEMMA AppliedIs ==
    ASSUME NEW b \in TabType, NEW m \in ReplyType
    PROVE  Applied(b, m.sid, m.ver) \in TabType /\ Takes(b, Applied(b, m.sid, m.ver), m)
BY DEF TabType, Applied, Bumped, Takes, ReplyType

LEMMA FreshTabIs == FreshTab \in TabType /\ FreshTab.sid = None /\ FreshTab.ver = 0
                    /\ FreshTab.run = "none" /\ FreshTab.current = FALSE
BY DEF FreshTab, TabType, SidOrNone, OpKinds, None

LEMMA AfterRefreshIs ==
    ASSUME NEW b \in TabType, NEW outcome \in {"authenticated", "anonymous", "transient"}
    PROVE  LET c == AfterRefresh(b, outcome) IN
           /\ c \in TabType /\ c.run = "none" /\ c.current = FALSE
           /\ Holds(b, c) \/ (outcome = "anonymous" /\ c.sid = None /\ c.ver = 0)
BY FreshTabIs, ZenonT(60) DEF TabType, AfterRefresh, Holds, OpKinds

LEMMA RequestIs ==
    ASSUME NEW b \in TabType, NEW c \in Cookies
    PROVE  /\ \A kind \in OpKinds : Quiet(Request(kind, b, c))
           /\ LET m == Request("refresh", b, c) IN
              m \in RefreshType /\ m.stage = "sent" /\ m.cookie = c
<1>1. Quiet(Request("login", b, c))
  BY DEF Quiet, Request, MsgType, LoginType, MsgInv, Handled, OpKinds, Kinds
<1>2. Quiet(Request("logout", b, c))
  BY DEF Quiet, Request, MsgType, LogoutType, MsgInv, Handled, OpKinds, Kinds, TabType
<1>3. \A kind \in {"api", "secure", "none"} : Quiet(Request(kind, b, c))
  BY DEF Quiet, Request, MsgType, CallType, MsgInv, Handled, OpKinds, Kinds, TabType
<1>4. LET m == Request("refresh", b, c) IN m \in RefreshType /\ m.stage = "sent" /\ m.cookie = c
  BY DEF Request, RefreshType, Handled, TabType
<1> QED BY <1>1, <1>2, <1>3, <1>4 DEF OpKinds, Kinds
-----------------------------------------------------------------------------
(* Every action is of one of the kinds *)

LEMMA IdlesIs ==
    ASSUME Typed, NEW t \in Tabs,
           \/ Bootstrap(t) \/ BootTimeout(t) \/ FreshHeaders(t) \/ TokenExpires(t)
           \/ \E kind \in Kinds : Send(t, kind)
    PROVE  row' = row /\ Idles(t)
<1> DEFINE b == tab[t]
<1>1. b \in TabType /\ cookie \in Cookies
  BY TabFields DEF Typed
<1>2. CASE Bootstrap(t)
  <2> DEFINE c == Joined([b EXCEPT !.boot = "checking"])
  <2>1. [b EXCEPT !.boot = "checking"] \in TabType /\ Same(b, [b EXCEPT !.boot = "checking"])
    BY <1>1, TabMakers
  <2>2. c \in TabType /\ (Same(b, c) \/ Joins(b, c))
    BY <1>1, <2>1, JoinedIs DEF Same, Joins, Holds
  <2>3. Turns(t, c) /\ net' = net /\ row' = row /\ cookie' = cookie /\ left' = left /\ lost' = lost
    BY <1>2, <2>2 DEF Bootstrap, Turns, server, ghosts
  <2> QED BY <2>2, <2>3 DEF Idles
<1>3. CASE BootTimeout(t)
  <2> DEFINE c == [b EXCEPT !.loaded = TRUE]
  <2>1. c \in TabType /\ Same(b, c)
    BY <1>1, TabMakers
  <2>2. Turns(t, c) /\ net' = net /\ row' = row /\ cookie' = cookie /\ left' = left /\ lost' = lost
    BY <1>3, <2>1 DEF BootTimeout, Turns, server, ghosts
  <2> QED BY <2>1, <2>2 DEF Idles
<1>4. CASE FreshHeaders(t)
  <2> DEFINE c == Joined(b)
  <2>1. c \in TabType /\ (Same(b, c) \/ Joins(b, c))
    BY <1>1, JoinedIs DEF Same, Holds
  <2>2. Turns(t, c) /\ net' = net /\ row' = row /\ cookie' = cookie /\ left' = left /\ lost' = lost
    BY <1>4, <2>1 DEF FreshHeaders, Turns, server, ghosts
  <2> QED BY <2>1, <2>2 DEF Idles
<1>5. CASE TokenExpires(t)
  <2> DEFINE c == [b EXCEPT !.valid = FALSE]
  <2>1. c \in TabType /\ Same(b, c)
    BY <1>1, TabMakers
  <2>2. Turns(t, c) /\ net' = net /\ row' = row /\ cookie' = cookie /\ left' = left /\ lost' = lost
    BY <1>5, <2>1 DEF TokenExpires, Turns, server, ghosts
  <2> QED BY <2>1, <2>2 DEF Idles
<1>6. ASSUME NEW kind \in Kinds, Send(t, kind) PROVE row' = row /\ Idles(t)
  <2> DEFINE c == [[b EXCEPT !.op = "wait"] EXCEPT !.kind = kind]
  <2> DEFINE m == Request(kind, b, cookie)
  <2>1. c \in TabType /\ Same(b, c)
    BY <1>1, TabMakers
  <2>2. Quiet(m)
    BY <1>1, RequestIs DEF OpKinds
  <2> HIDE DEF m
  <2>3. Turns(t, c) /\ Puts(<<t, "op">>, m) /\ row' = row /\ cookie' = cookie /\ left' = left /\ lost' = lost
    BY <1>6, <2>1, ZenonT(60) DEF Send, Turns, Puts, server, ghosts, m
  <2> QED BY <2>1, <2>2, <2>3 DEF Idles
<1> QED BY <1>2, <1>3, <1>4, <1>5, <1>6

LEMMA RunRefreshIs ==
    ASSUME Typed, NEW t \in Tabs, RunRefresh(t)
    PROVE  row' = row /\ (Idles(t) \/ Asks(t))
<1> DEFINE b == tab[t]
<1>1. b \in TabType /\ cookie \in Cookies
  BY TabFields DEF Typed
<1>2. CASE tab[t].current
  <2> DEFINE c == [b EXCEPT !.run = "wait"]
  <2> DEFINE m == Request("refresh", b, cookie)
  <2>1. c \in TabType /\ c.run = "wait" /\ Holds(b, c)
    BY <1>1 DEF TabType, Holds
  <2>2. m \in RefreshType /\ m.stage = "sent" /\ m.cookie = cookie
    BY <1>1, RequestIs
  <2> HIDE DEF m
  <2>3. Turns(t, c) /\ Puts(<<t, "run">>, m) /\ row' = row /\ cookie' = cookie /\ left' = left /\ lost' = lost
    BY <1>2, <2>1 DEF RunRefresh, Turns, Puts, server, ghosts, m
  <2> QED BY <2>1, <2>2, <2>3 DEF Asks, RunRefresh
<1>3. CASE ~ tab[t].current
  <2> DEFINE c == AfterRefresh(b, "transient")
  <2>1. c \in TabType /\ c.run = "none" /\ c.current = FALSE /\ Holds(b, c)
    BY <1>1, AfterRefreshIs
  <2> HIDE DEF c
  <2>2. Turns(t, c) /\ net' = net /\ row' = row /\ cookie' = cookie /\ left' = left /\ lost' = lost
    BY <1>3, <2>1 DEF RunRefresh, Turns, server, ghosts, c
  <2> QED BY <2>1, <2>2 DEF Idles, Drops, RunRefresh
<1> QED BY <1>2, <1>3

LEMMA OutcomeIs ==
    ASSUME NEW b \in TabType, NEW m \in ReplyType
    PROVE  LET c == Outcome(b, m).tab IN
           /\ c \in TabType /\ c.run = "none" /\ c.current = FALSE
           /\ \/ Holds(b, c)
              \/ c.sid = None /\ c.ver = 0
              \/ m.code = "ok" /\ c.sid = m.sid /\ c.ver = m.ver
<1>1. CASE m.code = "ok"
  <2>1. Applied(b, m.sid, m.ver) \in TabType /\ Takes(b, Applied(b, m.sid, m.ver), m)
    BY AppliedIs
  <2> DEFINE d == Applied(b, m.sid, m.ver)
  <2>2. Outcome(b, m).tab = AfterRefresh(d, "authenticated")
    BY <1>1 DEF Outcome
  <2> HIDE DEF d
  <2>3. LET c == AfterRefresh(d, "authenticated") IN c \in TabType /\ c.run = "none" /\ c.current = FALSE /\ Holds(d, c)
    BY <2>1, AfterRefreshIs DEF d
  <2>4. d.sid = m.sid /\ d.ver = m.ver
    BY <2>1 DEF Takes, d
  <2> QED BY <1>1, <2>2, <2>3, <2>4 DEF Holds
<1>2. CASE m.code = "unauthorized"
  <2>1. Cleared(b) \in TabType /\ Forgets(b, Cleared(b))
    BY ClearedIs
  <2> DEFINE d == Cleared(b)
  <2>2. Outcome(b, m).tab = AfterRefresh(d, "anonymous")
    BY <1>2 DEF Outcome
  <2> HIDE DEF d
  <2>3. LET c == AfterRefresh(d, "anonymous") IN
        /\ c \in TabType /\ c.run = "none" /\ c.current = FALSE
        /\ Holds(d, c) \/ (c.sid = None /\ c.ver = 0)
    BY <2>1, AfterRefreshIs DEF d
  <2>4. d.sid = None /\ d.ver = 0
    BY <2>1 DEF Forgets, d
  <2> QED BY <2>2, <2>3, <2>4 DEF Holds
<1>3. CASE m.code \notin {"ok", "unauthorized"}
  <2>1. [b EXCEPT !.boot = "idle"] \in TabType /\ Same(b, [b EXCEPT !.boot = "idle"])
    BY TabMakers
  <2> DEFINE d == [b EXCEPT !.boot = "idle"]
  <2>2. Outcome(b, m).tab = AfterRefresh(d, "transient")
    BY <1>3 DEF Outcome
  <2> HIDE DEF d
  <2>3. LET c == AfterRefresh(d, "transient") IN c \in TabType /\ c.run = "none" /\ c.current = FALSE /\ Holds(d, c)
    BY <2>1, AfterRefreshIs DEF d
  <2>4. Holds(b, d)
    BY <2>1 DEF Same, d
  <2> QED BY <2>2, <2>3, <2>4 DEF Holds
<1> QED BY <1>1, <1>2, <1>3

LEMMA ResentIs ==
    ASSUME Typed, NEW t \in Tabs, NEW b \in TabType, NEW c \in Cookies
    PROVE  \E m : /\ m = OpOf(t) \/ Quiet(m)
                  /\ Resent(t, b, c) = [net EXCEPT ![<<t, "run">>] = Idle, ![<<t, "op">>] = m]
<1>1. CASE tab[t].op = "await" /\ b.op = "wait"
  <2> DEFINE m == Request(b.kind, b, c)
  <2>1. Quiet(m)
    BY RequestIs DEF TabType
  <2> HIDE DEF m
  <2> QED BY <1>1, <2>1 DEF Resent, m
<1>2. CASE ~ (tab[t].op = "await" /\ b.op = "wait")
  <2>1. [net EXCEPT ![<<t, "run">>] = Idle] = [net EXCEPT ![<<t, "run">>] = Idle, ![<<t, "op">>] = OpOf(t)]
    <3>1. net \in [Slots -> MsgType] /\ <<t, "op">> \in Slots /\ <<t, "run">> # <<t, "op">>
      BY TabFields DEF Typed
    <3> QED BY <3>1 DEF OpOf
  <2> QED BY <1>2, <2>1 DEF Resent
<1> QED BY <1>1, <1>2
LEMMA RefreshAnswerIs ==
    ASSUME Typed, NEW t \in Tabs, RefreshAnswer(t) \/ RefreshSuperseded(t)
    PROVE  row' = row /\ Ends(t)
<1> DEFINE b == tab[t]
<1> DEFINE m == RunOf(t)
<1>1. b \in TabType /\ m \in MsgType /\ cookie \in Cookies /\ b.current \in BOOLEAN
  BY TabFields DEF Typed, RunOf
<1>2. m.stage = "reply" /\ m \in ReplyType
  BY <1>1, MsgForms DEF RefreshAnswer, RefreshSuperseded, Answered, RunOf
<1>3. CASE RefreshAnswer(t)
  <2> DEFINE c == Outcome(b, m).tab
  <2>1. /\ c \in TabType /\ c.run = "none" /\ c.current = FALSE
        /\ \/ Holds(b, c)
           \/ c.sid = None /\ c.ver = 0
           \/ m.code = "ok" /\ c.sid = m.sid /\ c.ver = m.ver
    BY <1>1, <1>2, OutcomeIs
  <2>2. cookie' = SetCookie(m) /\ cookie' \in Cookies
    BY <1>1, <1>2, <1>3 DEF RefreshAnswer, SetCookie, ReplyType, RunOf
  <2>3. /\ tab' = [tab EXCEPT ![t] = c] /\ net' = Resent(t, c, cookie') /\ b.current = TRUE
        /\ row' = row /\ left' = left /\ lost' = lost
    BY <1>1, <1>3 DEF RefreshAnswer, IsCurrent, RunOf, server, ghosts
  <2> HIDE DEF c
  <2>4. \E n : (n = OpOf(t) \/ Quiet(n)) /\ net' = [net EXCEPT ![<<t, "run">>] = Idle, ![<<t, "op">>] = n]
    BY <2>1, <2>2, <2>3, ResentIs
  <2> QED BY <1>2, <2>1, <2>2, <2>3, <2>4 DEF Ends, Turns
<1>4. CASE RefreshSuperseded(t)
  <2> DEFINE c == AfterRefresh(b, "transient")
  <2>1. c \in TabType /\ c.run = "none" /\ c.current = FALSE /\ Holds(b, c)
    BY <1>1, AfterRefreshIs
  <2>2. /\ tab' = [tab EXCEPT ![t] = c] /\ net' = [net EXCEPT ![<<t, "run">>] = Idle]
        /\ cookie' = SetCookie(m) /\ row' = row /\ left' = left /\ lost' = lost
    BY <1>4 DEF RefreshSuperseded, RunOf, server, ghosts
  <2> HIDE DEF c
  <2>3. net' = [net EXCEPT ![<<t, "run">>] = Idle, ![<<t, "op">>] = OpOf(t)]
    <3>1. net \in [Slots -> MsgType] /\ <<t, "op">> \in Slots /\ <<t, "run">> # <<t, "op">>
      BY TabFields DEF Typed
    <3> QED BY <2>2, <3>1 DEF OpOf
  <2> QED BY <1>2, <2>1, <2>2, <2>3 DEF Ends, Turns
<1> QED BY <1>3, <1>4

LEMMA RefreshMismatchIs ==
    ASSUME Typed, NEW t \in Tabs, RefreshMismatch(t)
    PROVE  row' = row /\ Asks(t)
<1> DEFINE b == [Reset(tab[t], "idle") EXCEPT !.retry = FALSE]
<1> DEFINE m == Request("refresh", b, cookie)
<1>1. tab[t] \in TabType /\ cookie \in Cookies
  BY TabFields DEF Typed
<1>2. b \in TabType /\ b.sid = None /\ b.ver = 0 /\ b.run = tab[t].run
  BY <1>1 DEF Reset, TabType, SidOrNone
<1>3. RunOf(t).stage = "reply" /\ RunOf(t).code = "mismatch" /\ tab[t].run = "wait"
  BY DEF RefreshMismatch, Answered, RunOf, Typed
<1>4. m \in RefreshType /\ m.stage = "sent" /\ m.cookie = cookie
  BY <1>1, <1>2, RequestIs
<1>5. /\ tab' = [tab EXCEPT ![t] = b] /\ net' = [net EXCEPT ![<<t, "run">>] = m]
      /\ row' = row /\ cookie' = cookie /\ left' = left /\ lost' = lost
  BY DEF RefreshMismatch, server, ghosts
<1> HIDE DEF b, m
<1> QED BY <1>2, <1>3, <1>4, <1>5 DEF Asks, Turns, Puts

(* The answers to requests of the user *)
LEMMA FinishesIs ==
    ASSUME Typed, NEW t \in Tabs,
           \/ LoginAnswer(t) \/ LogoutAnswer(t) \/ LogoutMismatch(t) \/ SecureAnswer(t)
           \/ Denied(t) \/ OpFailed(t) \/ CallAnswer(t)
    PROVE  row' = row /\ Finishes(t)
<1> DEFINE b == tab[t]
<1> DEFINE m == OpOf(t)
<1> DEFINE Rest == /\ m.stage = "reply" /\ Puts(<<t, "op">>, Idle) /\ cookie' = SetCookie(m)
                   /\ row' = row /\ lost' = lost
<1>1. b \in TabType /\ m \in MsgType
  BY TabFields DEF OpOf
<1>2. m.stage = "reply" => m \in ReplyType
  BY <1>1, MsgForms
<1>3. OpDone(b) \in TabType /\ Same(b, OpDone(b))
  BY <1>1, TabMakers
<1>4. OpAwaits(b) \in TabType /\ (Same(b, OpAwaits(b)) \/ Joins(b, OpAwaits(b)))
  <2>1. [b EXCEPT !.op = "await"] \in TabType /\ Same(b, [b EXCEPT !.op = "await"])
    BY <1>1, TabMakers
  <2> QED BY <2>1, JoinedIs DEF OpAwaits, Same, Joins, Holds
<1>5. ASSUME Rest, left' = left, NEW c \in TabType, tab' = [tab EXCEPT ![t] = c], Same(b, c) \/ Joins(b, c)
      PROVE  row' = row /\ Finishes(t)
  BY <1>5 DEF Finishes, Turns
<1>6. ASSUME NEW kind, NEW codes, ReplyTo(t, kind, codes) PROVE Rest /\ m.kind = kind /\ m.code \in codes
  BY <1>6 DEF ReplyTo, Answered, OpOf, Puts, server
<1> HIDE DEF Rest, m
<1>7. CASE LoginAnswer(t)
  <2> DEFINE c == Applied(OpDone(b), m.sid, m.ver)
  <2>1. Rest /\ m.kind = "login" /\ m.code = "ok"
    BY <1>6, <1>7 DEF LoginAnswer
  <2>2. m.stage = "reply"
    BY <2>1 DEF Rest
  <2>3. c \in TabType /\ Takes(OpDone(b), c, m)
    BY <1>2, <1>3, <2>2, AppliedIs
  <2>4. Takes(b, c, m)
    BY <1>3, <2>3 DEF Takes, Same
  <2>5. tab' = [tab EXCEPT ![t] = c] /\ left' = left
    BY <1>7 DEF LoginAnswer, m, OpOf
  <2> HIDE DEF c
  <2> QED BY <2>1, <2>2, <2>3, <2>4, <2>5 DEF Finishes, Turns, LoginReply, Rest, m
<1>8. CASE LogoutAnswer(t)
  <2> DEFINE c == Cleared(OpDone(b))
  <2>1. Rest
    BY <1>6, <1>8 DEF LogoutAnswer
  <2>2. c \in TabType /\ Forgets(b, c)
    BY <1>3, ClearedIs DEF Forgets, Same
  <2>3. tab' = [tab EXCEPT ![t] = c]
    BY <1>8 DEF LogoutAnswer
  <2>4. Parts(t)
    BY <1>8, TabFields DEF LogoutAnswer, Parts, SidOrNone
  <2> HIDE DEF c
  <2> QED BY <2>1, <2>2, <2>3, <2>4 DEF Finishes, Turns, Rest, m
<1>9. CASE LogoutMismatch(t)
  <2> DEFINE c == IF b.again THEN OpDone(b) ELSE OpAwaits(b)
  <2>1. c \in TabType /\ (Same(b, c) \/ Joins(b, c))
    BY <1>3, <1>4
  <2>2. Rest /\ left' = left /\ tab' = [tab EXCEPT ![t] = c]
    BY <1>6, <1>9 DEF LogoutMismatch, ghosts
  <2> QED BY <1>5, <2>1, <2>2
<1>10. CASE SecureAnswer(t)
  <2>1. Rest /\ m.kind = "secure" /\ m.code = "ok" /\ left' = left
    BY <1>6, <1>10 DEF SecureAnswer, ghosts
  <2>2. m.stage = "reply"
    BY <2>1 DEF Rest
  <2>3. CASE b.sid = m.sid
    <3> DEFINE c == Applied(OpDone(b), m.sid, m.ver)
    <3>1. c \in TabType /\ Takes(OpDone(b), c, m)
      BY <1>2, <1>3, <2>2, AppliedIs
    <3>2. Takes(b, c, m)
      BY <1>3, <3>1 DEF Takes, Same
    <3>3. tab' = [tab EXCEPT ![t] = c]
      BY <1>10, <2>3 DEF SecureAnswer, m, OpOf
    <3> HIDE DEF c
    <3> QED BY <1>10, <2>1, <2>2, <2>3, <3>1, <3>2, <3>3 DEF Finishes, Turns, Rest, m
  <2>4. CASE b.sid # m.sid
    <3>1. tab' = [tab EXCEPT ![t] = OpDone(b)]
      BY <1>10, <2>4 DEF SecureAnswer, m, OpOf
    <3> QED BY <1>3, <1>5, <2>1, <3>1
  <2> QED BY <2>3, <2>4
<1>11. CASE Denied(t)
  <2>1. Rest /\ left' = left /\ tab' = [tab EXCEPT ![t] = OpAwaits(b)]
    BY <1>6, <1>11 DEF Denied, ghosts
  <2> QED BY <1>4, <1>5, <2>1
<1>12. CASE OpFailed(t) \/ CallAnswer(t)
  <2>1. Rest /\ left' = left /\ tab' = [tab EXCEPT ![t] = OpDone(b)]
    BY <1>6, <1>12 DEF OpFailed, CallAnswer, ghosts
  <2> QED BY <1>3, <1>5, <2>1
<1> QED BY <1>7, <1>8, <1>9, <1>10, <1>11, <1>12

LEMMA UnloadsIs ==
    ASSUME Typed, NEW t \in Tabs, Unload(t)
    PROVE  row' = row /\ Unloads(t)
<1> DEFINE m == IF RunOf(t).stage = "none" THEN net[<<t, "lostrun">>] ELSE RunOf(t)
<1> DEFINE n == IF OpOf(t).stage = "none" THEN net[<<t, "lostop">>] ELSE OpOf(t)
<1>1. /\ m = RunOf(t) \/ (RunOf(t).stage = "none" /\ m = net[<<t, "lostrun">>])
      /\ n = OpOf(t) \/ (OpOf(t).stage = "none" /\ n = net[<<t, "lostop">>])
  OBVIOUS
<1>2. net' = [net EXCEPT ![<<t, "run">>] = Idle, ![<<t, "op">>] = Idle,
                         ![<<t, "lostrun">>] = m, ![<<t, "lostop">>] = n]
  BY DEF Unload, RunOf, OpOf
<1> HIDE DEF m, n
<1>3. row' = row /\ cookie' = cookie /\ left' = [left EXCEPT ![t] = {}] /\ Turns(t, FreshTab)
  BY FreshTabIs DEF Unload, server, Turns
<1>4. lost' = lost \cup {s \in Sids : Bears(RunOf(t), s)}
  BY DEF Unload, RunOf
<1> QED BY <1>1, <1>2, <1>3, <1>4 DEF Unloads

LEMMA HearkensIs ==
    ASSUME Typed, NEW t \in Tabs, HearSignedOut(t)
    PROVE  row' = row /\ Hearkens(t)
<1>1. tab[t] \in TabType
  BY TabFields
<1>2. Cleared(tab[t]) \in TabType /\ Forgets(tab[t], Cleared(tab[t]))
  BY <1>1, ClearedIs
<1>3. tab' = [tab EXCEPT ![t] = Cleared(tab[t])]
  BY DEF HearSignedOut
<1>4. Parts(t)
  <2>1. inbox[t] \in Seq(EventType) /\ inbox[t] # <<>>
    BY DEF Typed, HearSignedOut, Delivers
  <2>2. Head(inbox[t]) \in EventType
    BY <2>1
  <2>3. tab[t].sid \in Sids
    BY <2>2 DEF EventType, HearSignedOut
  <2> QED BY <2>3 DEF HearSignedOut, Parts
<1>5. row' = row /\ net' = net /\ cookie' = cookie /\ lost' = lost
  BY DEF HearSignedOut, server
<1> QED BY <1>2, <1>3, <1>4, <1>5 DEF Hearkens, Turns
(* The server *)
LEMMA CookieOrders ==
    /\ Keep.set = FALSE /\ Keep.cookie = NoCookie
    /\ Clear.set = TRUE /\ Clear.cookie = NoCookie
    /\ \A u \in Sids, g \in Nat : Write(u, g).set = TRUE /\ Write(u, g).cookie = [sid |-> u, gen |-> g]
BY DEF Keep, Clear, Write

LEMMA ReplyIs ==
    ASSUME Typed, NEW x \in Slots, net[x].stage # "none", NEW code \in Codes,
           NEW s \in SidOrNone, NEW v \in Nat, NEW c, c = Keep \/ c = Clear \/ (\E u \in Sids, g \in Nat : c = Write(u, g)),
           Reply(x, code, s, v, c)
    PROVE  \E m : /\ m \in ReplyType /\ Puts(x, m) /\ m.kind = net[x].kind /\ m.code = code
                  /\ m.sid = s /\ m.ver = v /\ m.set = c.set /\ m.cookie = c.cookie
<1> DEFINE m == [stage |-> "reply", kind |-> net[x].kind, code |-> code,
                 sid |-> s, ver |-> v, set |-> c.set, cookie |-> c.cookie]
<1>1. net[x] \in MsgType /\ net[x].kind \in MsgKinds
  BY MsgForms DEF Typed
<1>2. c.set \in BOOLEAN /\ c.cookie \in Cookies
  <2>1. ASSUME NEW u \in Sids, NEW g \in Nat, c = Write(u, g) PROVE c.set \in BOOLEAN /\ c.cookie \in Cookies
    BY <2>1 DEF Write, Cookies
  <2>2. CASE c = Keep \/ c = Clear
    <3>1. NoCookie \in Cookies
      BY DEF Cookies
    <3> QED BY <2>2, <3>1, CookieOrders
  <2> QED BY <2>1, <2>2
<1>3. m \in ReplyType
  BY <1>1, <1>2 DEF ReplyType
<1>4. Puts(x, m)
  BY DEF Reply, Puts
<1> QED BY <1>3, <1>4

LEMMA EndedSame == ASSUME NEW r PROVE Ended(r, r)
BY DEF Ended

LEMMA RevokedIs ==
    ASSUME Typed, NEW s, NEW why \in {"security", "logout", "elsewhere"}, row' = Revoked(s, why), s \in Sids => row[s].status = "active"
    PROVE  RowsEnd
BY RowFields DEF Typed, Revoked, RowsEnd, Ended, RowType

LEMMA RowsSame == ASSUME Typed, row' = row PROVE RowsEnd
BY DEF Typed, RowsEnd, Ended

(* An answer that says no, or says yes to a call that gives nothing. *)
LEMMA RefusalIs ==
    ASSUME Typed, NEW x \in Slots, net[x].stage # "none", RowsEnd, cookie' = cookie, lost' = lost,
           ~ Renewed(net[x]),
           NEW code \in Codes, NEW c, c = Keep \/ (c = Clear /\ code # "mismatch"),
           code # "ok" \/ net[x].kind \notin {"refresh", "login", "secure"},
           Reply(x, code, None, 0, c)
    PROVE  Refuses(x)
<1>1. PICK m : /\ m \in ReplyType /\ Puts(x, m) /\ m.kind = net[x].kind /\ m.code = code
               /\ m.sid = None /\ m.ver = 0 /\ m.set = c.set /\ m.cookie = c.cookie
  BY ReplyIs DEF SidOrNone
<1>2. m.set = FALSE \/ m.cookie = NoCookie
  BY <1>1 DEF Keep, Clear
<1>3. code = "mismatch" => m.set = FALSE
  BY <1>1 DEF Keep
<1>4. MsgInv(m)
  BY <1>1, <1>2, <1>3 DEF MsgInv, ReplyType, Handled
<1> QED BY <1>1, <1>4 DEF Refuses, Typed

LEMMA CheckRefreshIs ==
    ASSUME Typed, NEW x \in Slots, CheckRefresh(x)
    PROVE  Refuses(x) \/ Proceeds(x)
<1> DEFINE c == net[x].cookie
<1>1. /\ net[x] \in RefreshType /\ net[x].stage = "sent" /\ net[x].kind = "refresh" /\ MsgInv(net[x])
      /\ c \in Cookies /\ net[x].expected \in SidOrNone
  BY MsgForms DEF CheckRefresh, Arrived, Typed, Fits, RefreshType
<1>2. cookie' = cookie /\ lost' = lost
  BY DEF CheckRefresh, Served
<1>3. CASE row' = row /\ (Reply(x, "unauthorized", None, 0, Clear) \/ Reply(x, "mismatch", None, 0, Keep))
  BY <1>1, <1>2, <1>3, RefusalIs, RowsSame DEF Codes, Renewed, Granted
<1>4. CASE c # NoCookie /\ row[c.sid].status = "active" /\ row' = Revoked(c.sid, "security") /\ Reply(x, "unauthorized", None, 0, Clear)
  BY <1>1, <1>2, <1>4, RefusalIs, RevokedIs DEF Codes, Renewed, Granted
<1>5. CASE c # NoCookie /\ net' = [net EXCEPT ![x].stage = "checked"] /\ row' = row
  <2> DEFINE m == [net[x] EXCEPT !.stage = "checked"]
  <2>1. m \in RefreshType /\ m.stage = "checked" /\ m.cookie = c /\ m.kind = "refresh"
    BY <1>1 DEF RefreshType, Handled
  <2>2. Puts(x, m)
    BY <1>5 DEF Puts
  <2> HIDE DEF m
  <2>3. m \in MsgType /\ MsgInv(m)
    BY <1>5, <2>1 DEF MsgType, MsgInv, Handled
  <2> QED BY <1>1, <1>2, <1>5, <2>1, <2>2, <2>3 DEF Proceeds
<1>6. \/ row' = row /\ (Reply(x, "unauthorized", None, 0, Clear) \/ Reply(x, "mismatch", None, 0, Keep))
      \/ c # NoCookie /\ row[c.sid].status = "active" /\ row' = Revoked(c.sid, "security") /\ Reply(x, "unauthorized", None, 0, Clear)
      \/ c # NoCookie /\ net' = [net EXCEPT ![x].stage = "checked"] /\ row' = row
  BY <1>1, CookieFields, RowFields DEF CheckRefresh
<1> QED BY <1>3, <1>4, <1>5, <1>6
LEMMA HandledIs ==
    ASSUME Typed, NEW x \in Slots, net[x].stage \in Handled
    PROVE  /\ net[x] \in RefreshType /\ net[x].kind = "refresh" /\ net[x].stage # "none"
           /\ net[x].cookie \in Cookies /\ net[x].cookie # NoCookie
           /\ net[x].cookie.sid \in Sids /\ net[x].cookie.gen \in Nat /\ net[x].ver \in Nat
           /\ net[x].cookie = [sid |-> net[x].cookie.sid, gen |-> net[x].cookie.gen]
<1>1. net[x] \in MsgType /\ MsgInv(net[x])
  BY DEF Typed, Fits
<1>2. net[x] \in RefreshType /\ net[x].cookie # NoCookie /\ net[x].kind = "refresh" /\ net[x].stage # "none"
  BY <1>1, MsgForms DEF MsgInv, Handled
<1>3. net[x].cookie \in Cookies /\ net[x].ver \in Nat
  BY <1>2 DEF RefreshType
<1> QED BY <1>2, <1>3, CookieFields

LEMMA RefreshForms ==
    ASSUME NEW m \in RefreshType, m.cookie # NoCookie
    PROVE  m \in MsgType /\ MsgInv(m) /\ m.kind = "refresh" /\ m.stage # "reply"
BY DEF RefreshType, MsgType, MsgInv, Handled

(* A refresh that is answered with a session. *)
LEMMA GrantIs ==
    ASSUME Typed, NEW x \in Slots, net[x].stage \in Handled, NEW v \in Nat, NEW h \in Nat,
           Reply(x, "ok", net[x].cookie.sid, v, Write(net[x].cookie.sid, h))
    PROVE  \E m : /\ m \in MsgType /\ MsgInv(m) /\ m.kind = "refresh" /\ Puts(x, m) /\ m.stage = "reply"
                  /\ Pledged(m) /\ Whose(m) = net[x].cookie.sid /\ m.cookie.sid = net[x].cookie.sid
                  /\ m.cookie.gen = h /\ m.ver = v
<1> DEFINE s == net[x].cookie.sid
<1>1. s \in Sids /\ net[x].kind = "refresh" /\ net[x].stage # "none"
  BY HandledIs
<1>2. PICK m : /\ m \in ReplyType /\ Puts(x, m) /\ m.kind = net[x].kind /\ m.code = "ok"
               /\ m.sid = s /\ m.ver = v /\ m.set = Write(s, h).set /\ m.cookie = Write(s, h).cookie
  BY <1>1, ReplyIs DEF SidOrNone, Codes
<1>3. m.set = TRUE /\ m.cookie.sid = s /\ m.cookie.gen = h /\ m.stage = "reply" /\ m.cookie # NoCookie
  BY <1>1, <1>2, Constants DEF Write, ReplyType
<1>4. MsgInv(m)
  BY <1>1, <1>2, <1>3 DEF MsgInv, Handled
<1>5. Pledged(m) /\ Whose(m) = s
  BY <1>2, <1>3 DEF Pledged, Granted, Whose
<1> QED BY <1>1, <1>2, <1>3, <1>4, <1>5 DEF MsgType

LEMMA ReadRotationIs ==
    ASSUME Typed, NEW x \in Slots, ReadRotation(x)
    PROVE  Refuses(x) \/ Proceeds(x) \/ Rotates(x)
<1> DEFINE s == net[x].cookie.sid
<1> DEFINE g == net[x].cookie.gen
<1>1. net[x].stage = "checked" /\ net[x].stage \in Handled /\ cookie' = cookie /\ lost' = lost /\ row' = row
  BY DEF ReadRotation, Served, server, Handled
<1>2. /\ net[x] \in RefreshType /\ net[x].kind = "refresh" /\ net[x].stage # "none" /\ net[x].cookie # NoCookie
      /\ s \in Sids /\ g \in Nat
  BY <1>1, HandledIs
<1>3. row[s] \in RowType /\ row[s].gen \in Nat /\ row[s].ver \in Nat
  BY <1>2, RowFields
<1>4. ~ Renewed(net[x])
  BY <1>1 DEF Renewed, Granted
<1>5. CASE Reply(x, "error", None, 0, Keep) \/ Reply(x, "unauthorized", None, 0, Clear)
  <2>1. RowsEnd
    BY <1>1, RowsSame
  <2> QED BY <1>1, <1>2, <1>4, <1>5, <2>1, RefusalIs DEF Codes, Renewed, Granted
<1>6. CASE row[s].status = "active" /\ net' = [net EXCEPT ![x].stage = "rotating", ![x].ver = row[s].ver]
  <2> DEFINE m == [net[x] EXCEPT !.stage = "rotating", !.ver = row[s].ver]
  <2>1. m \in RefreshType /\ m.stage = "rotating" /\ m.cookie = net[x].cookie /\ m.ver = row[s].ver
    BY <1>2, <1>3 DEF RefreshType, Handled
  <2>2. Puts(x, m)
    BY <1>6 DEF Puts
  <2> HIDE DEF m
  <2>3. m \in MsgType /\ MsgInv(m) /\ m.kind = "refresh"
    BY <1>2, <2>1, RefreshForms
  <2>4. Pledged(m) /\ Whose(m) = s
    BY <2>1 DEF Pledged, Whose
  <2> QED BY <1>1, <1>2, <1>6, <2>1, <2>2, <2>3, <2>4 DEF Rotates
<1>7. CASE /\ row[s].status = "active" /\ row[s].gen = g + 1
           /\ Reply(x, "ok", s, row[s].ver, Write(s, row[s].gen))
  <2>1. PICK m : /\ m \in MsgType /\ MsgInv(m) /\ m.kind = "refresh" /\ Puts(x, m) /\ m.stage = "reply"
                 /\ Pledged(m) /\ Whose(m) = s /\ m.cookie.sid = s
                 /\ m.cookie.gen = row[s].gen /\ m.ver = row[s].ver
    BY <1>1, <1>3, <1>7, GrantIs
  <2> QED BY <1>1, <1>2, <1>7, <2>1 DEF Rotates
<1>8. CASE row[s].gen = g + 1 /\ net' = [net EXCEPT ![x].stage = "reusing"]
  <2> DEFINE m == [net[x] EXCEPT !.stage = "reusing"]
  <2>1. m \in RefreshType /\ m.stage = "reusing" /\ m.cookie = net[x].cookie
    BY <1>2 DEF RefreshType, Handled
  <2>2. Puts(x, m)
    BY <1>8 DEF Puts
  <2> HIDE DEF m
  <2>3. m \in MsgType /\ MsgInv(m) /\ m.kind = "refresh"
    BY <1>2, <2>1, RefreshForms
  <2> QED BY <1>1, <1>2, <1>8, <2>1, <2>2, <2>3 DEF Proceeds
<1>9. row[s].gen - g = 1 => row[s].gen = g + 1
  BY <1>2, <1>3
<1> QED BY <1>5, <1>6, <1>7, <1>8, <1>9 DEF ReadRotation

LEMMA RotateIs ==
    ASSUME Typed, NEW x \in Slots, Rotate(x)
    PROVE  Proceeds(x) \/ Rotates(x)
<1> DEFINE c == net[x].cookie
<1>1. net[x].stage = "rotating" /\ net[x].stage \in Handled /\ cookie' = cookie /\ lost' = lost
  BY DEF Rotate, Served, Handled
<1>2. /\ net[x] \in RefreshType /\ net[x].kind = "refresh" /\ c # NoCookie /\ c \in Cookies
      /\ c.sid \in Sids /\ c.gen \in Nat /\ c = [sid |-> c.sid, gen |-> c.gen] /\ net[x].ver \in Nat
  BY <1>1, HandledIs
<1>3. CASE /\ row[c.sid].status = "active" /\ row[c.sid].gen = c.gen
           /\ row' = [row EXCEPT ![c.sid].gen = @ + 1]
           /\ net' = [net EXCEPT ![x].stage = "rotated", ![x].cookie.gen = @ + 1]
  <2> DEFINE d == [c EXCEPT !.gen = @ + 1]
  <2> DEFINE m == [net[x] EXCEPT !.stage = "rotated", !.cookie = d]
  <2>1. d = [sid |-> c.sid, gen |-> c.gen + 1] /\ c.gen + 1 \in Nat
    BY <1>2
  <2>2. d \in Cookies /\ d.sid = c.sid /\ d.gen = c.gen + 1 /\ d # NoCookie
    BY <1>2, <2>1, Constants DEF Cookies
  <2>3. Puts(x, m)
    <3>1. net \in [Slots -> MsgType]
      BY DEF Typed
    <3> QED BY <1>3, <3>1 DEF Puts
  <2> HIDE DEF d
  <2>4. m \in RefreshType /\ m.stage = "rotated" /\ m.cookie = d /\ m.ver = net[x].ver
    BY <1>2, <2>2 DEF RefreshType, Handled
  <2> HIDE DEF m
  <2>5. m \in MsgType /\ MsgInv(m) /\ m.kind = "refresh"
    BY <2>2, <2>4, RefreshForms
  <2>6. Pledged(m) /\ Whose(m) = c.sid /\ Pledged(net[x])
    BY <1>1, <2>2, <2>4 DEF Pledged, Whose
  <2> QED BY <1>1, <1>2, <1>3, <2>2, <2>3, <2>4, <2>5, <2>6 DEF Rotates
<1>4. CASE net' = [net EXCEPT ![x].stage = "checked"] /\ row' = row
  <2> DEFINE m == [net[x] EXCEPT !.stage = "checked"]
  <2>1. m \in RefreshType /\ m.stage = "checked" /\ m.cookie = net[x].cookie
    BY <1>2 DEF RefreshType, Handled
  <2>2. Puts(x, m)
    BY <1>4 DEF Puts
  <2> HIDE DEF m
  <2>3. m \in MsgType /\ MsgInv(m) /\ m.kind = "refresh"
    BY <1>2, <2>1, RefreshForms
  <2> QED BY <1>1, <1>2, <1>4, <2>1, <2>2, <2>3 DEF Proceeds
<1> QED BY <1>3, <1>4 DEF Rotate

LEMMA PublishRotationIs ==
    ASSUME Typed, NEW x \in Slots, PublishRotation(x)
    PROVE  Refuses(x) \/ Rotates(x)
<1> DEFINE c == net[x].cookie
<1>1. net[x].stage = "rotated" /\ net[x].stage \in Handled /\ cookie' = cookie /\ row' = row
  BY DEF PublishRotation, server, Handled
<1>2. /\ net[x] \in RefreshType /\ net[x].kind = "refresh" /\ net[x].stage # "none"
      /\ c.sid \in Sids /\ c.gen \in Nat /\ net[x].ver \in Nat
  BY <1>1, HandledIs
<1>3. CASE Reply(x, "ok", c.sid, net[x].ver, Write(c.sid, c.gen)) /\ lost' = lost
  <2>1. PICK m : /\ m \in MsgType /\ MsgInv(m) /\ m.kind = "refresh" /\ Puts(x, m) /\ m.stage = "reply"
                 /\ Pledged(m) /\ Whose(m) = c.sid /\ m.cookie.sid = c.sid
                 /\ m.cookie.gen = c.gen /\ m.ver = net[x].ver
    BY <1>1, <1>2, <1>3, GrantIs
  <2>2. Pledged(net[x])
    BY <1>1 DEF Pledged
  <2> QED BY <1>1, <1>2, <1>3, <2>1, <2>2 DEF Rotates
<1>4. CASE Reply(x, "error", None, 0, Keep) /\ lost' = lost \cup {c.sid}
  <2>1. PICK m : /\ m \in ReplyType /\ Puts(x, m) /\ m.kind = net[x].kind /\ m.code = "error"
                 /\ m.set = Keep.set /\ m.cookie = Keep.cookie
    BY <1>2, <1>4, ReplyIs DEF SidOrNone, Codes
  <2>2. MsgInv(m)
    BY <2>1 DEF MsgInv, ReplyType, Keep, Handled
  <2>3. \A s \in Sids : Bears(net[x], s) => s = c.sid
    BY <1>1 DEF Bears
  <2>4. RowsEnd
    BY <1>1, RowsSame
  <2>5. lost \subseteq lost' /\ lost' \subseteq Sids
    BY <1>2, <1>4 DEF Typed
  <2>6. \A s \in Sids : Renewed(net[x]) /\ Bears(net[x], s) => s \in lost'
    BY <1>4, <2>3
  <2> QED BY <1>1, <1>2, <2>1, <2>2, <2>4, <2>5, <2>6 DEF Refuses
<1> QED BY <1>3, <1>4 DEF PublishRotation

LEMMA RevokeReusedIs ==
    ASSUME Typed, NEW x \in Slots, RevokeReused(x)
    PROVE  Refuses(x) \/ Reuses(x)
<1> DEFINE s == net[x].cookie.sid
<1>1. net[x].stage = "reusing" /\ net[x].stage \in Handled /\ cookie' = cookie /\ lost' = lost
  BY DEF RevokeReused, Served, Handled
<1>2. net[x] \in RefreshType /\ net[x].kind = "refresh" /\ net[x].stage # "none" /\ s \in Sids
  BY <1>1, HandledIs
<1>3. CASE Reply(x, "error", None, 0, Keep) /\ row' = row
  <2>1. RowsEnd /\ ~ Renewed(net[x])
    BY <1>1, <1>3, RowsSame DEF Renewed, Granted
  <2> QED BY <1>1, <1>2, <1>3, <2>1, RefusalIs DEF Codes, Renewed, Granted
<1>4. CASE row[s].status = "active" /\ row' = Revoked(s, "reuse") /\ Reply(x, "unauthorized", None, 0, Clear)
  <2>1. PICK m : /\ m \in ReplyType /\ Puts(x, m) /\ m.kind = net[x].kind /\ m.code = "unauthorized"
                 /\ m.set = Clear.set /\ m.cookie = Clear.cookie
    <3>1. None \in SidOrNone /\ 0 \in Nat /\ "unauthorized" \in Codes
      BY DEF SidOrNone, Codes
    <3> QED BY <1>2, <1>4, <3>1, ReplyIs
  <2>2. m.cookie = NoCookie
    BY <2>1 DEF Clear
  <2>3. MsgInv(m)
    BY <2>1, <2>2 DEF MsgInv, ReplyType, Handled
  <2> QED BY <1>1, <1>2, <1>4, <2>1, <2>3 DEF Reuses
<1> QED BY <1>3, <1>4 DEF RevokeReused

LEMMA LoginIs ==
    ASSUME Typed, NEW x \in Slots, ServeLogin(x) \/ RefusedLogin(x)
    PROVE  Refuses(x) \/ Opens(x)
<1>1. net[x].stage = "sent" /\ net[x].kind = "login" /\ cookie' = cookie /\ lost' = lost
  BY DEF ServeLogin, RefusedLogin, Arrived, Served
<1>2. CASE RefusedLogin(x)
  <2>1. row' = row /\ Reply(x, "error", None, 0, Keep)
    BY <1>2 DEF RefusedLogin, server
  <2> QED BY <1>1, <2>1, RefusalIs, RowsSame DEF Codes, Renewed, Granted
<1>3. CASE ServeLogin(x)
  <2>1. PICK s \in Sids : /\ row[s].status = "none" /\ row' = [row EXCEPT ![s].status = "active", ![s].uav = userVer]
                          /\ Reply(x, "ok", s, 1, Write(s, 0))
    BY <1>3 DEF ServeLogin
  <2>2. PICK m : /\ m \in ReplyType /\ Puts(x, m) /\ m.kind = net[x].kind /\ m.code = "ok"
                 /\ m.sid = s /\ m.ver = 1 /\ m.set = Write(s, 0).set /\ m.cookie = Write(s, 0).cookie
    BY <1>1, <2>1, ReplyIs DEF SidOrNone, Codes
  <2>3. m.set = TRUE /\ m.cookie.sid = s /\ m.cookie.gen = 0
    BY <2>2 DEF Write
  <2>4. MsgInv(m)
    BY <1>1, <2>2, <2>3, Constants DEF MsgInv, ReplyType, Handled
  <2>5. Answers(x, s, 1, 0)
    BY <2>2, <2>3, <2>4 DEF Answers
  <2> QED BY <1>1, <2>1, <2>5 DEF Opens
<1> QED BY <1>2, <1>3

LEMMA LogoutIs ==
    ASSUME Typed, NEW x \in Slots, ServeLogout(x)
    PROVE  Refuses(x)
<1> DEFINE r == net[x]
<1> DEFINE c == r.cookie
<1>1. r.stage = "sent" /\ r.kind = "logout" /\ r \in LogoutType /\ c \in Cookies /\ r.sid \in SidOrNone
  BY MsgForms DEF ServeLogout, Arrived, Typed, LogoutType
<1>2. cookie' = cookie /\ lost' = lost
  BY DEF ServeLogout, Served
<1>3. \/ row' = row
      \/ \E s : row' = Revoked(s, "logout") /\ row[s].status = "active"
  BY DEF ServeLogout, ByRefreshHash
<1>4. RowsEnd
  BY <1>3, RowsSame, RevokedIs
<1>5. \/ Reply(x, "mismatch", None, 0, Keep)
      \/ Reply(x, "ok", None, 0, Keep) \/ Reply(x, "ok", None, 0, Clear)
  BY DEF ServeLogout
<1> QED BY <1>1, <1>2, <1>4, <1>5, RefusalIs DEF Codes, Renewed, Granted

LEMMA CallIs ==
    ASSUME Typed, NEW x \in Slots, ServeCall(x)
    PROVE  Refuses(x)
<1>1. net[x].stage = "sent" /\ net[x].kind = "api" /\ cookie' = cookie /\ lost' = lost /\ row' = row
  BY DEF ServeCall, Arrived, Served, server
<1>2. \E code \in {"ok", "unauthorized"} : Reply(x, code, None, 0, Keep)
  BY DEF ServeCall
<1> QED BY <1>1, <1>2, RefusalIs, RowsSame DEF Codes, Renewed, Granted

LEMMA SecurityIs ==
    ASSUME Typed, NEW x \in Slots, ChangeSecurity(x)
    PROVE  Refuses(x) \/ Proceeds(x)
<1>1. /\ net[x].stage = "sent" /\ net[x].kind = "secure" /\ net[x] \in CallType
      /\ cookie' = cookie /\ lost' = lost /\ row' = row
  BY MsgForms DEF ChangeSecurity, Arrived, Served, Typed
<1>2. CASE Reply(x, "unauthorized", None, 0, Keep)
  BY <1>1, <1>2, RefusalIs, RowsSame DEF Codes, Renewed, Granted
<1>3. CASE Accepted(net[x].sid, net[x].ver, net[x].valid) /\ net' = [net EXCEPT ![x].stage = "changed"]
  <2> DEFINE m == [net[x] EXCEPT !.stage = "changed"]
  <2>1. m \in CallType /\ m.stage = "changed" /\ m.kind = "secure" /\ m.sid = net[x].sid
    BY <1>1 DEF CallType
  <2>2. Puts(x, m)
    BY <1>3 DEF Puts
  <2>3. m.sid \in Sids
    BY <1>1, <1>3, <2>1 DEF Accepted, CallType, SidOrNone
  <2> HIDE DEF m
  <2>4. m \in MsgType /\ MsgInv(m)
    BY <2>1, <2>3, SMTT(30) DEF MsgType, MsgInv, Handled
  <2> QED BY <1>1, <2>1, <2>2, <2>4 DEF Proceeds
<1> QED BY <1>2, <1>3 DEF ChangeSecurity

LEMMA AdvanceIs ==
    ASSUME Typed, NEW x \in Slots, AdvanceSession(x)
    PROVE  Refuses(x) \/ Advances(x)
<1> DEFINE s == net[x].sid
<1>1. /\ net[x].stage = "changed" /\ net[x].kind = "secure" /\ s \in Sids
      /\ cookie' = cookie /\ lost' = lost /\ userVer \in Nat
  BY DEF AdvanceSession, Served, Typed, Fits, MsgInv
<1>2. CASE Reply(x, "error", None, 0, Keep) /\ row' = row
  BY <1>1, <1>2, RefusalIs, RowsSame DEF Codes, Renewed, Granted
<1>3. CASE /\ row' = [u \in Sids |->
                        CASE u = s -> [row[u] EXCEPT !.ver = @ + 1, !.uav = userVer]
                          [] u # s /\ row[u].status = "active" ->
                               [row[u] EXCEPT !.status = "revoked", !.reason = "others"]
                          [] OTHER -> row[u]]
           /\ Reply(x, "ok", s, row[s].ver + 1, Keep)
  <2>1. row[s] \in RowType /\ row[s].ver + 1 \in Nat
    BY <1>1, RowFields
  <2>2. PICK m : /\ m \in ReplyType /\ Puts(x, m) /\ m.kind = net[x].kind /\ m.code = "ok"
                 /\ m.sid = s /\ m.ver = row[s].ver + 1 /\ m.set = Keep.set /\ m.cookie = Keep.cookie
    <3>1. net[x].stage # "none" /\ s \in SidOrNone /\ "ok" \in Codes
      BY <1>1, SMTT(30) DEF SidOrNone, Codes
    <3>2. Reply(x, "ok", s, row[s].ver + 1, Keep)
      BY <1>3
    <3> HIDE DEF s
    <3> QED BY <2>1, <3>1, <3>2, ReplyIs
  <2>3. MsgInv(m)
    BY <1>1, <2>2 DEF MsgInv, ReplyType, Keep, Handled
  <2>4. Answers(x, s, row[s].ver + 1, 0)
    BY <1>1, <2>2, <2>3 DEF Answers
  <2>5. row'[s] = [row[s] EXCEPT !.ver = @ + 1, !.uav = userVer]
    BY <1>1, <1>3
  <2>6. /\ row'[s].ver = row[s].ver + 1 /\ row'[s].gen = row[s].gen
        /\ row'[s].status = row[s].status /\ row'[s].reason = row[s].reason /\ row'[s] \in RowType
    BY <1>1, <2>1, <2>5 DEF RowType
  <2>7. ASSUME NEW u \in Sids, u # s PROVE Ended(row[u], row'[u]) /\ row'[u] \in RowType
    <3>1. \/ row[u].status = "active" /\ row'[u] = [row[u] EXCEPT !.status = "revoked", !.reason = "others"]
          \/ row'[u] = row[u]
      BY <1>3, <2>7
    <3> QED BY <3>1, RowFields DEF Ended, RowType
  <2>8. row' \in [Sids -> RowType]
    BY <1>3, <2>6, <2>7
  <2> QED BY <1>1, <2>4, <2>6, <2>7, <2>8 DEF Advances
<1> QED BY <1>2, <1>3 DEF AdvanceSession

LEMMA FailIs ==
    ASSUME Typed, NEW x \in Slots, Fail(x)
    PROVE  Refuses(x)
<1>1. net[x].stage # "none" /\ cookie' = cookie /\ row' = row
  BY DEF Fail, server
<1>2. PICK m : /\ m \in ReplyType /\ Puts(x, m) /\ m.kind = net[x].kind /\ m.code = "error"
               /\ m.set = Keep.set /\ m.cookie = Keep.cookie
  BY <1>1, ReplyIs DEF SidOrNone, Codes, Fail
<1>3. MsgInv(m)
  BY <1>2 DEF MsgInv, ReplyType, Keep, Handled
<1>4. RowsEnd
  BY <1>1, RowsSame
<1>5. /\ lost \subseteq lost' /\ lost' \subseteq Sids
      /\ \A s \in Sids : Renewed(net[x]) /\ Bears(net[x], s) => s \in lost'
  BY DEF Fail, Typed, Renewed, Granted
<1> QED BY <1>1, <1>2, <1>3, <1>4, <1>5 DEF Refuses
LEMMA StepKinds ==
    ASSUME Typed, Next
    PROVE  ByTab \/ BySlot \/ ByOther
<1>1. ASSUME NEW t \in Tabs, Bootstrap(t) \/ Handle(t) \/ Hear(t) \/ Choose(t) PROVE ByTab \/ ByOther
  <2>1. CASE Bootstrap(t) \/ Choose(t)
    <3>1. CASE Reload(t)
      BY <3>1, UnloadsIs DEF Reload, ByTab
    <3>2. CASE HearLate(t)
      <4>1. row' = row /\ tab' = tab /\ net' = net /\ cookie' = cookie /\ left' = left /\ lost' = lost
        BY <3>2 DEF HearLate, server
      <4> QED BY <4>1, RowsSame DEF ByOther
    <3> QED BY <2>1, <3>1, <3>2, IdlesIs DEF Choose, ByTab
  <2>2. CASE Handle(t)
    <3>1. CASE RunRefresh(t)
      BY <3>1, RunRefreshIs DEF ByTab
    <3>2. CASE RefreshAnswer(t) \/ RefreshSuperseded(t)
      BY <3>2, RefreshAnswerIs DEF ByTab
    <3>3. CASE RefreshMismatch(t)
      BY <3>3, RefreshMismatchIs DEF ByTab
    <3>4. CASE DeniedTwice(t)
      BY <3>4, UnloadsIs DEF DeniedTwice, ByTab
    <3> QED BY <2>2, <3>1, <3>2, <3>3, <3>4, FinishesIs DEF Handle, ByTab
  <2>3. CASE Hear(t)
    <3>1. CASE HearAuthenticated(t)
      BY <3>1, UnloadsIs DEF HearAuthenticated, ByTab
    <3>2. CASE HearSignedOut(t)
      BY <3>2, HearkensIs DEF ByTab
    <3>3. CASE HearNothing(t)
      <4>1. row' = row /\ tab' = tab /\ net' = net /\ cookie' = cookie /\ left' = left /\ lost' = lost
        BY <3>3 DEF HearNothing, server, ghosts
      <4> QED BY <4>1, RowsSame DEF ByOther
    <3> QED BY <2>3, <3>1, <3>2, <3>3 DEF Hear
  <2> QED BY <1>1, <2>1, <2>2, <2>3
<1>2. ASSUME NEW x \in Slots, Serve(x) \/ LateAnswer(x) \/ Fail(x) PROVE BySlot
  <2>1. tab' = tab /\ left' = left
    BY <1>2 DEF Serve, CheckRefresh, ReadRotation, Rotate, PublishRotation, RevokeReused, ServeLogin, RefusedLogin,
                ServeLogout, ServeCall, ChangeSecurity, AdvanceSession, LateAnswer, Fail, Served, ghosts
  <2>2. CASE LateAnswer(x)
    <3>1. Arrives(x)
      BY <2>2 DEF LateAnswer, Arrives, Puts, server
    <3> QED BY <2>1, <3>1 DEF BySlot
  <2>3. CASE Serve(x) \/ Fail(x)
    <3>1. Refuses(x) \/ Proceeds(x) \/ Rotates(x) \/ Reuses(x) \/ Opens(x) \/ Advances(x)
      BY <2>3, CheckRefreshIs, ReadRotationIs, RotateIs, PublishRotationIs, RevokeReusedIs,
         LoginIs, LogoutIs, CallIs, SecurityIs, AdvanceIs, FailIs DEF Serve
    <3> QED BY <2>1, <3>1 DEF BySlot
  <2> QED BY <1>2, <2>2, <2>3, SMTT(30)
<1>3. ASSUME NEW s \in Sids, RevokedElsewhere(s) PROVE ByOther
  <2>1. tab' = tab /\ net' = net /\ cookie' = cookie /\ left' = left /\ lost' = lost
    BY <1>3 DEF RevokedElsewhere, ghosts
  <2>2. RowsEnd
    BY <1>3, RevokedIs DEF RevokedElsewhere
  <2> QED BY <2>1, <2>2 DEF ByOther
<1> QED BY <1>1, <1>2, <1>3 DEF Next

-----------------------------------------------------------------------------
(* Types *)

LEMMA TypedInit == Init => Typed
<1> SUFFICES ASSUME Init PROVE Typed
  OBVIOUS
<1>1. row \in [Sids -> RowType] /\ (\A s \in Sids : row[s].status = "none" => row[s].gen = 0)
  BY DEF Init, RowType
<1>2. cookie \in Cookies /\ userVer \in Nat /\ lost \subseteq Sids /\ left \in [Tabs -> SUBSET Sids]
  <2>1. 1 \in Sids
    BY LoginSessionAssumption DEF Sids
  <2>2. cookie \in Cookies
    BY <2>1 DEF Init, Cookies
  <2> QED BY <2>2 DEF Init
<1>3. tab \in [Tabs -> TabType] /\ \A t \in Tabs : tab[t].sid = None => tab[t].ver = 0
  BY FreshTabIs DEF Init
<1>4. net \in [Slots -> MsgType] /\ \A x \in Slots : net[x] = Idle
  BY Constants DEF Init
<1>5. inbox \in [Tabs -> Seq(EventType)]
  BY DEF Init
<1>6. \A t \in Tabs : net[<<t, "run">>].stage = "none"
  BY <1>4, Constants DEF Slots
<1> QED BY <1>1, <1>2, <1>3, <1>4, <1>5, <1>6, Constants DEF Typed, Fits

LEMMA PublishedIs ==
    ASSUME Typed, NEW t, NEW kind \in {"authenticated", "signed_out"}, NEW s \in SidOrNone
    PROVE  Published(t, kind, s) \in [Tabs -> Seq(EventType)]
<1>1. ASSUME NEW u \in Tabs, s # None PROVE Append(inbox[u], [kind |-> kind, sid |-> s]) \in Seq(EventType)
  <2>1. [kind |-> kind, sid |-> s] \in EventType
    BY <1>1 DEF EventType, SidOrNone
  <2>2. inbox[u] \in Seq(EventType)
    BY DEF Typed
  <2> QED BY <2>1, <2>2
<1>2. inbox \in [Tabs -> Seq(EventType)]
  BY DEF Typed
<1> QED BY <1>1, <1>2 DEF Published

LEMMA InboxStep ==
    ASSUME Typed, Next
    PROVE  inbox' \in [Tabs -> Seq(EventType)] /\ userVer' \in Nat
<1>1. inbox \in [Tabs -> Seq(EventType)] /\ userVer \in Nat
  BY DEF Typed
<1>2. ASSUME NEW t \in Tabs, Bootstrap(t) \/ Handle(t) \/ Hear(t) \/ Choose(t)
      PROVE  inbox' \in [Tabs -> Seq(EventType)] /\ userVer' \in Nat
  <2>1. userVer' = userVer
    BY <1>2 DEF Bootstrap, Handle, Hear, Choose, BootTimeout, FreshHeaders, Reload, TokenExpires, Send, Unload,
                RunRefresh, RefreshAnswer, RefreshMismatch, RefreshSuperseded, LoginAnswer, LogoutAnswer,
                LogoutMismatch, SecureAnswer, Denied, DeniedTwice, OpFailed, CallAnswer, ReplyTo,
                HearAuthenticated, HearSignedOut, HearNothing, HearLate, server
  <2>2. CASE Unload(t)
    BY <1>1, <2>1, <2>2 DEF Unload
  <2>3. CASE RefreshAnswer(t) \/ LogoutAnswer(t)
    <3>1. inbox' = inbox \/ inbox' = Published(t, "signed_out", tab[t].sid)
      BY <2>3 DEF RefreshAnswer, LogoutAnswer
    <3>2. tab[t].sid \in SidOrNone
      BY TabFields
    <3> QED BY <1>1, <2>1, <3>1, <3>2, PublishedIs
  <2>4. CASE LoginAnswer(t)
    <3>1. OpOf(t).sid \in SidOrNone
      BY <2>4, TabFields, MsgForms DEF LoginAnswer, ReplyTo, Answered, OpOf, ReplyType
    <3> QED BY <1>1, <2>1, <2>4, <3>1, PublishedIs DEF LoginAnswer, OpOf
  <2>5. CASE HearSignedOut(t) \/ HearNothing(t) \/ HearLate(t)
    <3>1. inbox[t] # <<>> /\ inbox' = [inbox EXCEPT ![t] = Tail(inbox[t])]
      BY <2>5 DEF HearSignedOut, HearNothing, HearLate, Delivers
    <3>2. inbox[t] \in Seq(EventType)
      BY <1>1
    <3>3. Tail(inbox[t]) \in Seq(EventType)
      BY <3>1, <3>2
    <3> QED BY <1>1, <2>1, <3>1, <3>3
  <2>6. \/ inbox' = inbox \/ Unload(t) \/ RefreshAnswer(t) \/ LogoutAnswer(t) \/ LoginAnswer(t)
        \/ HearSignedOut(t) \/ HearNothing(t) \/ HearLate(t)
    BY <1>2 DEF Bootstrap, Handle, Hear, Choose, BootTimeout, FreshHeaders, Reload, TokenExpires, Send,
                RunRefresh, RefreshMismatch, RefreshSuperseded, LogoutMismatch, SecureAnswer, Denied,
                DeniedTwice, OpFailed, CallAnswer, HearAuthenticated
  <2>7. inbox' \in [Tabs -> Seq(EventType)]
    BY <1>1, <2>2, <2>3, <2>4, <2>5, <2>6, SMTT(30)
  <2> QED BY <1>1, <2>1, <2>7
<1>3. ASSUME NEW x \in Slots, Serve(x) \/ LateAnswer(x) \/ Fail(x)
      PROVE  inbox' = inbox /\ (userVer' = userVer \/ userVer' = userVer + 1)
  BY <1>3 DEF Serve, CheckRefresh, ReadRotation, Rotate, PublishRotation, RevokeReused, ServeLogin, RefusedLogin,
              ServeLogout, ServeCall, ChangeSecurity, AdvanceSession, LateAnswer, Fail, Served, server
<1>4. ASSUME NEW s \in Sids, RevokedElsewhere(s) PROVE inbox' = inbox /\ userVer' = userVer
  BY <1>4 DEF RevokedElsewhere
<1> QED BY <1>1, <1>2, <1>3, <1>4 DEF Next
LEMMA SlotIs ==
    ASSUME NEW x \in Slots
    PROVE  \E t \in Tabs, k \in {"run", "op", "lostrun", "lostop"} : x = <<t, k>> /\ x[2] = k
BY DEF Slots

LEMMA PutSlots ==
    ASSUME Typed, NEW x \in Slots, NEW m, Fits(x, m), Puts(x, m)
    PROVE  /\ net' \in [Slots -> MsgType] /\ \A y \in Slots : Fits(y, net'[y])
           /\ net'[x] = m /\ \A y \in Slots : y # x => net'[y] = net[y]
BY DEF Typed, Fits, Puts

LEMMA TurnTabs ==
    ASSUME Typed, NEW t \in Tabs, NEW c, Turns(t, c), c.sid = None => c.ver = 0
    PROVE  /\ tab' \in [Tabs -> TabType] /\ \A u \in Tabs : tab'[u].sid = None => tab'[u].ver = 0
           /\ tab'[t] = c /\ \A u \in Tabs : u # t => tab'[u] = tab[u]
BY DEF Typed, Turns

LEMMA QuietFits == ASSUME NEW t \in Tabs, NEW m, Quiet(m) PROVE Fits(<<t, "op">>, m)
BY Constants DEF Quiet, Fits, Kinds, OpKinds, Refreshers

LEMMA IdleFits == ASSUME NEW x PROVE Fits(x, Idle)
BY Constants DEF Fits

(* What a step of a tab leaves of stores, slots and the cookie. *)
LEMMA TabSteps ==
    ASSUME Typed, NEW t \in Tabs, row' = row,
           Idles(t) \/ Asks(t) \/ Ends(t) \/ Finishes(t) \/ Unloads(t) \/ Hearkens(t)
    PROVE  /\ cookie' \in Cookies /\ lost' \subseteq Sids /\ left' \in [Tabs -> SUBSET Sids]
           /\ tab' \in [Tabs -> TabType] /\ net' \in [Slots -> MsgType]
           /\ \A x \in Slots : Fits(x, net'[x])
           /\ \A u \in Tabs : tab'[u].sid = None => tab'[u].ver = 0
           /\ \A u \in Tabs : net'[<<u, "run">>].stage # "none" => tab'[u].run = "wait"
           /\ \A u \in Tabs : u # t => tab'[u] = tab[u] /\ left'[u] = left[u]
           /\ \A u \in Tabs, k \in {"run", "op", "lostrun", "lostop"} : u # t => net'[<<u, k>>] = net[<<u, k>>]
<1>1. /\ cookie \in Cookies /\ lost \subseteq Sids /\ left \in [Tabs -> SUBSET Sids]
      /\ tab \in [Tabs -> TabType] /\ net \in [Slots -> MsgType]
      /\ \A x \in Slots : Fits(x, net[x])
      /\ \A u \in Tabs : tab[u].sid = None => tab[u].ver = 0
      /\ \A u \in Tabs : net[<<u, "run">>].stage # "none" => tab[u].run = "wait"
      /\ \A u \in Tabs, k \in {"run", "op", "lostrun", "lostop"} : <<u, k>> \in Slots
      /\ Idle.stage = "none"
  BY Constants DEF Typed, Slots
<1>2. ASSUME NEW x \in Slots, net[x].stage = "reply" PROVE SetCookie(net[x]) \in Cookies
  BY <1>1, <1>2, MsgForms DEF SetCookie, ReplyType
<1>3. ASSUME Parts(t) PROVE left' \in [Tabs -> SUBSET Sids] /\ \A u \in Tabs : u # t => left'[u] = left[u]
  BY <1>1, <1>3 DEF Parts
<1>4. CASE Idles(t)
  <2>1. PICK c : Turns(t, c) /\ (Same(tab[t], c) \/ Joins(tab[t], c) \/ Drops(tab[t], c))
    BY <1>4 DEF Idles
  <2>2. /\ tab' \in [Tabs -> TabType] /\ \A u \in Tabs : tab'[u].sid = None => tab'[u].ver = 0
        /\ tab'[t] = c /\ \A u \in Tabs : u # t => tab'[u] = tab[u]
    BY <1>1, <2>1, TurnTabs DEF Same, Joins, Drops, Holds
  <2>3. /\ net' \in [Slots -> MsgType] /\ \A y \in Slots : Fits(y, net'[y])
        /\ \A y \in Slots : y # <<t, "op">> => net'[y] = net[y]
    BY <1>1, <1>4, PutSlots, QuietFits DEF Idles
  <2>4. tab'[t].run = "wait" \/ net'[<<t, "run">>].stage = "none"
    <3>1. net'[<<t, "run">>] = net[<<t, "run">>]
      BY <1>1, <2>3
    <3> QED BY <1>1, <2>1, <2>2, <3>1 DEF Same, Joins, Drops
  <2>5. \A u \in Tabs, k \in {"run", "op", "lostrun", "lostop"} : u # t => net'[<<u, k>>] = net[<<u, k>>]
    BY <1>1, <2>3
  <2> QED BY <1>1, <1>4, <2>2, <2>3, <2>4, <2>5 DEF Idles
<1>5. CASE Asks(t)
  <2>1. PICK c : Turns(t, c) /\ c.run = "wait" /\ (Holds(tab[t], c) \/ (c.sid = None /\ c.ver = 0))
    BY <1>5 DEF Asks
  <2>2. /\ tab' \in [Tabs -> TabType] /\ \A u \in Tabs : tab'[u].sid = None => tab'[u].ver = 0
        /\ tab'[t] = c /\ \A u \in Tabs : u # t => tab'[u] = tab[u]
    BY <1>1, <2>1, TurnTabs DEF Holds
  <2>3. PICK m : m \in RefreshType /\ m.stage = "sent" /\ Puts(<<t, "run">>, m)
    BY <1>5 DEF Asks
  <2>4. Fits(<<t, "run">>, m)
    BY <2>3 DEF Fits, MsgType, MsgInv, RefreshType, Handled, Refreshers
  <2>5. /\ net' \in [Slots -> MsgType] /\ \A y \in Slots : Fits(y, net'[y])
        /\ \A y \in Slots : y # <<t, "run">> => net'[y] = net[y]
    BY <1>1, <2>3, <2>4, PutSlots
  <2>6. \A u \in Tabs, k \in {"run", "op", "lostrun", "lostop"} : u # t => net'[<<u, k>>] = net[<<u, k>>]
    BY <1>1, <2>5
  <2> QED BY <1>1, <1>5, <2>1, <2>2, <2>5, <2>6 DEF Asks
<1>6. CASE Ends(t)
  <2>1. PICK c : /\ Turns(t, c) /\ c.run = "none"
                 /\ \/ Holds(tab[t], c)
                    \/ c.sid = None /\ c.ver = 0
                    \/ RunOf(t).code = "ok" /\ c.sid = RunOf(t).sid /\ c.ver = RunOf(t).ver
    BY <1>6 DEF Ends
  <2>2. RunOf(t).code = "ok" => RunOf(t).sid # None
    BY <1>1, <1>6, Constants DEF Ends, RunOf, Fits, MsgInv, Refreshers
  <2>3. /\ tab' \in [Tabs -> TabType] /\ \A u \in Tabs : tab'[u].sid = None => tab'[u].ver = 0
        /\ tab'[t] = c /\ \A u \in Tabs : u # t => tab'[u] = tab[u]
    BY <1>1, <2>1, <2>2, TurnTabs DEF Holds
  <2>4. PICK m : (m = OpOf(t) \/ Quiet(m)) /\ net' = [net EXCEPT ![<<t, "run">>] = Idle, ![<<t, "op">>] = m]
    BY <1>6 DEF Ends
  <2>5. Fits(<<t, "op">>, m)
    BY <1>1, <2>4, QuietFits DEF OpOf
  <2>6. /\ net' \in [Slots -> MsgType] /\ \A y \in Slots : Fits(y, net'[y])
        /\ \A y \in Slots : y \notin {<<t, "run">>, <<t, "op">>} => net'[y] = net[y]
        /\ net'[<<t, "run">>] = Idle
    BY <1>1, <2>4, <2>5, IdleFits DEF Fits
  <2>7. \A u \in Tabs, k \in {"run", "op", "lostrun", "lostop"} : u # t => net'[<<u, k>>] = net[<<u, k>>]
    BY <1>1, <2>6
  <2>8. cookie' \in Cookies
    BY <1>1, <1>2, <1>6 DEF Ends, RunOf
  <2>9. left' = left /\ lost' = lost
    BY <1>6 DEF Ends
  <2>10. \A u \in Tabs : net'[<<u, "run">>].stage # "none" => tab'[u].run = "wait"
    BY <1>1, <2>3, <2>6, <2>7
  <2> QED BY <1>1, <2>3, <2>6, <2>7, <2>8, <2>9, <2>10
<1>7. CASE Finishes(t)
  <2>1. PICK c : /\ Turns(t, c)
                 /\ \/ (Same(tab[t], c) \/ Joins(tab[t], c)) /\ left' = left
                    \/ LoginReply(OpOf(t)) /\ Takes(tab[t], c, OpOf(t)) /\ left' = left
                    \/ /\ OpOf(t).code = "ok" /\ OpOf(t).kind = "secure"
                       /\ Takes(tab[t], c, OpOf(t)) /\ left' = left
                    \/ Forgets(tab[t], c) /\ Parts(t)
    BY <1>7 DEF Finishes
  <2>2. OpOf(t).code = "ok" /\ OpOf(t).kind \in {"login", "secure"} => OpOf(t).sid # None
    BY <1>1, <1>7, Constants DEF Finishes, OpOf, Fits, MsgInv
  <2>3. c.sid = None => c.ver = 0
    BY <1>1, <2>1, <2>2 DEF Same, Joins, Holds, Takes, Forgets, LoginReply
  <2>4. /\ tab' \in [Tabs -> TabType] /\ \A u \in Tabs : tab'[u].sid = None => tab'[u].ver = 0
        /\ tab'[t] = c /\ \A u \in Tabs : u # t => tab'[u] = tab[u]
    BY <2>1, <2>3, TurnTabs
  <2>5. /\ net' \in [Slots -> MsgType] /\ \A y \in Slots : Fits(y, net'[y])
        /\ \A y \in Slots : y # <<t, "op">> => net'[y] = net[y]
    BY <1>1, <1>7, PutSlots, IdleFits DEF Finishes
  <2>6. \A u \in Tabs, k \in {"run", "op", "lostrun", "lostop"} : u # t => net'[<<u, k>>] = net[<<u, k>>]
    BY <1>1, <2>5
  <2>7. net'[<<t, "run">>].stage # "none" => tab'[t].run = "wait"
    <3>1. net'[<<t, "run">>] = net[<<t, "run">>]
      BY <1>1, <2>5
    <3>2. c.run = tab[t].run \/ tab[t].run = "none"
      BY <2>1 DEF Same, Joins, Takes, Forgets
    <3> QED BY <1>1, <2>4, <3>1, <3>2
  <2>8. left' \in [Tabs -> SUBSET Sids] /\ \A u \in Tabs : u # t => left'[u] = left[u]
    BY <1>1, <1>3, <2>1
  <2>9. cookie' \in Cookies
    BY <1>1, <1>2, <1>7 DEF Finishes, OpOf
  <2> QED BY <1>1, <1>7, <2>4, <2>5, <2>6, <2>7, <2>8, <2>9 DEF Finishes
<1>8. CASE Unloads(t)
  <2>1. /\ tab' \in [Tabs -> TabType] /\ \A u \in Tabs : tab'[u].sid = None => tab'[u].ver = 0
        /\ \A u \in Tabs : u # t => tab'[u] = tab[u]
    BY <1>8, FreshTabIs, TurnTabs DEF Unloads
  <2>2. PICK m, n : /\ m = RunOf(t) \/ m = net[<<t, "lostrun">>]
                    /\ n = OpOf(t) \/ n = net[<<t, "lostop">>]
                    /\ net' = [net EXCEPT ![<<t, "run">>] = Idle, ![<<t, "op">>] = Idle,
                                          ![<<t, "lostrun">>] = m, ![<<t, "lostop">>] = n]
    BY <1>8 DEF Unloads
  <2>3. Fits(<<t, "lostrun">>, m) /\ Fits(<<t, "lostop">>, n)
    BY <1>1, <2>2 DEF Fits, Refreshers, RunOf, OpOf
  <2>4. /\ net' \in [Slots -> MsgType] /\ \A y \in Slots : Fits(y, net'[y])
        /\ \A y \in Slots : y \notin {<<t, "run">>, <<t, "op">>, <<t, "lostrun">>, <<t, "lostop">>} => net'[y] = net[y]
        /\ net'[<<t, "run">>] = Idle
    BY <1>1, <2>2, <2>3, IdleFits DEF Fits
  <2>5. \A u \in Tabs, k \in {"run", "op", "lostrun", "lostop"} : u # t => net'[<<u, k>>] = net[<<u, k>>]
    BY <1>1, <2>4
  <2>6. left' \in [Tabs -> SUBSET Sids] /\ (\A u \in Tabs : u # t => left'[u] = left[u]) /\ cookie' = cookie
    BY <1>1, <1>8 DEF Unloads
  <2>7. lost' \subseteq Sids
    BY <1>1, <1>8 DEF Unloads
  <2> QED BY <1>1, <2>1, <2>4, <2>5, <2>6, <2>7
<1>9. CASE Hearkens(t)
  <2>1. PICK c : Turns(t, c) /\ Forgets(tab[t], c)
    BY <1>9 DEF Hearkens
  <2>2. /\ tab' \in [Tabs -> TabType] /\ \A u \in Tabs : tab'[u].sid = None => tab'[u].ver = 0
        /\ tab'[t] = c /\ \A u \in Tabs : u # t => tab'[u] = tab[u]
    BY <2>1, TurnTabs DEF Forgets
  <2> QED BY <1>1, <1>3, <1>9, <2>1, <2>2 DEF Hearkens, Forgets
<1> QED BY <1>4, <1>5, <1>6, <1>7, <1>8, <1>9
(* The answer x has got: every other slot stays as it is. *)
LEMMA AnswerPut ==
    ASSUME Typed, NEW x \in Slots, net[x].stage # "none", NEW m, m \in MsgType, MsgInv(m), m.stage # "none",
           m.kind = net[x].kind, Puts(x, m)
    PROVE  /\ net' \in [Slots -> MsgType] /\ \A y \in Slots : Fits(y, net'[y])
           /\ net'[x] = m /\ \A y \in Slots : y # x => net'[y] = net[y]
           /\ \A y \in Slots : net'[y].stage # "none" => net[y].stage # "none"
<1>1. Fits(x, m)
  BY DEF Typed, Fits
<1>2. /\ net' \in [Slots -> MsgType] /\ \A y \in Slots : Fits(y, net'[y])
      /\ net'[x] = m /\ \A y \in Slots : y # x => net'[y] = net[y]
  BY <1>1, PutSlots
<1> QED BY <1>2

LEMMA SlotSteps ==
    ASSUME Typed, NEW x \in Slots, tab' = tab, left' = left,
           Refuses(x) \/ Proceeds(x) \/ Rotates(x) \/ Reuses(x) \/ Opens(x) \/ Advances(x) \/ Arrives(x)
    PROVE  /\ row' \in [Sids -> RowType] /\ \A s \in Sids : row'[s].status = "none" => row'[s].gen = 0
           /\ cookie' \in Cookies /\ lost' \subseteq Sids
           /\ net' \in [Slots -> MsgType] /\ \A y \in Slots : Fits(y, net'[y])
           /\ \A y \in Slots : net'[y].stage # "none" => net[y].stage # "none"
           /\ \A y \in Slots : y # x => net'[y] = net[y]
<1>1. /\ row \in [Sids -> RowType] /\ cookie \in Cookies /\ lost \subseteq Sids /\ net \in [Slots -> MsgType]
      /\ \A s \in Sids : row[s].status = "none" => row[s].gen = 0
      /\ \A y \in Slots : Fits(y, net[y])
      /\ userVer \in Nat /\ Idle.stage = "none"
  BY Constants DEF Typed
<1>2. ASSUME NEW m, m \in ReplyType PROVE m \in MsgType /\ m.stage # "none"
  BY <1>2 DEF MsgType, ReplyType
<1>3. ASSUME RowsEnd PROVE /\ row' \in [Sids -> RowType] /\ \A s \in Sids : row'[s].status = "none" => row'[s].gen = 0
  BY <1>1, <1>3 DEF RowsEnd, Ended
<1>4. CASE Refuses(x)
  <2>1. RowsEnd /\ cookie' = cookie /\ net[x].stage # "none" /\ lost' \subseteq Sids
    BY <1>1, <1>4 DEF Refuses
  <2>2. PICK m : m \in ReplyType /\ MsgInv(m) /\ m.kind = net[x].kind /\ Puts(x, m)
    BY <1>4 DEF Refuses
  <2> QED BY <1>1, <1>2, <1>3, <2>1, <2>2, AnswerPut
<1>5. CASE Proceeds(x)
  <2>1. row' = row /\ cookie' = cookie /\ lost' = lost
    BY <1>5 DEF Proceeds
  <2>2. PICK m : /\ m \in MsgType /\ MsgInv(m) /\ m.kind = net[x].kind /\ Puts(x, m) /\ m.stage # "none"
                 /\ net[x] \in RefreshType \/ net[x] \in CallType
    BY <1>5, SMTT(30) DEF Proceeds
  <2>3. net[x].stage # "none"
    BY <2>2 DEF RefreshType, Handled, CallType
  <2> QED BY <1>1, <2>1, <2>2, <2>3, AnswerPut
<1>6. CASE Rotates(x)
  <2>1. cookie' = cookie /\ lost' = lost /\ net[x].stage # "none" /\ net[x].kind = "refresh"
    BY <1>6, ZenonT(60) DEF Rotates, RefreshType, Handled
  <2>2. PICK m : m \in MsgType /\ MsgInv(m) /\ m.kind = "refresh" /\ Puts(x, m) /\ m.stage # "none"
    BY <1>6, ZenonT(60) DEF Rotates, Pledged, Granted
  <2>3. row' = row \/ \E s \in Sids : row[s].status = "active" /\ row' = [row EXCEPT ![s].gen = @ + 1]
    BY <1>6 DEF Rotates
  <2>4. row' \in [Sids -> RowType] /\ \A u \in Sids : row'[u].status = "none" => row'[u].gen = 0
    BY <1>1, <2>3 DEF RowType
  <2> QED BY <1>1, <2>1, <2>2, <2>4, AnswerPut, SMTT(30)
<1>7. CASE Reuses(x)
  <2>1. cookie' = cookie /\ lost' = lost /\ net[x].stage = "reusing" /\ net[x].kind = "refresh"
    BY <1>1, <1>7 DEF Reuses, RefreshType
  <2>2. PICK m : m \in ReplyType /\ MsgInv(m) /\ m.kind = "refresh" /\ Puts(x, m)
    BY <1>7 DEF Reuses
  <2>3. PICK s \in Sids : row' = Revoked(s, "reuse")
    BY <1>7 DEF Reuses
  <2>4. row' \in [Sids -> RowType] /\ \A u \in Sids : row'[u].status = "none" => row'[u].gen = 0
    BY <1>1, <2>3 DEF RowType, Revoked
  <2> QED BY <1>1, <1>2, <2>1, <2>2, <2>4, AnswerPut
<1>8. CASE Opens(x)
  <2>1. cookie' = cookie /\ lost' = lost /\ net[x].stage # "none"
    BY <1>8 DEF Opens
  <2>2. PICK s \in Sids : row' = [row EXCEPT ![s].status = "active", ![s].uav = userVer] /\ Answers(x, s, 1, 0)
    BY <1>8 DEF Opens
  <2>3. PICK m : m \in ReplyType /\ MsgInv(m) /\ m.kind = net[x].kind /\ Puts(x, m)
    BY <2>2 DEF Answers
  <2>4. row' \in [Sids -> RowType] /\ \A u \in Sids : row'[u].status = "none" => row'[u].gen = 0
    BY <1>1, <2>2, ZenonT(60) DEF RowType
  <2> QED BY <1>1, <1>2, <2>1, <2>3, <2>4, AnswerPut
<1>9. CASE Advances(x)
  <2>1. cookie' = cookie /\ lost' = lost /\ net[x].stage # "none"
    BY <1>9 DEF Advances
  <2>2. PICK m : m \in ReplyType /\ MsgInv(m) /\ m.kind = net[x].kind /\ Puts(x, m)
    BY <1>9 DEF Advances, Answers
  <2>3. row' \in [Sids -> RowType] /\ \A u \in Sids : row'[u].status = "none" => row'[u].gen = 0
    BY <1>1, <1>9 DEF Advances, Ended
  <2> QED BY <1>1, <1>2, <2>1, <2>2, <2>3, AnswerPut
<1>10. CASE Arrives(x)
  <2>1. row' = row /\ lost' = lost /\ net[x].stage = "reply"
    BY <1>10 DEF Arrives
  <2>2. SetCookie(net[x]) \in Cookies
    BY <1>1, <2>1, MsgForms DEF SetCookie, ReplyType
  <2>3. cookie' \in Cookies
    BY <1>1, <1>10, <2>2 DEF Arrives
  <2>4. /\ net' \in [Slots -> MsgType] /\ \A y \in Slots : Fits(y, net'[y])
        /\ net'[x] = Idle /\ \A y \in Slots : y # x => net'[y] = net[y]
    BY <1>10, PutSlots, IdleFits DEF Arrives
  <2> QED BY <1>1, <2>1, <2>3, <2>4
<1> QED BY <1>4, <1>5, <1>6, <1>7, <1>8, <1>9, <1>10

LEMMA TypedStep == Typed /\ [Next]_vars => Typed'
<1> SUFFICES ASSUME Typed, [Next]_vars PROVE Typed'
  OBVIOUS
<1>1. CASE UNCHANGED vars
  BY <1>1 DEF vars, Typed
<1>2. CASE Next
  <2>1. inbox' \in [Tabs -> Seq(EventType)] /\ userVer' \in Nat
    BY <1>2, InboxStep
  <2>2. CASE ByTab
    <3>1. PICK t \in Tabs : row' = row /\ (Idles(t) \/ Asks(t) \/ Ends(t) \/ Finishes(t) \/ Unloads(t) \/ Hearkens(t))
      BY <2>2 DEF ByTab
    <3>2. /\ cookie' \in Cookies /\ lost' \subseteq Sids /\ left' \in [Tabs -> SUBSET Sids]
          /\ tab' \in [Tabs -> TabType] /\ net' \in [Slots -> MsgType]
          /\ \A x \in Slots : Fits(x, net'[x])
          /\ \A u \in Tabs : tab'[u].sid = None => tab'[u].ver = 0
          /\ \A u \in Tabs : net'[<<u, "run">>].stage # "none" => tab'[u].run = "wait"
      BY <3>1, TabSteps
    <3> QED BY <2>1, <3>1, <3>2 DEF Typed
  <2>3. CASE BySlot
    <3>1. PICK x \in Slots : Refuses(x) \/ Proceeds(x) \/ Rotates(x) \/ Reuses(x) \/ Opens(x) \/ Advances(x) \/ Arrives(x)
      BY <2>3 DEF BySlot
    <3>2. tab' = tab /\ left' = left
      BY <2>3 DEF BySlot
    <3>3. /\ row' \in [Sids -> RowType] /\ \A s \in Sids : row'[s].status = "none" => row'[s].gen = 0
          /\ cookie' \in Cookies /\ lost' \subseteq Sids
          /\ net' \in [Slots -> MsgType] /\ \A y \in Slots : Fits(y, net'[y])
          /\ \A y \in Slots : net'[y].stage # "none" => net[y].stage # "none"
      BY <3>1, <3>2, SlotSteps
    <3>4. \A t \in Tabs : <<t, "run">> \in Slots
      BY DEF Slots
    <3>5. \A t \in Tabs : net'[<<t, "run">>].stage # "none" => tab'[t].run = "wait"
      BY <3>2, <3>3, <3>4 DEF Typed
    <3> QED BY <2>1, <3>2, <3>3, <3>5 DEF Typed
  <2>4. CASE ByOther
    BY <2>1, <2>4 DEF ByOther, RowsEnd, Ended, Typed
  <2> QED BY <1>2, <2>2, <2>3, <2>4, StepKinds
<1> QED BY <1>1, <1>2
-----------------------------------------------------------------------------
(* Who knows a session *)

LEMMA MsgFits ==
    ASSUME Typed, NEW x \in Slots
    PROVE  /\ net[x] \in MsgType /\ MsgInv(net[x]) /\ Fits(x, net[x])
           /\ net[x].stage = "reply" => net[x] \in ReplyType
           /\ LoginReply(net[x]) => net[x].sid \in Sids /\ net[x].cookie.sid = net[x].sid
BY MsgForms DEF Typed, Fits, LoginReply, MsgInv

(* Idle slots and requests of the user bring nothing. *)
LEMMA QuietBrings ==
    ASSUME NEW m, Quiet(m)
    PROVE  (\A s : ~ Bears(m, s)) /\ ~ LoginReply(m) /\ m.stage # "reply"
BY Constants DEF Quiet, Bears, LoginReply, Kinds, OpKinds

LEMMA IdleBrings == (\A s : ~ Bears(Idle, s)) /\ ~ LoginReply(Idle) /\ Idle.stage # "reply"
BY Constants DEF Bears, LoginReply

LEMMA CookieSet ==
    ASSUME Typed, NEW x \in Slots, net[x].stage = "reply", NEW s \in Sids, cookie.sid # s,
           ~ Bears(net[x], s), ~ Grants(net[x], s)
    PROVE  SetCookie(net[x]).sid # s
<1>1. MsgInv(net[x]) /\ net[x] \in ReplyType /\ net[x].set \in BOOLEAN
  BY MsgFits DEF ReplyType
<1>2. CASE net[x].set = FALSE \/ net[x].cookie = NoCookie
  BY <1>1, <1>2, Constants DEF SetCookie
<1>3. CASE net[x].code = "ok" /\ net[x].kind \in {"refresh", "login"} /\ net[x].cookie.sid = net[x].sid
  <2>1. net[x].sid # s
    BY <1>3 DEF Bears, Grants, LoginReply
  <2> QED BY <1>3, <2>1 DEF SetCookie
<1> QED BY <1>1, <1>2, <1>3 DEF MsgInv

(* Where what is in a slot after a step of a tab comes from. *)
LEMMA TabSlots ==
    ASSUME Typed, NEW t \in Tabs, row' = row,
           Idles(t) \/ Asks(t) \/ Ends(t) \/ Finishes(t) \/ Unloads(t) \/ Hearkens(t),
           NEW y \in Slots
    PROVE  \/ net'[y] = net[y]
           \/ (\A s : ~ Bears(net'[y], s)) /\ ~ LoginReply(net'[y]) /\ net'[y].stage # "reply"
           \/ y = <<t, "run">> /\ net'[y] \in RefreshType /\ net'[y].stage = "sent" /\ net'[y].cookie = cookie
           \/ y = <<t, "lostrun">> /\ net'[y] = RunOf(t) /\ net'[<<t, "run">>] = Idle /\ Unloads(t)
           \/ y = <<t, "lostop">> /\ net'[y] = OpOf(t) /\ net'[<<t, "op">>] = Idle /\ Unloads(t)
<1>1. /\ net \in [Slots -> MsgType]
      /\ \A u \in Tabs, k \in {"run", "op", "lostrun", "lostop"} : <<u, k>> \in Slots
  BY DEF Typed, Slots
<1>2. CASE Idles(t)
  BY <1>1, <1>2, QuietBrings DEF Idles, Puts
<1>3. CASE Asks(t)
  BY <1>1, <1>3 DEF Asks, Puts
<1>4. CASE Ends(t)
  <2>1. PICK m : (m = OpOf(t) \/ Quiet(m)) /\ net' = [net EXCEPT ![<<t, "run">>] = Idle, ![<<t, "op">>] = m]
    BY <1>4 DEF Ends
  <2>2. net'[<<t, "run">>] = Idle /\ net'[<<t, "op">>] = m
    BY <1>1, <2>1
  <2>3. y \notin {<<t, "run">>, <<t, "op">>} => net'[y] = net[y]
    BY <1>1, <2>1
  <2> QED BY <2>1, <2>2, <2>3, QuietBrings, IdleBrings DEF OpOf
<1>5. CASE Finishes(t)
  BY <1>1, <1>5, IdleBrings DEF Finishes, Puts
<1>6. CASE Unloads(t)
  <2>1. PICK m, n : /\ m = RunOf(t) \/ m = net[<<t, "lostrun">>]
                    /\ n = OpOf(t) \/ n = net[<<t, "lostop">>]
                    /\ net' = [net EXCEPT ![<<t, "run">>] = Idle, ![<<t, "op">>] = Idle,
                                          ![<<t, "lostrun">>] = m, ![<<t, "lostop">>] = n]
    BY <1>6 DEF Unloads
  <2>2. /\ net'[<<t, "run">>] = Idle /\ net'[<<t, "op">>] = Idle
        /\ net'[<<t, "lostrun">>] = m /\ net'[<<t, "lostop">>] = n
    BY <1>1, <2>1
  <2>3. y \notin {<<t, "run">>, <<t, "op">>, <<t, "lostrun">>, <<t, "lostop">>} => net'[y] = net[y]
    BY <1>1, <2>1
  <2> QED BY <1>6, <2>1, <2>2, <2>3, IdleBrings
<1>7. CASE Hearkens(t)
  BY <1>7 DEF Hearkens
<1> QED BY <1>2, <1>3, <1>4, <1>5, <1>6, <1>7

LEMMA UnknownTab ==
    ASSUME Typed, NEW t \in Tabs, row' = row,
           Idles(t) \/ Asks(t) \/ Ends(t) \/ Finishes(t) \/ Unloads(t) \/ Hearkens(t),
           NEW s \in Sids, Unknown(s), Finishes(t) => ~ Grants(OpOf(t), s)
    PROVE  StaysUnknown(s)
<1>1. /\ cookie.sid # s /\ (\A u \in Tabs : tab[u].sid # s /\ s \notin left[u]) /\ \A y \in Slots : ~ Bears(net[y], s)
      /\ s # None
      /\ \A u \in Tabs, k \in {"run", "op", "lostrun", "lostop"} : <<u, k>> \in Slots
      /\ left \in [Tabs -> SUBSET Sids]
  BY Constants DEF Unknown, Slots, Typed
<1>2. \A u \in Tabs : u # t => tab'[u] = tab[u] /\ left'[u] = left[u]
  BY TabSteps
<1>3. cookie'.sid # s
  <2>1. CASE Ends(t)
    BY <1>1, <2>1, CookieSet, MsgFits, ZenonT(60) DEF Ends, RunOf, Fits, Grants, LoginReply, Refreshers
  <2>2. CASE Finishes(t)
    BY <1>1, <2>2, CookieSet DEF Finishes, OpOf
  <2> QED BY <1>1, <2>1, <2>2 DEF Idles, Asks, Unloads, Hearkens
<1>4. tab'[t].sid # s
  <2>1. PICK c : Turns(t, c) /\ tab'[t] = c
    BY DEF Idles, Asks, Ends, Finishes, Unloads, Hearkens, Turns, Typed
  <2>2. CASE Ends(t)
    <3>1. RunOf(t).stage = "reply" /\ RunOf(t).kind = "refresh" /\ ~ Bears(RunOf(t), s)
      BY <1>1, <2>2, MsgFits DEF Ends, RunOf, Fits, Refreshers
    <3>2. RunOf(t).code = "ok" => RunOf(t).sid # s
      BY <3>1 DEF Bears
    <3>3. \/ tab'[t].sid = tab[t].sid \/ tab'[t].sid = None
          \/ RunOf(t).code = "ok" /\ tab'[t].sid = RunOf(t).sid
      BY <2>2 DEF Ends, Turns, Holds, Typed
    <3> QED BY <1>1, <3>2, <3>3
  <2>3. CASE Finishes(t)
    <3>1. \/ tab'[t].sid = tab[t].sid \/ tab'[t].sid = None
          \/ LoginReply(OpOf(t)) /\ tab'[t].sid = OpOf(t).sid
      BY <2>3 DEF Finishes, Turns, Same, Joins, Holds, Takes, Forgets, Typed
    <3> QED BY <1>1, <2>3, <3>1 DEF Grants
  <2>4. CASE Idles(t) \/ Asks(t) \/ Unloads(t) \/ Hearkens(t)
    <3>1. tab'[t].sid = tab[t].sid \/ tab'[t].sid = None
      BY <2>4, FreshTabIs DEF Idles, Asks, Unloads, Hearkens, Turns, Same, Joins, Drops, Holds, Forgets, Typed
    <3> QED BY <1>1, <3>1
  <2> QED BY <2>2, <2>3, <2>4
<1>5. s \notin left'[t]
  <2>1. left'[t] \subseteq left[t] \cup {tab[t].sid}
    BY <1>1 DEF Idles, Asks, Ends, Finishes, Unloads, Hearkens, Parts
  <2> QED BY <1>1, <2>1
<1>6. ASSUME NEW y \in Slots PROVE ~ Bears(net'[y], s)
  <2>1. CASE net'[y] \in RefreshType /\ net'[y].stage = "sent" /\ net'[y].cookie = cookie
    BY <1>1, <2>1 DEF Bears
  <2> QED BY <1>1, <2>1, TabSlots DEF RunOf, OpOf
<1> QED BY <1>1, <1>2, <1>3, <1>4, <1>5, <1>6 DEF StaysUnknown
LEMMA FreshByTab ==
    ASSUME Typed, Typed', Fresh, ByTab
    PROVE  Fresh'
<1>1. PICK t \in Tabs : row' = row /\ (Idles(t) \/ Asks(t) \/ Ends(t) \/ Finishes(t) \/ Unloads(t) \/ Hearkens(t))
  BY DEF ByTab
<1>2. \A u \in Tabs, k \in {"run", "op", "lostrun", "lostop"} : <<u, k>> \in Slots
  BY DEF Slots
(* A sign-in that is answered after the step was answered before it. *)
<1>3. ASSUME NEW y \in Slots, LoginReply(net'[y])
      PROVE  \/ net'[y] = net[y]
             \/ y = <<t, "lostop">> /\ net'[y] = OpOf(t) /\ net'[<<t, "op">>] = Idle /\ Unloads(t)
  <2>1. net'[y].kind = "login"
    BY <1>3 DEF LoginReply
  <2>2. ~ (net'[y] \in RefreshType)
    BY <2>1 DEF RefreshType
  <2>3. y # <<t, "lostrun">> \/ net'[y] # RunOf(t)
    BY <1>2, <1>3, <2>1, MsgFits DEF Fits, RunOf, Refreshers, LoginReply
  <2> QED BY <1>1, <1>3, <2>2, <2>3, TabSlots
<1>4. ASSUME NEW s \in Sids, row'[s].status = "none"
      PROVE  StaysUnknown(s) /\ \A y \in Slots : ~ Grants(net'[y], s)
  <2>1. Unknown(s) /\ \A y \in Slots : ~ Grants(net[y], s)
    BY <1>1, <1>4 DEF Fresh
  <2>2. StaysUnknown(s)
    BY <1>1, <1>2, <2>1, UnknownTab DEF OpOf
  <2>3. \A y \in Slots : ~ Grants(net'[y], s)
    BY <1>2, <1>3, <2>1 DEF Grants, OpOf
  <2> QED BY <2>2, <2>3
<1>5. ASSUME NEW x \in Slots, LoginReply(net'[x]),
             NEW z \in Slots, net'[x] = net[z], Finishes(t) => z # <<t, "op">>,
             \A y \in Slots : y # x /\ LoginReply(net'[y]) => \E w \in Slots : w # z /\ net'[y] = net[w]
      PROVE  LET s == net'[x].sid IN
             StaysUnknown(s) /\ row'[s].gen = 0 /\ net'[x].cookie.gen = 0 /\ \A y \in Slots : y # x => ~ Grants(net'[y], s)
  <2> DEFINE s == net'[x].sid
  <2>1. /\ s \in Sids /\ Unknown(s) /\ row[s].gen = 0 /\ net[z].cookie.gen = 0
        /\ \A y \in Slots : y # z => ~ Grants(net[y], s)
    BY <1>5, MsgFits DEF Fresh
  <2>2. Finishes(t) => ~ Grants(OpOf(t), s)
    BY <1>2, <1>5, <2>1 DEF OpOf
  <2> HIDE DEF s
  <2>3. StaysUnknown(s)
    BY <1>1, <2>1, <2>2, UnknownTab
  <2>4. \A y \in Slots : y # x => ~ Grants(net'[y], s)
    BY <1>5, <2>1 DEF Grants
  <2> QED BY <1>1, <1>5, <2>1, <2>3, <2>4 DEF s
<1>6. ASSUME NEW x \in Slots, LoginReply(net'[x])
      PROVE  \E z \in Slots : /\ net'[x] = net[z] /\ (Finishes(t) => z # <<t, "op">>)
                              /\ \A y \in Slots : y # x /\ LoginReply(net'[y]) => \E w \in Slots : w # z /\ net'[y] = net[w]
  <2>1. CASE net'[x] = net[x] /\ ~ Unloads(t)
    <3>1. Finishes(t) => x # <<t, "op">>
      BY <1>2, <1>6, <2>1, IdleBrings DEF Finishes, Puts, Typed
    <3> QED BY <1>3, <2>1, <3>1
  <2>2. CASE Unloads(t)
    <3>1. net'[<<t, "op">>] = Idle
      BY <1>2, <2>2 DEF Unloads, Typed
    <3>2. x # <<t, "op">>
      BY <1>6, <3>1, IdleBrings
    <3>3. ~ Finishes(t) \/ net'[x] = net[x]
      BY <1>2, <3>2 DEF Finishes, Puts, Typed
    <3>4. CASE net'[x] = net[x]
      <4>1. \A y \in Slots : y # x /\ LoginReply(net'[y]) => \E w \in Slots : w # x /\ net'[y] = net[w]
        BY <1>2, <1>3, <3>2 DEF OpOf
      <4> QED BY <3>2, <3>4, <4>1
    <3>5. CASE net'[x] # net[x]
      <4>1. x = <<t, "lostop">> /\ net'[x] = OpOf(t)
        BY <1>3, <1>6, <3>5
      <4>2. \A y \in Slots : y # x /\ LoginReply(net'[y]) => y # <<t, "op">> /\ net'[y] = net[y]
        BY <1>3, <3>1, <4>1, IdleBrings
      <4> QED BY <1>2, <3>3, <3>5, <4>1, <4>2 DEF OpOf
    <3> QED BY <3>4, <3>5
  <2> QED BY <1>3, <1>6, <2>1, <2>2
<1>7. \A x \in Slots : LoginReply(net'[x]) =>
         /\ StaysUnknown(net'[x].sid) /\ row'[net'[x].sid].gen = 0 /\ net'[x].cookie.gen = 0
         /\ \A y \in Slots : y # x => ~ Grants(net'[y], net'[x].sid)
  BY <1>5, <1>6
<1> QED BY <1>4, <1>7 DEF Fresh, Unknown, StaysUnknown
(* What a step of the server leaves in its slot, and of the rows. *)
LEMMA SlotBrings ==
    ASSUME Typed, NEW x \in Slots, tab' = tab, left' = left,
           Refuses(x) \/ Proceeds(x) \/ Rotates(x) \/ Reuses(x) \/ Opens(x) \/ Advances(x) \/ Arrives(x)
    PROVE  /\ \A s : Bears(net'[x], s) => Bears(net[x], s)
           /\ LoginReply(net'[x]) => Opens(x)
           /\ \A s \in Sids : row'[s].status = "none" => row[s].status = "none"
           /\ \A s \in Sids : row'[s].gen = row[s].gen \/ (Rotates(x) /\ Bears(net[x], s))
<1>1. /\ net \in [Slots -> MsgType] /\ row \in [Sids -> RowType] /\ Fits(x, net[x])
      /\ net[x].stage # "none" => net[x].kind \in MsgKinds
  BY MsgForms DEF Typed
<1>2. ASSUME NEW m, Puts(x, m) PROVE net'[x] = m
  BY <1>1, <1>2 DEF Puts
<1>3. CASE Refuses(x)
  <2>1. PICK m : /\ m \in ReplyType /\ m.kind = net[x].kind /\ Puts(x, m)
                 /\ m.code # "ok" \/ m.kind \notin {"refresh", "login", "secure"}
    BY <1>3 DEF Refuses
  <2>2. (\A s : ~ Bears(m, s)) /\ ~ LoginReply(m)
    BY <2>1 DEF Bears, LoginReply, ReplyType
  <2>3. RowsEnd
    BY <1>3 DEF Refuses
  <2> QED BY <1>2, <2>1, <2>2, <2>3 DEF RowsEnd, Ended
<1>4. CASE Proceeds(x)
  <2>1. PICK m : /\ m \in MsgType /\ m.kind = net[x].kind /\ Puts(x, m)
                 /\ \/ net[x] \in RefreshType /\ m.stage \in {"checked", "reusing"} /\ m.cookie = net[x].cookie
                    \/ net[x] \in CallType /\ m.stage = "changed"
    BY <1>4 DEF Proceeds
  <2>2. ~ LoginReply(m) /\ \A s : Bears(m, s) => Bears(net[x], s)
    BY <2>1 DEF Bears, LoginReply, RefreshType, Handled, CallType
  <2> QED BY <1>2, <1>4, <2>1, <2>2 DEF Proceeds
<1>5. CASE Rotates(x)
  <2>1. net[x].stage \in {"sent"} \cup Handled /\ net[x].kind = "refresh"
    BY <1>5, ZenonT(60) DEF Rotates, RefreshType
  <2>2. PICK m : Puts(x, m) /\ m.kind = "refresh" /\ Whose(m) = net[x].cookie.sid
    BY <1>5 DEF Rotates
  <2>3. ~ LoginReply(m) /\ \A s : Bears(m, s) => Bears(net[x], s)
    BY <2>1, <2>2, SMTT(30) DEF Bears, LoginReply, Whose, Handled
  <2>4. \A s \in Sids : row'[s].gen = row[s].gen \/ s = net[x].cookie.sid
    BY <1>1, <1>5, ZenonT(60) DEF Rotates
  <2>5. \A s \in Sids : row'[s].status = row[s].status
    BY <1>1, <1>5, ZenonT(60) DEF Rotates, RowType
  <2>6. Bears(net[x], net[x].cookie.sid)
    BY <2>1 DEF Bears, Handled
  <2> QED BY <1>2, <1>5, <2>2, <2>3, <2>4, <2>5, <2>6, SMTT(30)
<1>6. CASE Reuses(x)
  <2>1. PICK m : m \in ReplyType /\ Puts(x, m) /\ m.kind = "refresh" /\ m.code = "unauthorized"
    BY <1>6 DEF Reuses
  <2>2. ~ LoginReply(m) /\ \A s : ~ Bears(m, s)
    BY <2>1 DEF Bears, LoginReply, ReplyType
  <2>3. \A s \in Sids : row'[s].gen = row[s].gen /\ (row'[s].status = "none" => row[s].status = "none")
    BY <1>1, <1>6 DEF Reuses, Revoked, RowType
  <2> QED BY <1>2, <2>1, <2>2, <2>3
<1>7. CASE Opens(x)
  <2>1. PICK s \in Sids : row' = [row EXCEPT ![s].status = "active", ![s].uav = userVer] /\ Answers(x, s, 1, 0)
    BY <1>7 DEF Opens
  <2>2. PICK m : m \in ReplyType /\ Puts(x, m) /\ m.kind = "login"
    BY <1>7, <2>1 DEF Opens, Answers
  <2>3. \A u : ~ Bears(m, u)
    BY <2>2 DEF Bears
  <2>4. \A u \in Sids : row'[u].gen = row[u].gen /\ (row'[u].status = "none" => row[u].status = "none")
    BY <1>1, <2>1 DEF RowType
  <2> QED BY <1>2, <1>7, <2>2, <2>3, <2>4
<1>8. CASE Advances(x)
  <2>1. net[x].kind = "secure" /\ net[x].sid \in Sids
    BY <1>1, <1>8 DEF Advances, Fits, MsgInv
  <2>2. PICK m : m \in ReplyType /\ Puts(x, m) /\ m.kind = "secure"
    BY <1>8, <2>1 DEF Advances, Answers
  <2>3. ~ LoginReply(m) /\ \A u : ~ Bears(m, u)
    BY <2>2 DEF Bears, LoginReply
  <2>4. \A u \in Sids : row'[u].gen = row[u].gen /\ (row'[u].status = "none" => row[u].status = "none")
    BY <1>8 DEF Advances, Ended
  <2> QED BY <1>2, <2>2, <2>3, <2>4
<1>9. CASE Arrives(x)
  BY <1>2, <1>9, IdleBrings DEF Arrives
<1> QED BY <1>3, <1>4, <1>5, <1>6, <1>7, <1>8, <1>9

LEMMA UnknownSlot ==
    ASSUME Typed, NEW x \in Slots, tab' = tab, left' = left,
           Refuses(x) \/ Proceeds(x) \/ Rotates(x) \/ Reuses(x) \/ Opens(x) \/ Advances(x) \/ Arrives(x),
           NEW s \in Sids, Unknown(s), Arrives(x) => ~ Grants(net[x], s)
    PROVE  StaysUnknown(s)
<1>1. \A y \in Slots : ~ Bears(net'[y], s)
  BY SlotBrings, SlotSteps DEF Unknown
<1>2. cookie'.sid # s
  <2>1. CASE cookie' = cookie
    BY <2>1 DEF Unknown
  <2>2. CASE Arrives(x) /\ cookie' = SetCookie(net[x])
    BY <2>2, CookieSet DEF Arrives, Unknown
  <2> QED BY <2>1, <2>2 DEF Refuses, Proceeds, Rotates, Reuses, Opens, Advances, Arrives
<1> QED BY <1>1, <1>2 DEF StaysUnknown, Unknown

LEMMA FreshBySlot ==
    ASSUME Typed, Typed', Fresh, BySlot
    PROVE  Fresh'
<1>1. PICK x \in Slots : Refuses(x) \/ Proceeds(x) \/ Rotates(x) \/ Reuses(x) \/ Opens(x) \/ Advances(x) \/ Arrives(x)
  BY DEF BySlot
<1>2. tab' = tab /\ left' = left
  BY DEF BySlot
<1>3. /\ \A y \in Slots : y # x => net'[y] = net[y]
      /\ LoginReply(net'[x]) => Opens(x)
      /\ \A s \in Sids : row'[s].status = "none" => row[s].status = "none"
      /\ \A s \in Sids : row'[s].gen = row[s].gen \/ Bears(net[x], s)
  BY <1>1, <1>2, SlotBrings, SlotSteps
<1>4. ASSUME Opens(x) PROVE \E s \in Sids : /\ row[s].status = "none" /\ row'[s].status = "active" /\ row'[s].gen = 0
                                            /\ net'[x].sid = s /\ net'[x].cookie.gen = 0
  <2>1. PICK s \in Sids : /\ row[s].status = "none"
                          /\ row' = [row EXCEPT ![s].status = "active", ![s].uav = userVer] /\ Answers(x, s, 1, 0)
    BY <1>4 DEF Opens
  <2>2. PICK m : m \in ReplyType /\ Puts(x, m) /\ m.kind = net[x].kind /\ m.sid = s /\ (m.kind # "secure" => m.cookie.gen = 0)
    BY <2>1 DEF Answers
  <2>3. net'[x] = m /\ m.kind = "login"
    BY <1>4, <2>2 DEF Opens, Puts, Typed
  <2>4. row[s] \in RowType /\ row[s].gen = 0 /\ row'[s] = [row[s] EXCEPT !.status = "active", !.uav = userVer]
    BY <2>1 DEF Typed
  <2>5. row'[s].status = "active" /\ row'[s].gen = 0
    BY <2>4 DEF RowType
  <2> QED BY <2>1, <2>2, <2>3, <2>5
<1>5. ASSUME NEW s \in Sids, row'[s].status = "none"
      PROVE  StaysUnknown(s) /\ \A y \in Slots : ~ Grants(net'[y], s)
  <2>1. Unknown(s) /\ \A y \in Slots : ~ Grants(net[y], s)
    BY <1>3, <1>5 DEF Fresh
  <2>2. StaysUnknown(s)
    BY <1>1, <1>2, <2>1, UnknownSlot
  <2>3. ~ Grants(net'[x], s)
    BY <1>3, <1>4, <1>5 DEF Grants
  <2> QED BY <1>3, <2>1, <2>2, <2>3
<1>6. ASSUME NEW z \in Slots, LoginReply(net'[z]), z # x
      PROVE  LET s == net'[z].sid IN
             StaysUnknown(s) /\ row'[s].gen = 0 /\ net'[z].cookie.gen = 0 /\ \A y \in Slots : y # z => ~ Grants(net'[y], s)
  <2> DEFINE s == net'[z].sid
  <2>1. /\ s \in Sids /\ Unknown(s) /\ row[s].gen = 0 /\ net[z].cookie.gen = 0 /\ net'[z] = net[z]
        /\ \A y \in Slots : y # z => ~ Grants(net[y], s)
        /\ row[s].status # "none"
    BY <1>3, <1>6, MsgFits DEF Fresh, Grants
  <2> HIDE DEF s
  <2>2. StaysUnknown(s)
    BY <1>1, <1>2, <1>6, <2>1, UnknownSlot
  <2>3. row'[s].gen = 0
    BY <1>3, <2>1 DEF Unknown
  <2>4. ~ Grants(net'[x], s)
    BY <1>3, <1>4, <2>1 DEF Grants
  <2>5. \A y \in Slots : y # z => ~ Grants(net'[y], s)
    BY <1>3, <2>1, <2>4
  <2> QED BY <2>1, <2>2, <2>3, <2>5 DEF s
<1>7. ASSUME LoginReply(net'[x])
      PROVE  LET s == net'[x].sid IN
             StaysUnknown(s) /\ row'[s].gen = 0 /\ net'[x].cookie.gen = 0 /\ \A y \in Slots : y # x => ~ Grants(net'[y], s)
  <2>1. PICK s \in Sids : row[s].status = "none" /\ row'[s].gen = 0 /\ net'[x].sid = s /\ net'[x].cookie.gen = 0
    BY <1>3, <1>4, <1>7
  <2>2. Unknown(s) /\ \A y \in Slots : ~ Grants(net[y], s)
    BY <2>1 DEF Fresh
  <2>3. StaysUnknown(s)
    BY <1>1, <1>2, <2>2, UnknownSlot
  <2> QED BY <1>3, <2>1, <2>2, <2>3
<1>8. \A z \in Slots : LoginReply(net'[z]) =>
         /\ StaysUnknown(net'[z].sid) /\ row'[net'[z].sid].gen = 0 /\ net'[z].cookie.gen = 0
         /\ \A y \in Slots : y # z => ~ Grants(net'[y], net'[z].sid)
  BY <1>6, <1>7
<1> QED BY <1>5, <1>8 DEF Fresh, Unknown, StaysUnknown

LEMMA FreshInit == Init => Fresh
<1> SUFFICES ASSUME Init PROVE Fresh
  OBVIOUS
<1>1. Typed /\ \A x \in Slots : net[x] = Idle
  BY TypedInit DEF Init
<1>2. ASSUME NEW s \in Sids, row[s].status = "none" PROVE Unknown(s)
  <2>1. s # 1 /\ s # None
    BY <1>2, Constants DEF Init
  <2> QED BY <1>1, <2>1, IdleBrings, FreshTabIs DEF Init, Unknown
<1> QED BY <1>1, <1>2, IdleBrings DEF Fresh, Grants

LEMMA FreshStep == Typed /\ Fresh /\ [Next]_vars => Fresh'
<1> SUFFICES ASSUME Typed, Fresh, [Next]_vars PROVE Fresh'
  OBVIOUS
<1>1. Typed'
  BY TypedStep
<1>2. CASE UNCHANGED vars
  BY <1>2 DEF vars, Fresh, Unknown
<1>3. CASE ByOther
  <2>1. /\ tab' = tab /\ net' = net /\ cookie' = cookie /\ left' = left
        /\ \A s \in Sids : row'[s].gen = row[s].gen /\ (row'[s].status = "none" => row[s].status = "none")
    BY <1>3 DEF ByOther, RowsEnd, Ended
  <2> QED BY <2>1, MsgFits DEF Fresh, Unknown
<1> QED BY <1>1, <1>2, <1>3, StepKinds, FreshByTab, FreshBySlot
-----------------------------------------------------------------------------
(* What the server does to rows, and what it answers *)

LEMMA SlotRows ==
    ASSUME Typed, NEW x \in Slots,
           Refuses(x) \/ Proceeds(x) \/ Rotates(x) \/ Reuses(x) \/ Opens(x) \/ Advances(x) \/ Arrives(x),
           NEW s \in Sids
    PROVE  /\ row[s].status = "revoked" => row'[s].status = "revoked"
           /\ row'[s].ver >= row[s].ver
           /\ row'[s].ver = row[s].ver \/ (Advances(x) /\ s = net[x].sid)
           /\ row'[s].reason = "reuse" => row[s].reason = "reuse" \/ (Reuses(x) /\ s = net[x].cookie.sid)
           /\ row'[s].gen # row[s].gen => Rotates(x) /\ s = net[x].cookie.sid
<1>1. row \in [Sids -> RowType] /\ row[s] \in RowType /\ row[s].ver \in Nat /\ row[s].gen \in Nat
  BY RowFields DEF Typed
<1>2. CASE Refuses(x)
  BY <1>1, <1>2 DEF Refuses, RowsEnd, Ended
<1>3. CASE Proceeds(x) \/ Arrives(x)
  BY <1>1, <1>3 DEF Proceeds, Arrives
<1>4. CASE Rotates(x)
  <2>1. \/ row'[s] = row[s]
        \/ row'[s] = [row[s] EXCEPT !.gen = @ + 1] /\ s = net[x].cookie.sid
    BY <1>1, <1>4 DEF Rotates
  <2> QED BY <1>1, <1>4, <2>1, SMTT(30) DEF RowType
<1>5. CASE Reuses(x)
  <2>1. \/ row'[s] = row[s]
        \/ row'[s] = [row[s] EXCEPT !.status = "revoked", !.reason = "reuse"] /\ s = net[x].cookie.sid
    BY <1>1, <1>5 DEF Reuses, Revoked
  <2>2. /\ row'[s].gen = row[s].gen /\ row'[s].ver = row[s].ver
        /\ row'[s].status = row[s].status \/ row'[s].status = "revoked"
        /\ row'[s].reason = row[s].reason \/ s = net[x].cookie.sid
    BY <1>1, <2>1 DEF RowType
  <2> QED BY <1>1, <1>5, <2>2
<1>6. CASE Opens(x)
  <2>1. \/ row'[s] = row[s]
        \/ row'[s] = [row[s] EXCEPT !.status = "active", !.uav = userVer] /\ row[s].status = "none"
    BY <1>1, <1>6 DEF Opens
  <2>2. /\ row'[s].gen = row[s].gen /\ row'[s].ver = row[s].ver /\ row'[s].reason = row[s].reason
        /\ row'[s].status = row[s].status \/ row[s].status = "none"
    BY <1>1, <2>1 DEF RowType
  <2> QED BY <1>1, <2>2
<1>7. CASE Advances(x)
  BY <1>1, <1>7 DEF Advances, Ended
<1> QED BY <1>2, <1>3, <1>4, <1>5, <1>6, <1>7

(* Where a message that gives a session comes from. *)
LEMMA SlotGives ==
    ASSUME Typed, NEW x \in Slots, tab' = tab, left' = left,
           Refuses(x) \/ Proceeds(x) \/ Rotates(x) \/ Reuses(x) \/ Opens(x) \/ Advances(x) \/ Arrives(x),
           NEW y \in Slots, Given(net'[y])
    PROVE  \/ net'[y] = net[y]
           \/ /\ y = x /\ net'[y].kind = "refresh" /\ net[y].kind = "refresh" /\ Pledged(net[y])
              /\ Whose(net'[y]) = Whose(net[y]) /\ net'[y].ver = net[y].ver
           \/ /\ y = x /\ net'[y].kind = "refresh" /\ row[Whose(net'[y])].status = "active"
              /\ net'[y].ver = row[Whose(net'[y])].ver
           \/ y = x /\ net'[y].kind = "login" /\ net'[y].ver = 1
           \/ y = x /\ net'[y].kind = "secure" /\ net'[y].ver = row'[Whose(net'[y])].ver
<1>1. /\ net \in [Slots -> MsgType] /\ row \in [Sids -> RowType] /\ Fits(x, net[x])
      /\ \A s \in Sids : row[s] \in RowType
  BY DEF Typed
<1>2. y # x => net'[y] = net[y]
  BY SlotSteps
<1>3. ASSUME NEW m, Puts(x, m) PROVE net'[x] = m
  BY <1>1, <1>3 DEF Puts
<1> SUFFICES ASSUME y = x
             PROVE  \/ /\ net'[x].kind = "refresh" /\ net[x].kind = "refresh" /\ Pledged(net[x])
                       /\ Whose(net'[x]) = Whose(net[x]) /\ net'[x].ver = net[x].ver
                    \/ /\ net'[x].kind = "refresh" /\ row[Whose(net'[x])].status = "active"
                       /\ net'[x].ver = row[Whose(net'[x])].ver
                    \/ net'[x].kind = "login" /\ net'[x].ver = 1
                    \/ net'[x].kind = "secure" /\ net'[x].ver = row'[Whose(net'[x])].ver
  BY <1>2
<1>4. CASE Refuses(x) \/ Reuses(x)
  <2>1. PICK m : /\ m \in ReplyType /\ Puts(x, m)
                 /\ m.code # "ok" \/ m.kind \notin {"refresh", "login", "secure"}
    BY <1>4 DEF Refuses, Reuses
  <2>2. ~ Given(m)
    BY <2>1 DEF Given, Pledged, Granted, ReplyType
  <2> QED BY <1>3, <2>1, <2>2
<1>5. CASE Proceeds(x) \/ Arrives(x)
  <2>1. PICK m : Puts(x, m) /\ (m = Idle \/ m.stage \in {"checked", "reusing", "changed"})
    BY <1>5 DEF Proceeds, Arrives
  <2>2. ~ Pledged(m)
    BY <2>1, Constants DEF Pledged, Granted
  <2> QED BY <1>3, <2>1, <2>2 DEF Given
<1>6. CASE Rotates(x)
  <2> DEFINE s == net[x].cookie.sid
  <2>1. net[x].kind = "refresh" /\ net[x].stage # "reply"
    BY <1>6, ZenonT(60) DEF Rotates, RefreshType, Handled
  <2>2. PICK m : /\ m.kind = "refresh" /\ Puts(x, m) /\ Whose(m) = s
                 /\ \/ Pledged(net[x]) /\ m.ver = net[x].ver
                    \/ row[s].status = "active" /\ m.ver = row[s].ver
    BY <1>6 DEF Rotates
  <2>3. Whose(net[x]) = s
    BY <2>1 DEF Whose
  <2> QED BY <1>3, <2>1, <2>2, <2>3, SMTT(30)
<1>7. CASE Opens(x)
  BY <1>3, <1>7 DEF Opens, Answers
<1>8. CASE Advances(x)
  <2>1. net[x].kind = "secure" /\ net[x].sid \in Sids
    BY <1>1, <1>8 DEF Advances, Fits, MsgInv
  <2>2. PICK m : m \in ReplyType /\ m.kind = "secure" /\ Puts(x, m) /\ m.sid = net[x].sid /\ m.ver = row[net[x].sid].ver + 1
    BY <1>8, <2>1 DEF Advances, Answers
  <2>3. Whose(m) = net[x].sid
    BY <2>2 DEF Whose, ReplyType
  <2> QED BY <1>3, <1>8, <2>2, <2>3 DEF Advances
<1> QED BY <1>4, <1>5, <1>6, <1>7, <1>8

(* Who a message that gives a session gives it to. *)
LEMMA GivenForms ==
    ASSUME NEW m \in MsgType, MsgInv(m), Given(m)
    PROVE  Whose(m) \in Sids /\ m.ver \in Nat
<1>1. CASE m.stage \in {"rotating", "rotated"}
  <2>1. m \in RefreshType /\ m.cookie # NoCookie
    BY <1>1, MsgForms DEF Handled, MsgInv
  <2>2. m.cookie.sid \in Sids /\ m.ver \in Nat
    BY <2>1, CookieFields DEF RefreshType
  <2> QED BY <1>1, <2>2 DEF Whose
<1>2. CASE Granted(m)
  <2>1. m \in ReplyType
    BY <1>2, MsgForms DEF Granted
  <2> QED BY <1>2, <2>1 DEF Whose, Given, Granted, MsgInv, ReplyType
<1> QED BY <1>1, <1>2 DEF Given, Pledged

-----------------------------------------------------------------------------
(* Sessions a tab has parted with *)

LEMMA PartedInit == Init => Parted
<1> SUFFICES ASSUME Init PROVE Parted
  OBVIOUS
<1> QED BY FreshTabIs DEF Init, Parted, NoResurrection

LEMMA PartedByTab ==
    ASSUME Typed, Typed', Fresh, Parted, ByTab
    PROVE  Parted'
<1>1. PICK t \in Tabs : row' = row /\ (Idles(t) \/ Asks(t) \/ Ends(t) \/ Finishes(t) \/ Unloads(t) \/ Hearkens(t))
  BY DEF ByTab
<1>2. /\ \A u \in Tabs : u # t => tab'[u] = tab[u] /\ left'[u] = left[u]
      /\ \A u \in Tabs : u # t => net'[<<u, "run">>] = net[<<u, "run">>]
  BY <1>1, TabSteps
<1>3. /\ net \in [Slots -> MsgType] /\ tab \in [Tabs -> TabType] /\ left \in [Tabs -> SUBSET Sids]
      /\ <<t, "run">> \in Slots /\ <<t, "op">> \in Slots /\ None \notin left[t] /\ Idle.stage = "none"
      /\ RunOf(t).stage # "none" => tab[t].run = "wait"
  BY Constants DEF Typed, Slots, RunOf
<1>4. /\ \A s \in left[t] : row[s].status = "revoked"
      /\ tab[t].current /\ Pledged(RunOf(t)) => Whose(RunOf(t)) \notin left[t]
      /\ tab[t].sid \notin left[t]
      /\ Pledged(RunOf(t)) => tab[t].run = "wait"
  BY <1>3 DEF Parted, NoResurrection, RunOf, Pledged, Granted
<1>5. ASSUME Parts(t) PROVE \A s \in left'[t] : row[s].status = "revoked"
  BY <1>3, <1>4, <1>5 DEF Parts
<1>6. None \notin left'[t]
  BY Constants DEF Typed
<1> DEFINE Good == /\ \A s \in left'[t] : row[s].status = "revoked"
                   /\ tab'[t].current = FALSE \/ ~ Pledged(net'[<<t, "run">>]) \/ Whose(net'[<<t, "run">>]) \notin left'[t]
                   /\ tab'[t].sid \notin left'[t]
<1>7. ASSUME Idles(t) PROVE Good
  <2>1. PICK c : Turns(t, c) /\ (Same(tab[t], c) \/ Joins(tab[t], c) \/ Drops(tab[t], c))
    BY <1>7 DEF Idles
  <2>2. tab'[t] = c /\ net'[<<t, "run">>] = RunOf(t) /\ left' = left
    BY <1>3, <1>7, <2>1 DEF Idles, Turns, Puts, RunOf
  <2>3. tab'[t].sid = tab[t].sid
    BY <2>1, <2>2 DEF Same, Joins, Drops, Holds
  <2>4. \/ tab'[t].current = tab[t].current \/ tab'[t].current = FALSE \/ ~ Pledged(RunOf(t))
    BY <1>4, <2>1, <2>2 DEF Same, Joins, Drops
  <2>5. tab[t].current \in BOOLEAN
    BY TabFields
  <2> QED BY <1>4, <2>2, <2>3, <2>4, <2>5
<1>8. ASSUME Asks(t) PROVE Good
  <2>1. PICK m : m \in RefreshType /\ m.stage = "sent" /\ Puts(<<t, "run">>, m)
    BY <1>8 DEF Asks
  <2>2. net'[<<t, "run">>].stage = "sent"
    BY <1>3, <2>1 DEF Puts
  <2>3. left' = left /\ (tab'[t].sid = tab[t].sid \/ tab'[t].sid = None)
    BY <1>3, <1>8 DEF Asks, Turns, Holds
  <2> QED BY <1>3, <1>4, <2>2, <2>3 DEF Pledged, Granted
<1>9. ASSUME Ends(t) PROVE Good
  <2>1. left' = left /\ net'[<<t, "run">>] = Idle
    BY <1>3, <1>9 DEF Ends
  <2>2. \/ tab'[t].sid = tab[t].sid \/ tab'[t].sid = None
        \/ tab[t].current = TRUE /\ Pledged(RunOf(t)) /\ tab'[t].sid = Whose(RunOf(t))
    BY <1>3, <1>9 DEF Ends, Turns, Holds, Pledged, Granted, Whose
  <2> QED BY <1>3, <1>4, <2>1, <2>2 DEF Pledged, Granted
<1>10. ASSUME Finishes(t) PROVE Good
  <2>1. PICK c : /\ Turns(t, c)
                 /\ \/ (Same(tab[t], c) \/ Joins(tab[t], c)) /\ left' = left
                    \/ LoginReply(OpOf(t)) /\ Takes(tab[t], c, OpOf(t)) /\ left' = left
                    \/ OpOf(t).sid = tab[t].sid /\ Takes(tab[t], c, OpOf(t)) /\ left' = left
                    \/ Forgets(tab[t], c) /\ Parts(t)
    BY <1>10 DEF Finishes
  <2>2. tab'[t] = c /\ net'[<<t, "run">>] = RunOf(t)
    BY <1>3, <1>10, <2>1 DEF Finishes, Turns, Puts, RunOf
  <2>3. CASE (Same(tab[t], c) \/ Joins(tab[t], c)) /\ left' = left
    <3>1. tab'[t].sid = tab[t].sid /\ (tab'[t].current = tab[t].current \/ ~ Pledged(RunOf(t)))
      BY <1>4, <2>2, <2>3 DEF Same, Joins, Holds
    <3>2. tab[t].current \in BOOLEAN
      BY TabFields
    <3> QED BY <1>4, <2>2, <2>3, <3>1, <3>2
  <2>4. CASE LoginReply(OpOf(t)) /\ Takes(tab[t], c, OpOf(t)) /\ left' = left
    <3>1. OpOf(t).sid \notin left[t]
      BY <1>3, <2>4 DEF Fresh, Unknown, OpOf
    <3> QED BY <1>4, <2>2, <2>4, <3>1 DEF Takes
  <2>5. CASE OpOf(t).sid = tab[t].sid /\ Takes(tab[t], c, OpOf(t)) /\ left' = left
    BY <1>4, <2>2, <2>5 DEF Takes
  <2>6. CASE Forgets(tab[t], c) /\ Parts(t)
    BY <1>5, <1>6, <2>2, <2>6 DEF Forgets
  <2> QED BY <2>1, <2>3, <2>4, <2>5, <2>6
<1>11. ASSUME Unloads(t) PROVE Good
  <2>1. left'[t] = {}
    BY <1>3, <1>11 DEF Unloads
  <2> QED BY <2>1
<1>12. ASSUME Hearkens(t) PROVE Good
  <2>1. PICK c : Turns(t, c) /\ Forgets(tab[t], c)
    BY <1>12 DEF Hearkens
  <2>2. tab'[t] = c /\ Parts(t)
    BY <1>3, <1>12, <2>1 DEF Turns, Hearkens
  <2> QED BY <1>5, <1>6, <2>1, <2>2 DEF Forgets
<1>13. Good
  BY <1>1, <1>7, <1>8, <1>9, <1>10, <1>11, <1>12
<1> QED BY <1>1, <1>2, <1>13 DEF Parted, NoResurrection

LEMMA PartedBySlot ==
    ASSUME Typed, Typed', Parted, BySlot
    PROVE  Parted'
<1>1. PICK x \in Slots : Refuses(x) \/ Proceeds(x) \/ Rotates(x) \/ Reuses(x) \/ Opens(x) \/ Advances(x) \/ Arrives(x)
  BY DEF BySlot
<1>2. tab' = tab /\ left' = left
  BY DEF BySlot
<1>3. \A t \in Tabs : left[t] \subseteq Sids
  BY TabFields
<1>4. \A t \in Tabs : \A s \in left'[t] : row'[s].status = "revoked"
  BY <1>1, <1>2, <1>3, SlotRows DEF Parted
<1>5. ASSUME NEW t \in Tabs, tab'[t].current, Pledged(net'[<<t, "run">>])
      PROVE  Whose(net'[<<t, "run">>]) \notin left'[t]
  <2>1. <<t, "run">> \in Slots /\ <<t, "run">>[2] \in Refreshers
    BY DEF Slots, Refreshers
  <2>2. Given(net'[<<t, "run">>]) /\ net'[<<t, "run">>].kind = "refresh"
    <3>1. Fits(<<t, "run">>, net'[<<t, "run">>])
      BY <2>1 DEF Typed
    <3> QED BY <1>5, <2>1, <3>1 DEF Fits, Given, Pledged, Granted
  <2>3. CASE /\ Pledged(net[<<t, "run">>]) /\ Whose(net'[<<t, "run">>]) = Whose(net[<<t, "run">>])
    BY <1>2, <1>5, <2>3 DEF Parted
  <2>4. CASE row[Whose(net'[<<t, "run">>])].status = "active"
    BY <1>2, <2>4 DEF Parted
  <2> QED BY <1>1, <1>2, <1>5, <2>1, <2>2, <2>3, <2>4, SlotGives
<1> QED BY <1>2, <1>4, <1>5 DEF Parted, NoResurrection

LEMMA PartedStep == Typed /\ Fresh /\ Parted /\ [Next]_vars => Parted'
<1> SUFFICES ASSUME Typed, Fresh, Parted, [Next]_vars PROVE Parted'
  OBVIOUS
<1>1. Typed'
  BY TypedStep
<1>2. CASE UNCHANGED vars
  BY <1>2 DEF vars, Parted, NoResurrection
<1>3. CASE ByOther
  <2>1. /\ tab' = tab /\ net' = net /\ left' = left
        /\ \A s \in Sids : row[s].status = "revoked" => row'[s].status = "revoked"
    BY <1>3 DEF ByOther, RowsEnd, Ended
  <2> QED BY <2>1, TabFields DEF Parted, NoResurrection
<1> QED BY <1>1, <1>2, <1>3, StepKinds, PartedByTab, PartedBySlot

(* A tab that has signed out of a session never shows it again without a page load, for
   any number of tabs, sessions, faults and requests, with and without Web Locks. *)
THEOREM SignOutIsFinal == Spec => []NoResurrection
<1>1. Init => Typed /\ Fresh /\ Parted
  BY TypedInit, FreshInit, PartedInit
<1>2. Typed /\ Fresh /\ Parted /\ [Next]_vars => (Typed /\ Fresh /\ Parted)'
  BY TypedStep, FreshStep, PartedStep
<1>3. Parted => NoResurrection
  BY DEF Parted
<1> QED BY <1>1, <1>2, <1>3, PTL DEF Spec
-----------------------------------------------------------------------------
(* Versions *)

(* What a tab comes to hold, and the answer its current refresh may then have. *)
LEMMA TabTurns ==
    ASSUME Typed, Typed', NEW t \in Tabs, row' = row,
           Idles(t) \/ Asks(t) \/ Ends(t) \/ Finishes(t) \/ Unloads(t) \/ Hearkens(t)
    PROVE  /\ \/ Holds(tab[t], tab'[t])
              \/ tab'[t].sid = None /\ tab'[t].ver = 0
              \/ /\ tab[t].current = TRUE /\ Granted(RunOf(t))
                 /\ tab'[t].sid = RunOf(t).sid /\ tab'[t].ver = RunOf(t).ver
              \/ LoginReply(OpOf(t)) /\ tab'[t].sid = OpOf(t).sid /\ tab'[t].ver = OpOf(t).ver
              \/ /\ SecureAnswer(t) /\ Granted(OpOf(t)) /\ OpOf(t).kind = "secure"
                 /\ tab'[t].sid = OpOf(t).sid /\ tab'[t].ver = OpOf(t).ver
           /\ \/ tab'[t].current = FALSE
              \/ ~ Pledged(net'[<<t, "run">>])
              \/ Holds(tab[t], tab'[t]) /\ tab'[t].current = tab[t].current /\ net'[<<t, "run">>] = RunOf(t)
<1>1. /\ net \in [Slots -> MsgType] /\ tab \in [Tabs -> TabType]
      /\ <<t, "run">> \in Slots /\ <<t, "op">> \in Slots /\ <<t, "run">> # <<t, "op">> /\ Idle.stage = "none"
      /\ RunOf(t).stage # "none" => tab[t].run = "wait"
      /\ Pledged(RunOf(t)) => RunOf(t).stage # "none"
  BY Constants DEF Typed, Slots, RunOf, Pledged, Granted
<1>2. ASSUME NEW c, Turns(t, c) PROVE tab'[t] = c
  BY <1>1, <1>2 DEF Turns
<1>3. CASE Idles(t)
  <2>1. PICK c : Turns(t, c) /\ (Same(tab[t], c) \/ Joins(tab[t], c) \/ Drops(tab[t], c))
    BY <1>3 DEF Idles
  <2>2. tab'[t] = c /\ net'[<<t, "run">>] = RunOf(t)
    BY <1>1, <1>2, <1>3, <2>1 DEF Idles, Puts, RunOf
  <2> QED BY <1>1, <2>1, <2>2 DEF Same, Joins, Drops
<1>4. CASE Asks(t)
  <2>1. net'[<<t, "run">>].stage = "sent"
    BY <1>1, <1>4 DEF Asks, Puts
  <2>2. Holds(tab[t], tab'[t]) \/ (tab'[t].sid = None /\ tab'[t].ver = 0)
    BY <1>2, <1>4 DEF Asks
  <2> QED BY <2>1, <2>2 DEF Pledged, Granted
<1>5. CASE Ends(t)
  <2>1. PICK c : /\ Turns(t, c) /\ c.current = FALSE
                 /\ \/ Holds(tab[t], c)
                    \/ c.sid = None /\ c.ver = 0
                    \/ tab[t].current = TRUE /\ RunOf(t).code = "ok" /\ c.sid = RunOf(t).sid /\ c.ver = RunOf(t).ver
    BY <1>5 DEF Ends
  <2>2. tab'[t] = c /\ RunOf(t).stage = "reply"
    BY <1>2, <1>5, <2>1 DEF Ends
  <2> QED BY <2>1, <2>2 DEF Granted
<1>6. CASE Finishes(t)
  <2>1. PICK c : /\ Turns(t, c)
                 /\ \/ Same(tab[t], c) \/ Joins(tab[t], c)
                    \/ LoginReply(OpOf(t)) /\ Takes(tab[t], c, OpOf(t))
                    \/ /\ SecureAnswer(t) /\ OpOf(t).code = "ok" /\ OpOf(t).kind = "secure"
                       /\ Takes(tab[t], c, OpOf(t))
                    \/ Forgets(tab[t], c)
    BY <1>6 DEF Finishes
  <2>2. tab'[t] = c /\ net'[<<t, "run">>] = RunOf(t) /\ OpOf(t).stage = "reply"
    BY <1>1, <1>2, <1>6, <2>1 DEF Finishes, Puts, RunOf
  <2> QED BY <1>1, <2>1, <2>2 DEF Same, Joins, Takes, Forgets, Granted
<1>7. CASE Unloads(t)
  BY <1>2, <1>7, FreshTabIs DEF Unloads
<1>8. CASE Hearkens(t)
  BY <1>2, <1>8 DEF Hearkens, Forgets
<1> QED BY <1>3, <1>4, <1>5, <1>6, <1>7, <1>8

(* What the answer to a tab's refresh and to its request may say of a version. *)
LEMMA GradedReplies ==
    ASSUME Typed, Graded, NEW t \in Tabs
    PROVE  /\ Granted(RunOf(t)) => RunOf(t).ver <= row[RunOf(t).sid].ver
           /\ LoginReply(OpOf(t)) => OpOf(t).ver <= row[OpOf(t).sid].ver
           /\ Granted(OpOf(t)) /\ OpOf(t).kind = "secure" => OpOf(t).ver <= row[OpOf(t).sid].ver
<1>1. <<t, "run">> \in Slots /\ <<t, "op">> \in Slots
  BY DEF Slots
<1>2. RunOf(t).stage = "reply" => RunOf(t).kind = "refresh"
  BY <1>1, MsgFits DEF RunOf, Fits, Refreshers
<1> QED BY <1>1, <1>2 DEF Graded, Given, Pledged, Whose, Granted, LoginReply, RunOf, OpOf

LEMMA GradedByTab ==
    ASSUME Typed, Typed', Graded, ByTab
    PROVE  Graded'
<1>1. PICK t \in Tabs : row' = row /\ (Idles(t) \/ Asks(t) \/ Ends(t) \/ Finishes(t) \/ Unloads(t) \/ Hearkens(t))
  BY DEF ByTab
<1>2. /\ \A u \in Tabs : u # t => tab'[u] = tab[u]
      /\ \A u \in Tabs : u # t => net'[<<u, "run">>] = net[<<u, "run">>]
  BY <1>1, TabSteps
<1>3. tab'[t].sid # None => tab'[t].ver <= row[tab'[t].sid].ver
  BY <1>1, TabTurns, GradedReplies DEF Graded, Holds
<1>4. ASSUME NEW x \in Slots, Given(net'[x])
      PROVE  net'[x].ver <= row[Whose(net'[x])].ver
  <2>1. net'[x].stage = "reply" \/ Bears(net'[x], net'[x].cookie.sid)
    <3>1. net'[x] \in MsgType
      BY DEF Typed
    <3>2. CASE net'[x].stage \in {"rotating", "rotated"}
      BY <3>1, <3>2, MsgForms DEF Bears, Handled
    <3> QED BY <1>4, <3>2 DEF Given, Pledged, Granted
  <2>2. net'[x].stage # "sent"
    BY <1>4 DEF Given, Pledged, Granted
  <2>3. \/ net'[x] = net[x] \/ net'[x] = net[<<t, "run">>] \/ net'[x] = net[<<t, "op">>]
    BY <1>1, <2>1, <2>2, TabSlots DEF RunOf, OpOf
  <2>4. <<t, "run">> \in Slots /\ <<t, "op">> \in Slots
    BY DEF Slots
  <2> QED BY <1>4, <2>3, <2>4 DEF Graded
<1>5. ASSUME tab'[t].current, Pledged(net'[<<t, "run">>]), Whose(net'[<<t, "run">>]) = tab'[t].sid
      PROVE  net'[<<t, "run">>].ver >= tab'[t].ver
  <2>1. Holds(tab[t], tab'[t]) /\ tab[t].current /\ net'[<<t, "run">>] = net[<<t, "run">>]
    BY <1>1, <1>5, TabTurns DEF RunOf
  <2> QED BY <1>5, <2>1 DEF Graded, Holds
<1> QED BY <1>1, <1>2, <1>3, <1>4, <1>5 DEF Graded

LEMMA GradedBySlot ==
    ASSUME Typed, Typed', Graded, BySlot
    PROVE  Graded'
<1>1. PICK x \in Slots : Refuses(x) \/ Proceeds(x) \/ Rotates(x) \/ Reuses(x) \/ Opens(x) \/ Advances(x) \/ Arrives(x)
  BY DEF BySlot
<1>2. tab' = tab /\ left' = left
  BY DEF BySlot
<1>a. \A y \in Slots : Given(net'[y]) => Whose(net'[y]) \in Sids /\ net'[y].ver \in Nat
  <2> SUFFICES ASSUME NEW y \in Slots, Given(net'[y]) PROVE Whose(net'[y]) \in Sids /\ net'[y].ver \in Nat
    OBVIOUS
  <2>1. net'[y] \in MsgType /\ MsgInv(net'[y])
    BY DEF Typed, Fits
  <2> QED BY <2>1, GivenForms
<1>3. \A s \in Sids : row'[s].ver >= row[s].ver /\ row[s].ver \in Nat /\ row'[s].ver \in Nat
  BY <1>1, SlotRows, RowFields DEF Typed, RowType
<1>4. \A s \in Sids : row'[s].ver >= 1
  BY <1>3 DEF Graded
<1>5. \A t \in Tabs : tab'[t].sid # None => tab'[t].ver <= row'[tab'[t].sid].ver
  <2>1. SUFFICES ASSUME NEW t \in Tabs, tab[t].sid # None PROVE tab[t].ver <= row'[tab[t].sid].ver
    BY <1>2
  <2>2. tab[t].sid \in Sids /\ tab[t].ver \in Nat /\ tab[t].ver <= row[tab[t].sid].ver
    BY <2>1, TabFields DEF Graded, SidOrNone
  <2> QED BY <1>3, <2>2
<1>6. ASSUME NEW y \in Slots, Given(net'[y])
      PROVE  net'[y].ver <= row'[Whose(net'[y])].ver
  <2>1. Whose(net'[y]) \in Sids /\ net'[y].ver \in Nat
    BY <1>6, <1>a
  <2>2. CASE Given(net[y]) /\ Whose(net'[y]) = Whose(net[y]) /\ net'[y].ver = net[y].ver
    <3>1. net[y].ver <= row[Whose(net[y])].ver
      BY <2>2 DEF Graded
    <3> QED BY <1>3, <2>1, <2>2, <3>1
  <2>3. CASE net'[y].ver = row[Whose(net'[y])].ver \/ net'[y].ver = 1 \/ net'[y].ver = row'[Whose(net'[y])].ver
    BY <1>3, <1>4, <2>1, <2>3
  <2> QED BY <1>1, <1>2, <1>6, <2>2, <2>3, SlotGives DEF Given
<1>7. ASSUME NEW t \in Tabs, tab'[t].current, Pledged(net'[<<t, "run">>]), Whose(net'[<<t, "run">>]) = tab'[t].sid
      PROVE  net'[<<t, "run">>].ver >= tab'[t].ver
  <2>1. <<t, "run">> \in Slots /\ <<t, "run">>[2] \in Refreshers
    BY DEF Slots, Refreshers
  <2>2. Given(net'[<<t, "run">>]) /\ net'[<<t, "run">>].kind = "refresh" /\ tab[t].sid \in Sids
    <3>1. Fits(<<t, "run">>, net'[<<t, "run">>])
      BY <2>1 DEF Typed
    <3>2. Given(net'[<<t, "run">>]) /\ net'[<<t, "run">>].kind = "refresh"
      BY <1>7, <2>1, <3>1 DEF Fits, Given, Pledged, Granted
    <3> QED BY <1>2, <1>7, <1>a, <2>1, <3>2
  <2>3. CASE /\ Pledged(net[<<t, "run">>]) /\ Whose(net'[<<t, "run">>]) = Whose(net[<<t, "run">>])
             /\ net'[<<t, "run">>].ver = net[<<t, "run">>].ver
    BY <1>2, <1>7, <2>3 DEF Graded
  <2>4. CASE net'[<<t, "run">>].ver = row[tab[t].sid].ver
    <3>1. tab[t].ver \in Nat /\ tab[t].ver <= row[tab[t].sid].ver
      BY <2>2, TabFields, Constants DEF Graded
    <3> QED BY <1>2, <1>3, <2>2, <2>4, <3>1
  <2>5. CASE net'[<<t, "run">>] = net[<<t, "run">>]
    BY <1>7, <2>3, <2>5
  <2> QED BY <1>1, <1>2, <1>7, <2>1, <2>2, <2>3, <2>4, <2>5, SlotGives
<1> QED BY <1>4, <1>5, <1>6, <1>7 DEF Graded

LEMMA GradedInit == Init => Graded
<1> SUFFICES ASSUME Init PROVE Graded
  OBVIOUS
<1>1. /\ \A x \in Slots : net[x] = Idle
      /\ \A t \in Tabs : tab[t].sid = None /\ <<t, "run">> \in Slots
      /\ \A s \in Sids : row[s].ver = 1
  BY FreshTabIs DEF Init, Slots
<1>2. \A t \in Tabs : net[<<t, "run">>] = Idle
  BY <1>1
<1>3. \A s \in Sids : row[s].ver >= 1
  BY <1>1
<1>4. ~ Pledged(Idle)
  BY Constants DEF Pledged, Granted
<1> QED BY <1>1, <1>2, <1>3, <1>4 DEF Graded, Given

LEMMA GradedStep == Typed /\ Graded /\ [Next]_vars => Graded'
<1> SUFFICES ASSUME Typed, Graded, [Next]_vars PROVE Graded'
  OBVIOUS
<1>1. Typed'
  BY TypedStep
<1>2. CASE UNCHANGED vars
  BY <1>2 DEF vars, Graded
<1>3. CASE ByOther
  <2>1. tab' = tab /\ net' = net /\ \A s \in Sids : row'[s].ver = row[s].ver
    BY <1>3 DEF ByOther, RowsEnd, Ended
  <2>2. \A t \in Tabs : tab[t].sid # None => tab[t].sid \in Sids
    BY TabFields DEF SidOrNone
  <2>3. \A x \in Slots : Given(net[x]) => Whose(net[x]) \in Sids
    BY MsgFits, GivenForms
  <2> QED BY <2>1, <2>2, <2>3 DEF Graded
<1> QED BY <1>1, <1>2, <1>3, StepKinds, GradedByTab, GradedBySlot

(* While a tab stays in one session no step but the answer to its own security change
   gives it a token of an older version, for any number of tabs, sessions, faults and
   requests, with and without Web Locks. *)
THEOREM TokenIsNeverOlder == Spec => TokenNeverOlder
<1>1. Init => Typed /\ Fresh /\ Graded
  BY TypedInit, FreshInit, GradedInit
<1>2. Typed /\ Fresh /\ Graded /\ [Next]_vars => (Typed /\ Fresh /\ Graded)'
  BY TypedStep, FreshStep, GradedStep
<1>3. Typed /\ Typed' /\ Fresh /\ Graded /\ [Next]_vars =>
        [\A t \in Tabs : tab'[t].sid = tab[t].sid /\ tab[t].loaded /\ tab'[t].loaded
                         => tab'[t].ver >= tab[t].ver \/ SecureAnswer(t)]_vars
  <2> SUFFICES ASSUME Typed, Typed', Fresh, Graded, [Next]_vars, NEW t \in Tabs, tab'[t].sid = tab[t].sid
               PROVE  tab'[t].ver >= tab[t].ver \/ SecureAnswer(t)
    OBVIOUS
  <2>1. tab[t].ver \in Nat /\ (tab[t].sid = None => tab[t].ver = 0)
    BY TabFields DEF Typed
  <2>2. CASE tab' = tab
    BY <2>1, <2>2
  <2>3. CASE ByTab
    <3>1. PICK u \in Tabs : row' = row /\ (Idles(u) \/ Asks(u) \/ Ends(u) \/ Finishes(u) \/ Unloads(u) \/ Hearkens(u))
      BY <2>3 DEF ByTab
    <3>2. u # t => tab'[t] = tab[t]
      BY <3>1, TabSteps
    <3>3. LoginReply(OpOf(t)) => OpOf(t).sid # tab[t].sid
      <4>1. <<t, "op">> \in Slots
        BY DEF Slots
      <4> QED BY <4>1 DEF Fresh, Unknown, OpOf
    <3>4. ASSUME tab[t].current, Granted(RunOf(t)), RunOf(t).sid = tab[t].sid PROVE RunOf(t).ver >= tab[t].ver
      BY <3>4 DEF Graded, Pledged, Whose, Granted, RunOf
    <3>5. CASE u = t
      <4>1. \/ Holds(tab[t], tab'[t])
            \/ tab'[t].sid = None /\ tab'[t].ver = 0
            \/ /\ tab[t].current = TRUE /\ Granted(RunOf(t))
               /\ tab'[t].sid = RunOf(t).sid /\ tab'[t].ver = RunOf(t).ver
            \/ LoginReply(OpOf(t)) /\ tab'[t].sid = OpOf(t).sid
            \/ SecureAnswer(t)
        BY <3>1, <3>5, TabTurns
      <4> QED BY <2>1, <3>3, <3>4, <4>1 DEF Holds
    <3> QED BY <2>1, <3>2, <3>5
  <2> QED BY <2>2, <2>3, StepKinds DEF BySlot, ByOther, vars
<1> QED BY <1>1, <1>2, <1>3, PTL DEF Spec, TokenNeverOlder
-----------------------------------------------------------------------------
(* The chain of refresh secrets *)

(* What an answer does to the cookie. *)
LEMMA CookieOf ==
    ASSUME Typed, Fresh, NEW x \in Slots, net[x].stage = "reply"
    PROVE  /\ net[x].kind # "refresh" =>
                \/ SetCookie(net[x]) = cookie \/ SetCookie(net[x]) = NoCookie
                \/ row[SetCookie(net[x]).sid].gen = SetCookie(net[x]).gen
           /\ net[x].kind = "refresh" =>
                \/ ~ Granted(net[x]) /\ (SetCookie(net[x]) = cookie \/ SetCookie(net[x]) = NoCookie)
                \/ Granted(net[x]) /\ SetCookie(net[x]) = net[x].cookie /\ net[x].cookie.sid = net[x].sid
<1>1. net[x] \in ReplyType /\ MsgInv(net[x]) /\ net[x].set \in BOOLEAN
  BY MsgFits DEF ReplyType
<1>2. SetCookie(net[x]) = cookie \/ (net[x].set /\ SetCookie(net[x]) = net[x].cookie)
  BY DEF SetCookie
<1>3. CASE LoginReply(net[x])
  <2>1. net[x].cookie.sid = net[x].sid /\ row[net[x].sid].gen = 0 /\ net[x].cookie.gen = 0
    BY <1>3, MsgFits DEF Fresh
  <2> QED BY <1>2, <1>3, <2>1 DEF LoginReply
<1>4. CASE Granted(net[x]) /\ net[x].kind = "refresh"
  <2>1. net[x].set /\ net[x].cookie.sid = net[x].sid
    BY <1>1, <1>4 DEF MsgInv, Granted
  <2>2. SetCookie(net[x]) = net[x].cookie
    BY <2>1 DEF SetCookie
  <2> QED BY <1>4, <2>1, <2>2
<1>5. CASE ~ LoginReply(net[x]) /\ ~ (Granted(net[x]) /\ net[x].kind = "refresh")
  <2>1. ~ net[x].set \/ net[x].cookie = NoCookie
    BY <1>1, <1>5 DEF MsgInv, LoginReply, Granted
  <2> QED BY <1>2, <1>5, <2>1
<1> QED BY <1>3, <1>4, <1>5

(* What a step of a tab does to its refresh. *)
LEMMA TabRuns ==
    ASSUME Typed, Typed', NEW t \in Tabs, row' = row,
           Idles(t) \/ Asks(t) \/ Ends(t) \/ Finishes(t) \/ Unloads(t) \/ Hearkens(t)
    PROVE  /\ lost \subseteq lost'
           /\ tab'[t].run = "wait" => tab[t].run = "wait" \/ Asks(t)
           /\ \/ /\ net'[<<t, "run">>] = RunOf(t)
                 /\ cookie' = cookie \/ (OpOf(t).stage = "reply" /\ cookie' = SetCookie(OpOf(t)))
              \/ net'[<<t, "run">>] = Idle /\ RunOf(t).stage = "reply" /\ cookie' = SetCookie(RunOf(t))
              \/ /\ net'[<<t, "run">>] = Idle /\ cookie' = cookie
                 /\ \A s \in Sids : Bears(RunOf(t), s) => s \in lost'
              \/ /\ Asks(t) /\ cookie' = cookie
                 /\ net'[<<t, "run">>].stage = "sent" /\ net'[<<t, "run">>].cookie = cookie
<1>1. /\ net \in [Slots -> MsgType] /\ tab \in [Tabs -> TabType]
      /\ <<t, "run">> \in Slots /\ <<t, "op">> \in Slots /\ <<t, "run">> # <<t, "op">>
      /\ <<t, "lostrun">> \in Slots /\ <<t, "lostop">> \in Slots
  BY DEF Typed, Slots
<1>2. ASSUME NEW c, Turns(t, c) PROVE tab'[t] = c
  BY <1>1, <1>2 DEF Turns
<1>3. CASE Idles(t)
  <2>1. net'[<<t, "run">>] = RunOf(t) /\ cookie' = cookie /\ lost' = lost
    BY <1>1, <1>3 DEF Idles, Puts, RunOf
  <2>2. tab'[t].run = "wait" => tab[t].run = "wait"
    BY <1>2, <1>3 DEF Idles, Same, Joins, Drops
  <2> QED BY <2>1, <2>2
<1>4. CASE Asks(t)
  <2>1. net'[<<t, "run">>].stage = "sent" /\ net'[<<t, "run">>].cookie = cookie /\ cookie' = cookie /\ lost' = lost
    BY <1>1, <1>4 DEF Asks, Puts
  <2> QED BY <1>4, <2>1
<1>5. CASE Ends(t)
  <2>1. net'[<<t, "run">>] = Idle /\ RunOf(t).stage = "reply" /\ cookie' = SetCookie(RunOf(t)) /\ lost' = lost
    BY <1>1, <1>5 DEF Ends
  <2>2. tab'[t].run = "none"
    BY <1>2, <1>5 DEF Ends
  <2> QED BY <2>1, <2>2
<1>6. CASE Finishes(t)
  <2>1. /\ net'[<<t, "run">>] = RunOf(t) /\ OpOf(t).stage = "reply" /\ cookie' = SetCookie(OpOf(t)) /\ lost' = lost
    BY <1>1, <1>6 DEF Finishes, Puts, RunOf
  <2>2. tab'[t].run = "wait" => tab[t].run = "wait"
    BY <1>2, <1>6 DEF Finishes, Same, Joins, Takes, Forgets
  <2> QED BY <2>1, <2>2
<1>7. CASE Unloads(t)
  <2>1. net'[<<t, "run">>] = Idle /\ cookie' = cookie
    BY <1>1, <1>7 DEF Unloads
  <2>2. lost' = lost \cup {s \in Sids : Bears(RunOf(t), s)}
    BY <1>7 DEF Unloads
  <2>3. tab'[t].run = "none"
    BY <1>2, <1>7, FreshTabIs DEF Unloads
  <2> QED BY <2>1, <2>2, <2>3
<1>8. CASE Hearkens(t)
  <2>1. net'[<<t, "run">>] = RunOf(t) /\ cookie' = cookie /\ lost' = lost
    BY <1>8 DEF Hearkens, RunOf
  <2>2. tab'[t].run = "wait" => tab[t].run = "wait"
    BY <1>2, <1>8 DEF Hearkens, Forgets
  <2> QED BY <2>1, <2>2
<1> QED BY <1>3, <1>4, <1>5, <1>6, <1>7, <1>8

(* Who asks finds no other refresh under way, and has had the answer to its own. *)
LEMMA AsksAlone ==
    ASSUME Typed, Exclusive, WebLocks, NEW t \in Tabs, Asks(t)
    PROVE  \A u \in Tabs : (tab[u].run = "wait" => u = t) /\ ~ Renewed(net[<<u, "run">>])
<1>1. \A u \in Tabs : tab[u].run = "wait" => u = t /\ RunOf(t).stage = "reply" /\ RunOf(t).code = "mismatch"
  <2>1. CASE tab[t].run = "lock" /\ LockFree(t)
    BY <2>1 DEF LockFree
  <2>2. CASE tab[t].run = "wait" /\ RunOf(t).stage = "reply" /\ RunOf(t).code = "mismatch"
    BY <2>2 DEF Exclusive
  <2> QED BY <2>1, <2>2 DEF Asks
<1>2. ASSUME NEW u \in Tabs PROVE ~ Renewed(net[<<u, "run">>])
  <2>1. net[<<u, "run">>].stage # "none" => tab[u].run = "wait"
    BY DEF Typed
  <2> QED BY <1>1, <2>1 DEF Renewed, Granted, RunOf
<1> QED BY <1>1, <1>2

(* A refresh of s that has rotated, answered or not. *)
LEMMA RenewedBears ==
    ASSUME Typed, NEW x \in Slots, x[2] \in Refreshers, Renewed(net[x])
    PROVE  /\ Bears(net[x], Whose(net[x])) /\ net[x].kind = "refresh"
           /\ Granted(net[x]) => net[x].cookie.sid = net[x].sid
<1>1. net[x] \in MsgType /\ MsgInv(net[x]) /\ Fits(x, net[x])
  BY DEF Typed, Fits
<1>2. net[x].kind = "refresh" /\ net[x].stage # "none"
  BY <1>1 DEF Fits, Renewed, Granted
<1> QED BY <1>1, <1>2 DEF Bears, Whose, Renewed, Granted, MsgInv

LEMMA LinkedByTab ==
    ASSUME Typed, Typed', Fresh, WebLocks, Exclusive, NEW s \in Sids, s \notin lost', Linked(s), ByTab
    PROVE  Linked(s)'
<1>1. PICK t \in Tabs : row' = row /\ (Idles(t) \/ Asks(t) \/ Ends(t) \/ Finishes(t) \/ Unloads(t) \/ Hearkens(t))
  BY DEF ByTab
<1>2. \A u \in Tabs : u # t => net'[<<u, "run">>] = net[<<u, "run">>] /\ net'[<<u, "lostrun">>] = net[<<u, "lostrun">>]
  BY <1>1, TabSteps
<1>3. /\ \/ /\ net'[<<t, "run">>] = RunOf(t)
            /\ cookie' = cookie \/ (OpOf(t).stage = "reply" /\ cookie' = SetCookie(OpOf(t)))
         \/ net'[<<t, "run">>] = Idle /\ RunOf(t).stage = "reply" /\ cookie' = SetCookie(RunOf(t))
         \/ /\ net'[<<t, "run">>] = Idle /\ cookie' = cookie /\ ~ Bears(RunOf(t), s)
         \/ /\ Asks(t) /\ cookie' = cookie
            /\ net'[<<t, "run">>].stage = "sent" /\ net'[<<t, "run">>].cookie = cookie
  BY <1>1, TabRuns
<1>4. /\ \A u \in Tabs : ~ Bears(net[<<u, "lostrun">>], s)
      /\ cookie.sid = s => \/ cookie.gen = row[s].gen
                           \/ \E u \in Tabs : Renewed(net[<<u, "run">>]) /\ Whose(net[<<u, "run">>]) = s
      /\ \A u \in Tabs : Bears(net[<<u, "run">>], s) =>
            net[<<u, "run">>].stage # "reusing" /\ net[<<u, "run">>].cookie.gen = row[s].gen
      /\ row[s].reason # "reuse"
  BY DEF Linked
<1>5. /\ <<t, "run">> \in Slots /\ <<t, "op">> \in Slots /\ <<t, "lostrun">> \in Slots
      /\ <<t, "run">>[2] \in Refreshers /\ Idle.stage = "none" /\ NoCookie.sid # s /\ RunOf(t) = net[<<t, "run">>]
      /\ <<t, "lostrun">> # <<t, "run">> /\ <<t, "lostrun">> # <<t, "lostop">>
  BY Constants DEF Slots, Refreshers, RunOf
<1>6. ~ Bears(Idle, s) /\ ~ Renewed(Idle)
  BY Constants, IdleBrings DEF Renewed, Granted
<1>7. ~ Bears(net'[<<t, "lostrun">>], s)
  <2>1. Unloads(t) => ~ Bears(RunOf(t), s)
    BY DEF Unloads
  <2>2. \/ net'[<<t, "lostrun">>] = net[<<t, "lostrun">>]
        \/ \A u : ~ Bears(net'[<<t, "lostrun">>], u)
        \/ net'[<<t, "lostrun">>] = RunOf(t) /\ Unloads(t)
    BY <1>1, <1>5, TabSlots
  <2> QED BY <1>4, <2>1, <2>2
<1>8. RunOf(t).stage = "reply" => RunOf(t).kind = "refresh"
  BY <1>5, MsgFits DEF RunOf, Fits, Refreshers
<1>9. OpOf(t).stage = "reply" => OpOf(t).kind # "refresh"
  BY <1>5, MsgFits DEF OpOf, Fits, Refreshers
<1>10. ASSUME cookie'.sid = s
       PROVE  \/ cookie'.gen = row[s].gen
              \/ \E u \in Tabs : Renewed(net'[<<u, "run">>]) /\ Whose(net'[<<u, "run">>]) = s
  <2>1. CASE net'[<<t, "run">>] = RunOf(t) /\ cookie' = cookie
    <3>1. \A u \in Tabs : net'[<<u, "run">>] = net[<<u, "run">>]
      BY <1>2, <1>5, <2>1
    <3> QED BY <1>4, <1>10, <2>1, <3>1
  <2>2. CASE net'[<<t, "run">>] = RunOf(t) /\ OpOf(t).stage = "reply" /\ cookie' = SetCookie(OpOf(t))
    <3>1. cookie' = cookie \/ cookie' = NoCookie \/ row[cookie'.sid].gen = cookie'.gen
      BY <1>5, <1>9, <2>2, CookieOf DEF OpOf
    <3> QED BY <1>5, <1>10, <2>1, <2>2, <3>1
  <2>3. CASE net'[<<t, "run">>] = Idle /\ RunOf(t).stage = "reply" /\ cookie' = SetCookie(RunOf(t))
    <3>1. \/ ~ Granted(RunOf(t)) /\ (cookie' = cookie \/ cookie' = NoCookie)
          \/ Granted(RunOf(t)) /\ cookie' = RunOf(t).cookie /\ RunOf(t).cookie.sid = RunOf(t).sid
      BY <1>5, <1>8, <2>3, CookieOf DEF RunOf
    <3>2. CASE ~ Granted(RunOf(t)) /\ cookie' = cookie
      <4>1. ~ Renewed(RunOf(t))
        BY <2>3, <3>2 DEF Renewed
      <4> QED BY <1>2, <1>4, <1>5, <1>10, <3>2, <4>1
    <3>3. CASE Granted(RunOf(t)) /\ cookie' = RunOf(t).cookie /\ RunOf(t).cookie.sid = RunOf(t).sid
      <4>1. Bears(RunOf(t), s)
        BY <1>8, <1>10, <2>3, <3>3 DEF Bears, Granted
      <4> QED BY <1>4, <1>5, <3>3, <4>1
    <3> QED BY <1>5, <1>10, <3>1, <3>2, <3>3
  <2>4. CASE net'[<<t, "run">>] = Idle /\ cookie' = cookie /\ ~ Bears(RunOf(t), s)
    <3>1. ~ (Renewed(RunOf(t)) /\ Whose(RunOf(t)) = s)
      BY <1>5, <2>4, RenewedBears
    <3> QED BY <1>2, <1>4, <1>5, <1>10, <2>4, <3>1
  <2>5. CASE Asks(t) /\ cookie' = cookie
    BY <1>4, <1>10, <2>5, AsksAlone
  <2> QED BY <1>3, <2>1, <2>2, <2>3, <2>4, <2>5
<1>11. ASSUME NEW u \in Tabs, Bears(net'[<<u, "run">>], s)
       PROVE  net'[<<u, "run">>].stage # "reusing" /\ net'[<<u, "run">>].cookie.gen = row[s].gen
  <2>1. CASE net'[<<u, "run">>] = net[<<u, "run">>]
    BY <1>4, <1>11, <2>1
  <2>2. CASE net'[<<u, "run">>] = Idle
    BY <1>6, <1>11, <2>2
  <2>3. CASE Asks(t) /\ net'[<<u, "run">>].stage = "sent" /\ net'[<<u, "run">>].cookie = cookie
    <3>1. cookie.sid = s
      BY <1>11, <2>3 DEF Bears
    <3> QED BY <1>4, <2>3, <3>1, AsksAlone
  <2> QED BY <1>2, <1>3, <1>5, <2>1, <2>2, <2>3
<1>12. \A u \in Tabs : ~ Bears(net'[<<u, "lostrun">>], s)
  BY <1>2, <1>4, <1>7
<1> QED BY <1>1, <1>4, <1>10, <1>11, <1>12 DEF Linked

LEMMA LinkedBySlot ==
    ASSUME Typed, Typed', Fresh, Exclusive, NEW s \in Sids, s \notin lost', Linked(s), BySlot
    PROVE  Linked(s)'
<1>1. PICK x \in Slots : Refuses(x) \/ Proceeds(x) \/ Rotates(x) \/ Reuses(x) \/ Opens(x) \/ Advances(x) \/ Arrives(x)
  BY DEF BySlot
<1>2. tab' = tab /\ left' = left /\ \A y \in Slots : y # x => net'[y] = net[y]
  BY <1>1, SlotSteps DEF BySlot
<1>3. /\ \A u \in Tabs : ~ Bears(net[<<u, "lostrun">>], s)
      /\ cookie.sid = s => \/ cookie.gen = row[s].gen
                           \/ \E u \in Tabs : Renewed(net[<<u, "run">>]) /\ Whose(net[<<u, "run">>]) = s
      /\ \A u \in Tabs : Bears(net[<<u, "run">>], s) =>
            net[<<u, "run">>].stage # "reusing" /\ net[<<u, "run">>].cookie.gen = row[s].gen
      /\ row[s].reason # "reuse"
  BY DEF Linked
<1>4. /\ \A u \in Tabs : <<u, "run">> \in Slots /\ <<u, "lostrun">> \in Slots
      /\ net \in [Slots -> MsgType] /\ Fits(x, net[x]) /\ row \in [Sids -> RowType]
      /\ \A u \in Tabs : net[<<u, "run">>].stage # "none" => tab[u].run = "wait"
      /\ row[s] \in RowType /\ row[s].gen \in Nat /\ NoCookie.sid # s
  BY RowFields, Constants DEF Typed, Slots
<1>5. ASSUME NEW m, Puts(x, m) PROVE net'[x] = m
  BY <1>4, <1>5 DEF Puts
(* A refresh of s is of a tab that is still there, it is the only one, and carries the
   current secret. *)
<1>6. ASSUME Bears(net[x], s)
      PROVE  \E t \in Tabs : /\ x = <<t, "run">> /\ net[x].stage # "reusing" /\ net[x].cookie.gen = row[s].gen
                             /\ \A u \in Tabs : u # t => net[<<u, "run">>].stage = "none"
  <2>1. net[x].stage # "none" /\ net[x].kind = "refresh"
    BY <1>6 DEF Bears
  <2>2. x[2] \in Refreshers
    BY <1>4, <2>1 DEF Fits
  <2>3. PICK t \in Tabs : x = <<t, "run">> \/ x = <<t, "lostrun">>
    BY <2>2, SlotIs DEF Refreshers
  <2>4. x = <<t, "run">>
    BY <1>3, <1>6, <2>3
  <2>5. \A u \in Tabs : u # t => net[<<u, "run">>].stage = "none"
    BY <1>4, <2>1, <2>4 DEF Exclusive
  <2> QED BY <1>3, <1>6, <2>4, <2>5
<1>7. ASSUME net[x] \in RefreshType, net[x].cookie.sid = s PROVE Bears(net[x], s)
  BY <1>7 DEF RefreshType, Handled, Bears
<1>8. row'[s].reason # "reuse"
  <2>1. ~ (Reuses(x) /\ s = net[x].cookie.sid)
    BY <1>6, <1>7 DEF Reuses
  <2> QED BY <1>1, <1>3, <2>1, SlotRows
<1>9. Bears(net'[x], s) => Bears(net[x], s)
  BY <1>1, <1>2, SlotBrings
<1>10. \A u \in Tabs : ~ Bears(net'[<<u, "lostrun">>], s)
  BY <1>2, <1>3, <1>4, <1>9
(* What becomes of the refresh of s that takes the step. *)
<1>11. ASSUME Bears(net'[x], s)
       PROVE  net'[x].stage # "reusing" /\ net'[x].cookie.gen = row'[s].gen
  <2>1. Bears(net[x], s)
    BY <1>9, <1>11
  <2>2. PICK t \in Tabs : /\ x = <<t, "run">> /\ net[x].stage # "reusing" /\ net[x].cookie.gen = row[s].gen
                          /\ \A u \in Tabs : u # t => net[<<u, "run">>].stage = "none"
    BY <1>6, <2>1
  <2>3. CASE Proceeds(x)
    <3>1. PICK m : /\ m.kind = net[x].kind /\ Puts(x, m)
                   /\ \/ /\ net[x] \in RefreshType /\ m.cookie = net[x].cookie
                         /\ \/ m.stage = "checked"
                            \/ m.stage = "reusing" /\ row[m.cookie.sid].gen = m.cookie.gen + 1
                      \/ net[x] \in CallType /\ m.stage = "changed"
      BY <2>3 DEF Proceeds
    <3>2. net[x] \notin CallType
      BY <2>1 DEF Bears, CallType
    <3>3. net'[x] = m /\ row' = row
      BY <1>5, <2>3, <3>1 DEF Proceeds
    <3>4. m.stage # "reply" /\ m.cookie.sid = s
      BY <1>11, <3>1, <3>2, <3>3 DEF Bears
    <3>5. m.cookie = net[x].cookie /\ (m.stage = "checked" \/ row[s].gen = net[x].cookie.gen + 1)
      BY <3>1, <3>2, <3>4
    <3>6. row[s].gen # row[s].gen + 1
      BY <1>4
    <3> QED BY <2>2, <3>3, <3>5, <3>6
  <2>4. CASE Rotates(x)
    <3> DEFINE u == net[x].cookie.sid
    <3>1. PICK m : /\ Puts(x, m) /\ Whose(m) = u /\ m.cookie.sid = u /\ Pledged(m)
                   /\ \/ /\ net[x].stage = "checked" /\ m.stage = "rotating"
                         /\ m.cookie.gen = net[x].cookie.gen /\ row' = row
                      \/ /\ net[x].stage = "rotating" /\ m.stage = "rotated"
                         /\ m.cookie.gen = row[u].gen + 1
                         /\ row' = [row EXCEPT ![u].gen = @ + 1]
                      \/ /\ net[x].stage = "rotated" /\ m.stage = "reply"
                         /\ m.cookie.gen = net[x].cookie.gen /\ row' = row
                      \/ /\ net[x].stage = "checked" /\ row[u].gen = net[x].cookie.gen + 1
      BY <2>4 DEF Rotates
    <3>2. net'[x] = m /\ net[x].stage # "reply"
      BY <1>5, <2>4, <3>1 DEF Rotates, RefreshType, Handled
    <3>3. u = s
      BY <2>1, <3>2 DEF Bears
    <3>4. row[s].gen # row[s].gen + 1
      BY <1>4
    <3>5. m.stage # "reusing"
      BY <3>1 DEF Pledged, Granted
    <3>6. CASE m.cookie.gen = net[x].cookie.gen /\ row' = row
      BY <2>2, <3>2, <3>5, <3>6
    <3>7. CASE m.cookie.gen = row[u].gen + 1 /\ row' = [row EXCEPT ![u].gen = @ + 1]
      <4>1. row'[s] = [row[s] EXCEPT !.gen = @ + 1]
        BY <1>4, <3>3, <3>7
      <4>2. row'[s].gen = row[s].gen + 1
        BY <1>4, <4>1 DEF RowType
      <4> QED BY <3>2, <3>3, <3>5, <3>7, <4>2
    <3> QED BY <2>2, <3>1, <3>3, <3>4, <3>6, <3>7, SMTT(30)
  <2>5. net[x].kind = "refresh" /\ net[x].stage # "none"
    BY <2>1 DEF Bears
  <2>6. ~ Opens(x) /\ ~ Advances(x)
    BY <1>4, <2>5 DEF Opens, Advances, Fits, MsgInv
  <2>7. ~ Arrives(x)
    BY <2>2 DEF Arrives
  <2>8. ~ Refuses(x) /\ ~ Reuses(x)
    <3>1. net'[x].stage = "reply" => net'[x].code = "ok"
      BY <1>11 DEF Bears
    <3> QED BY <1>5, <2>2, <2>5, <3>1 DEF Refuses, Reuses, ReplyType
  <2> QED BY <1>1, <2>3, <2>4, <2>6, <2>7, <2>8
<1>12. ASSUME row'[s].gen # row[s].gen
       PROVE  \E t \in Tabs : /\ x = <<t, "run">> /\ \A u \in Tabs : u # t => net[<<u, "run">>].stage = "none"
                              /\ Renewed(net'[x]) /\ Whose(net'[x]) = s
  <2>1. Rotates(x) /\ s = net[x].cookie.sid
    BY <1>1, <1>12, SlotRows
  <2>2. PICK t \in Tabs : x = <<t, "run">> /\ \A u \in Tabs : u # t => net[<<u, "run">>].stage = "none"
    BY <1>6, <1>7, <2>1 DEF Rotates
  <2>3. PICK m : Puts(x, m) /\ Whose(m) = s /\ (m.stage = "rotated" \/ row' = row)
    BY <2>1 DEF Rotates
  <2>4. net'[x] = m /\ m.stage = "rotated"
    BY <1>5, <1>12, <2>3
  <2> QED BY <2>2, <2>3, <2>4 DEF Renewed
<1>13. ASSUME NEW u \in Tabs, Bears(net'[<<u, "run">>], s)
       PROVE  net'[<<u, "run">>].stage # "reusing" /\ net'[<<u, "run">>].cookie.gen = row'[s].gen
  <2>1. CASE x = <<u, "run">>
    BY <1>11, <1>13, <2>1
  <2>2. CASE x # <<u, "run">>
    <3>1. net'[<<u, "run">>] = net[<<u, "run">>]
      BY <1>2, <1>4, <2>2
    <3>2. net[<<u, "run">>].stage # "none"
      BY <1>13, <3>1 DEF Bears
    <3>3. row'[s].gen = row[s].gen
      BY <1>12, <2>2, <3>2
    <3> QED BY <1>3, <1>13, <3>1, <3>3
  <2> QED BY <2>1, <2>2
(* A rotation that has not been answered stays, unless its answer is lost. *)
<1>14. ASSUME NEW t \in Tabs, Renewed(net[<<t, "run">>]), Whose(net[<<t, "run">>]) = s
       PROVE  Renewed(net'[<<t, "run">>]) /\ Whose(net'[<<t, "run">>]) = s
  <2>1. CASE x # <<t, "run">>
    BY <1>2, <1>4, <1>14, <2>1
  <2>2. CASE x = <<t, "run">>
    <3>1. <<t, "run">>[2] \in Refreshers
      BY DEF Refreshers
    <3>2. Bears(net[x], s) /\ net[x].kind = "refresh"
      BY <1>14, <2>2, <3>1, RenewedBears
    <3>3. ~ Refuses(x)
      BY <1>14, <2>2, <3>2 DEF Refuses
    <3>4. ~ Opens(x) /\ ~ Advances(x) /\ ~ Arrives(x)
      BY <1>4, <2>2, <3>2 DEF Opens, Advances, Arrives, Fits, MsgInv
    <3>5. ~ Proceeds(x) /\ ~ Reuses(x)
      BY <1>14, <2>2, <3>2 DEF Proceeds, Reuses, RefreshType, Handled, CallType, Renewed, Granted
    <3>6. Rotates(x)
      BY <1>1, <3>3, <3>4, <3>5
    <3>7. net[x].stage = "rotated" /\ net[x].cookie.sid = s
      BY <1>14, <2>2, <3>6 DEF Rotates, RefreshType, Handled, Renewed, Granted, Whose
    <3>8. PICK m : Puts(x, m) /\ Whose(m) = s /\ m.stage = "reply" /\ Pledged(m)
      BY <3>6, <3>7 DEF Rotates
    <3>9. net'[x] = m
      BY <1>5, <3>8, SMTT(30)
    <3> QED BY <2>2, <3>8, <3>9 DEF Renewed, Pledged
  <2> QED BY <2>1, <2>2
<1>15. ASSUME cookie'.sid = s
       PROVE  \/ cookie'.gen = row'[s].gen
              \/ \E u \in Tabs : Renewed(net'[<<u, "run">>]) /\ Whose(net'[<<u, "run">>]) = s
  <2>1. CASE cookie' = cookie
    <3>1. CASE \E u \in Tabs : Renewed(net[<<u, "run">>]) /\ Whose(net[<<u, "run">>]) = s
      BY <1>14, <3>1
    <3>2. CASE cookie.gen = row[s].gen /\ row'[s].gen = row[s].gen
      BY <2>1, <3>2
    <3>3. CASE row'[s].gen # row[s].gen
      BY <1>12, <3>3
    <3> QED BY <1>3, <1>15, <2>1, <3>1, <3>2, <3>3
  <2>2. CASE Arrives(x) /\ cookie' # cookie
    <3>1. net[x].stage = "reply" /\ cookie' = SetCookie(net[x]) /\ x[2] \notin {"run", "op"} /\ row' = row
      BY <2>2 DEF Arrives
    <3>2. CASE net[x].kind # "refresh"
      <4>1. cookie' = NoCookie \/ row[cookie'.sid].gen = cookie'.gen
        BY <2>2, <3>1, <3>2, CookieOf
      <4> QED BY <1>4, <1>15, <3>1, <4>1
    <3>3. CASE net[x].kind = "refresh"
      <4>1. \/ cookie' = NoCookie
            \/ Granted(net[x]) /\ cookie' = net[x].cookie /\ net[x].cookie.sid = net[x].sid
        BY <2>2, <3>1, <3>3, CookieOf
      <4>2. cookie' = NoCookie \/ Bears(net[x], s)
        BY <1>15, <3>1, <3>3, <4>1 DEF Bears, Granted
      <4>3. ~ Bears(net[x], s)
        BY <1>6, <3>1
      <4> QED BY <1>4, <1>15, <4>2, <4>3
    <3> QED BY <3>2, <3>3
  <2> QED BY <1>1, <2>1, <2>2 DEF Refuses, Proceeds, Rotates, Reuses, Opens, Advances, Arrives
<1> QED BY <1>8, <1>10, <1>13, <1>15 DEF Linked

LEMMA ChainedInit == Init => Chained
<1> SUFFICES ASSUME Init PROVE Chained
  OBVIOUS
<1>1. /\ \A t \in Tabs : net[<<t, "run">>] = Idle /\ net[<<t, "lostrun">>] = Idle
      /\ \A t \in Tabs : tab[t].run = "none"
  BY FreshTabIs DEF Init, Slots
<1>2. cookie.gen = 0 /\ \A s \in Sids : row[s].gen = 0 /\ row[s].reason = "none"
  BY DEF Init
<1> QED BY <1>1, <1>2, IdleBrings DEF Chained, Exclusive, Linked

LEMMA ChainedStep == Typed /\ Fresh /\ Chained /\ [Next]_vars => Chained'
<1> SUFFICES ASSUME Typed, Fresh, Chained, [Next]_vars, WebLocks
             PROVE  Exclusive' /\ \A s \in Sids : s \notin lost' => Linked(s)'
  BY DEF Chained
<1>1. Typed' /\ Exclusive /\ \A s \in Sids : s \notin lost => Linked(s)
  BY TypedStep DEF Chained
<1>2. CASE UNCHANGED vars
  <2>1. Exclusive'
    BY <1>1, <1>2 DEF vars, Exclusive
  <2>2. ASSUME NEW s \in Sids, s \notin lost' PROVE Linked(s)'
    <3>1. Linked(s) /\ row' = row /\ net' = net /\ cookie' = cookie
      BY <1>1, <1>2, <2>2 DEF vars
    <3> QED BY <3>1 DEF Linked
  <2> QED BY <2>1, <2>2
<1>3. CASE ByOther
  <2>1. /\ tab' = tab /\ net' = net /\ cookie' = cookie /\ lost' = lost
        /\ \A s \in Sids : row'[s].gen = row[s].gen /\ (row'[s].reason = "reuse" => row[s].reason = "reuse")
    BY <1>3 DEF ByOther, RowsEnd, Ended
  <2>2. ASSUME NEW s \in Sids, s \notin lost' PROVE Linked(s)'
    <3>1. Linked(s)
      BY <1>1, <2>1, <2>2
    <3> QED BY <2>1, <3>1 DEF Linked
  <2>3. Exclusive'
    BY <1>1, <2>1 DEF Exclusive
  <2> QED BY <2>2, <2>3
<1>4. CASE ByTab
  <2>1. PICK t \in Tabs : row' = row /\ (Idles(t) \/ Asks(t) \/ Ends(t) \/ Finishes(t) \/ Unloads(t) \/ Hearkens(t))
    BY <1>4 DEF ByTab
  <2>2. lost \subseteq lost' /\ (tab'[t].run = "wait" => tab[t].run = "wait" \/ Asks(t))
    BY <1>1, <2>1, TabRuns
  <2>3. \A u \in Tabs : u # t => tab'[u] = tab[u]
    BY <2>1, TabSteps
  <2>4. Exclusive'
    <3>1. Asks(t) => \A u \in Tabs : tab[u].run = "wait" => u = t
      BY <1>1, AsksAlone
    <3> QED BY <1>1, <2>2, <2>3, <3>1 DEF Exclusive
  <2>5. ASSUME NEW s \in Sids, s \notin lost' PROVE Linked(s)'
    <3>1. Linked(s)
      BY <1>1, <2>2, <2>5
    <3> QED BY <1>1, <1>4, <2>5, <3>1, LinkedByTab
  <2> QED BY <2>4, <2>5
<1>5. CASE BySlot
  <2>1. tab' = tab /\ lost \subseteq lost'
    BY <1>5 DEF BySlot, Refuses, Proceeds, Rotates, Reuses, Opens, Advances, Arrives
  <2>2. ASSUME NEW s \in Sids, s \notin lost' PROVE Linked(s)'
    <3>1. Linked(s)
      BY <1>1, <2>1, <2>2
    <3> QED BY <1>1, <1>5, <2>2, <3>1, LinkedBySlot
  <2>3. Exclusive'
    BY <1>1, <2>1 DEF Exclusive
  <2> QED BY <2>2, <2>3
<1> QED BY <1>2, <1>3, <1>4, <1>5, StepKinds

(* With Web Locks the server takes a refresh for a replay only in a session one of whose
   rotations may not have reached the browser, for any number of tabs, sessions, sign-ins,
   sign-outs, security changes, revocations and faults. *)
THEOREM ReplayIsNeverFalse == Spec => []NoFalseReuse
<1>1. Init => Typed /\ Fresh /\ Chained
  BY TypedInit, FreshInit, ChainedInit
<1>2. Typed /\ Fresh /\ Chained /\ [Next]_vars => (Typed /\ Fresh /\ Chained)'
  BY TypedStep, FreshStep, ChainedStep
<1>3. Typed /\ Chained => NoFalseReuse
  BY DEF Chained, Linked, NoFalseReuse
<1> QED BY <1>1, <1>2, <1>3, PTL DEF Spec
=============================================================================
