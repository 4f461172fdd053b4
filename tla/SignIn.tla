------------------------------- MODULE SignIn -------------------------------
(***************************************************************************)
(* Refresh tokens: a login issues one, a refresh exchanges it for another, *)
(* a logout revokes it, and a token that comes back after it was revoked   *)
(* revokes all the tokens of its user.  Each statement is one step, and a  *)
(* token is read in one statement and revoked in a later one.              *)
(***************************************************************************)
EXTENDS Integers, Sequences

CONSTANTS
    Users,
    MaxTokens,       \* bound: tokens that get issued
    MaxRequests,     \* bound: requests
    Long, Short,     \* lifetimes, in ticks: rememberMe, and all others
    MaxTime          \* bound of the clock

ASSUME SignInAssumption ==
    {Long, Short, MaxTime, MaxTokens, MaxRequests} \subseteq Nat \ {0}

VARIABLES
    clock,
    tokens,   \* refresh_token, in the order they were issued
    calls,    \* handlers in flight
    issued,   \* requests so far
    used,     \* history: tokens presented to refresh or logout
    again,    \* history: tokens presented once more
    cut,      \* history: sessions whose user had all tokens revoked
    escaping  \* history: those of them a token of which was being exchanged then

vars == <<clock, tokens, calls, issued, used, again, cut, escaping>>

Tokens == 1 .. MaxTokens
Requests == 1 .. MaxRequests
NoToken == 0

\* parent, session (history): the token this one was exchanged for, and the
\* one of the login that all of them go back to.
Token == [user: Users, expires: Nat, revoked: BOOLEAN,
          parent: Tokens \cup {NoToken}, session: Tokens]

\* raced (history): another handler has revoked the token since it was read.
Call == [id: Requests, op: {"login", "refresh", "logout"}, user: Users,
         token: Tokens \cup {NoToken}, remember: BOOLEAN, raced: BOOLEAN,
         pc: {"verify", "read", "revokeAll", "revoke", "issue"}]

TokensOf(u) == {t \in DOMAIN tokens : tokens[t].user = u}

Move(c, c2) == calls' = (calls \ {c}) \cup {c2}
Finish(c) == calls' = calls \ {c}

Init ==
    /\ clock = 1
    /\ tokens = <<>> /\ calls = {} /\ issued = 0 /\ used = {} /\ again = {}
    /\ cut = {} /\ escaping = {}

Start(op, u, t, remember, pc) ==
    /\ issued < MaxRequests /\ issued' = issued + 1
    /\ calls' = calls \cup {[id |-> issued', op |-> op, user |-> u, token |-> t,
                             remember |-> remember, raced |-> FALSE, pc |-> pc]}
    /\ UNCHANGED <<clock, tokens, cut, escaping>>

StartLogin(u, remember) ==
    Start("login", u, NoToken, remember, "verify") /\ UNCHANGED <<used, again>>

\* A client presents a token it was given, perhaps not for the first time.
Present(op, t) ==
    /\ Start(op, tokens[t].user, t, FALSE, "read")
    /\ used' = used \cup {t}
    /\ again' = IF t \in used THEN again \cup {t} ELSE again

-----------------------------------------------------------------------------
\* Email and password are checked; the wrong ones end the handler.
VerifyPassword(c) ==
    /\ c.pc = "verify"
    /\ Move(c, [c EXCEPT !.pc = "issue"]) \/ Finish(c)
    /\ UNCHANGED <<clock, tokens, issued, used, again, cut, escaping>>

\* Mutant of IsReuse: a token that has expired raises the alarm as well.
IsReuseOrExpired(t) == tokens[t].revoked \/ tokens[t].expires < clock

\* Second mutant of IsReuse: the revocation is not looked at.
IsReuseNever(t) == FALSE

\* "Reuse of an already-rotated-out or already-logged-out token"
IsReuse(t) == tokens[t].revoked

ReadForRefresh(c) ==
    /\ c.pc = "read" /\ c.op = "refresh"
    /\ IF IsReuse(c.token) THEN Move(c, [c EXCEPT !.pc = "revokeAll"])
       ELSE IF tokens[c.token].expires < clock THEN Finish(c)
            ELSE Move(c, [c EXCEPT !.pc = "revoke"])
    /\ UNCHANGED <<clock, tokens, issued, used, again, cut, escaping>>

\* Logging out twice is no mistake.
ReadForLogout(c) ==
    /\ c.pc = "read" /\ c.op = "logout"
    /\ IF tokens[c.token].revoked THEN Finish(c) ELSE Move(c, [c EXCEPT !.pc = "revoke"])
    /\ UNCHANGED <<clock, tokens, issued, used, again, cut, escaping>>

\* Mutant of AllOf: only the tokens this one was exchanged for are revoked.
AllOfChildren(c) == {t \in TokensOf(c.user) : tokens[t].parent = c.token}

\* "revoke every session for this user, not just this one"
AllOf(c) == TokensOf(c.user)

Revoked(S) == [t \in DOMAIN tokens |-> IF t \in S THEN [tokens[t] EXCEPT !.revoked = TRUE]
                                       ELSE tokens[t]]

\* Handlers that have read one of the tokens in S find it revoked behind them.
Race(cs, S) ==
    {[d EXCEPT !.raced = @ \/ (d.token \in S /\ d.pc \in {"revoke", "issue"})] : d \in cs}

SessionsOf(u) == {tokens[t].session : t \in TokensOf(u)}

\* Handlers that have read their token and will issue another.
Exchanging(u) ==
    {d \in calls : d.op = "refresh" /\ d.user = u /\ d.pc \in {"revoke", "issue"}}

RevokeAllForUser(c) ==
    /\ c.pc = "revokeAll"
    /\ tokens' = Revoked(AllOf(c))
    /\ cut' = cut \cup SessionsOf(c.user)
    /\ escaping' = (escaping \ SessionsOf(c.user))
                      \cup {tokens[d.token].session : d \in Exchanging(c.user)}
    /\ calls' = Race(calls \ {c}, AllOf(c))
    /\ UNCHANGED <<clock, issued, used, again>>

\* The update does not look at revoked_at.
RevokeRefreshToken(c) ==
    /\ c.pc = "revoke"
    /\ tokens' = Revoked({c.token})
    /\ calls' = Race(calls \ {c}, {c.token})
                  \cup (IF c.op = "refresh" THEN {[c EXCEPT !.pc = "issue"]} ELSE {})
    /\ UNCHANGED <<clock, issued, used, again, cut, escaping>>

\* A refreshed session lasts for the short time, remembered or not.
ExpiresAt(c) == clock + (IF c.remember THEN Long ELSE Short)

Issued(c) ==
    [user |-> c.user, expires |-> ExpiresAt(c), revoked |-> FALSE,
     parent |-> c.token,
     session |-> IF c.token = NoToken THEN Len(tokens) + 1 ELSE tokens[c.token].session]

IssueRefreshToken(c) ==
    /\ c.pc = "issue"
    /\ Len(tokens) < MaxTokens /\ tokens' = Append(tokens, Issued(c))
    /\ Finish(c)
    /\ UNCHANGED <<clock, issued, used, again, cut, escaping>>

\* A statement that fails ends the handler.
Fail(c) ==
    /\ Finish(c)
    /\ UNCHANGED <<clock, tokens, issued, used, again, cut, escaping>>

Tick ==
    /\ clock < MaxTime /\ clock' = clock + 1
    /\ UNCHANGED <<tokens, calls, issued, used, again, cut, escaping>>

Login(c) == VerifyPassword(c) \/ (c.op = "login" /\ IssueRefreshToken(c))
Refresh(c) ==
    \/ ReadForRefresh(c) \/ RevokeAllForUser(c)
    \/ c.op = "refresh" /\ (RevokeRefreshToken(c) \/ IssueRefreshToken(c))
Logout(c) == ReadForLogout(c) \/ (c.op = "logout" /\ RevokeRefreshToken(c))

Next ==
    \/ \E u \in Users, b \in BOOLEAN : StartLogin(u, b)
    \/ \E t \in DOMAIN tokens, op \in {"refresh", "logout"} : Present(op, t)
    \/ \E c \in calls : Login(c) \/ Refresh(c) \/ Logout(c) \/ Fail(c)
    \/ Tick

Spec == Init /\ [][Next]_vars

-----------------------------------------------------------------------------
TypeOK ==
    /\ clock \in 1 .. MaxTime /\ tokens \in Seq(Token)
    /\ calls \subseteq Call /\ issued \in 0 .. MaxRequests
    /\ used \subseteq Tokens /\ again \subseteq used
    /\ cut \subseteq Tokens /\ escaping \subseteq Tokens

(***************************************************************************)
(* A client that presents each of its tokens once is never signed out by   *)
(* what it takes for reuse: a token is revoked because it was presented,   *)
(* or because one of the same user was presented again (refreshTokenAsync, *)
(* logoutAsync).                                                           *)
(***************************************************************************)
NoFalseAlarm ==
    \A t \in DOMAIN tokens : tokens[t].revoked =>
        \/ t \in used
        \/ \E s \in again : tokens[s].user = tokens[t].user

(***************************************************************************)
(* A token is exchanged for a second one only by a handler that had read   *)
(* it before another revoked it: there is no lock between the read and the *)
(* revocation (refreshTokenAsync).                                         *)
(***************************************************************************)
ExchangedTwiceOnlyByRace ==
    [][\A t \in DOMAIN tokens' \ DOMAIN tokens :
        /\ tokens'[t].parent # NoToken
        /\ \E s \in DOMAIN tokens : tokens[s].parent = tokens'[t].parent
        => \E c \in calls \ calls' : c.token = tokens'[t].parent /\ c.raced]_vars

(***************************************************************************)
(* When reuse is detected, every session the user has ends for good, but   *)
(* for one that has its token exchanged at that very moment: what follows  *)
(* in it lives on until the next detection (refreshTokenAsync, which does  *)
(* not look again at what it read when it issues the successor).           *)
(***************************************************************************)
CutEndsSessions ==
    \A t \in DOMAIN tokens :
        ~tokens[t].revoked /\ tokens[t].session \in cut => tokens[t].session \in escaping
=============================================================================
