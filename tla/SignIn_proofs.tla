--------------------------- MODULE SignIn_proofs ---------------------------
(***************************************************************************)
(* Theorems about SignIn, for every set of users, every lifetime and every *)
(* number of tokens and requests.                                          *)
(***************************************************************************)
EXTENDS SignIn, SequenceTheorems, TLAPS

-----------------------------------------------------------------------------
(* The inductive invariant.                                                *)
(*                                                                         *)
(* NoFalseAlarm alone is not inductive: that revokeAll is about to run must *)
(* already mean that a token of the user has come back.  It does, because  *)
(* what a handler has read and now finds revoked was revoked by a second    *)
(* handler of the same token, and two of them make a token presented again.*)

\* A token of the owner of t was presented again.
Alarmed(t) == \E s \in again : tokens[s].user = tokens[t].user

\* Histories speak of tokens that were issued.
Bounded ==
    /\ Len(tokens) <= MaxTokens
    /\ used \subseteq DOMAIN tokens
    /\ cut \subseteq DOMAIN tokens /\ escaping \subseteq DOMAIN tokens
    /\ \A t \in DOMAIN tokens : tokens[t].session \in DOMAIN tokens

\* A handler's token is one that was presented, and is its user's.
Presented ==
    \A c \in calls :
        /\ c.token # NoToken => c.token \in used /\ tokens[c.token].user = c.user
        /\ c.pc \in {"read", "revokeAll", "revoke"} => c.token # NoToken
        /\ c.op = "login" <=> c.token = NoToken
        /\ c.pc = "verify" => c.op = "login"

\* Two handlers of one token: it was presented again.
Twice ==
    \A c, d \in calls : c # d /\ c.token = d.token /\ c.token # NoToken => c.token \in again

\* A handler that finds its token revoked, or has found it so.
Alarms ==
    \A c \in calls :
        \/ c.pc = "revokeAll"
        \/ c.pc \in {"read", "revoke"} /\ tokens[c.token].revoked
        => Alarmed(c.token)

TokenInv ==
    /\ TypeOK /\ Bounded /\ Presented /\ Twice /\ Alarms
    /\ NoFalseAlarm

-----------------------------------------------------------------------------
(* The table of tokens *)

LEMMA TokensDomain ==
    ASSUME TypeOK
    PROVE  /\ DOMAIN tokens = 1 .. Len(tokens) /\ Len(tokens) \in Nat
           /\ \A t \in DOMAIN tokens : tokens[t] \in Token
BY LenProperties, ElementOfSeq DEF TypeOK

\* Revoking changes nothing else.
LEMMA RevokedTokens ==
    ASSUME TypeOK, NEW S
    PROVE  /\ Revoked(S) \in Seq(Token)
           /\ DOMAIN Revoked(S) = DOMAIN tokens /\ Len(Revoked(S)) = Len(tokens)
           /\ \A t \in DOMAIN tokens :
                 /\ Revoked(S)[t].user = tokens[t].user
                 /\ Revoked(S)[t].parent = tokens[t].parent
                 /\ Revoked(S)[t].session = tokens[t].session
                 /\ Revoked(S)[t].revoked = (tokens[t].revoked \/ t \in S)
<1> DEFINE n == Len(tokens)
<1>1. DOMAIN tokens = 1 .. n /\ n \in Nat /\ \A t \in 1 .. n : tokens[t] \in Token
  BY TokensDomain
<1>2. \A t \in 1 .. n : /\ Revoked(S)[t] = IF t \in S THEN [tokens[t] EXCEPT !.revoked = TRUE] ELSE tokens[t]
                        /\ Revoked(S)[t] \in Token
  BY <1>1 DEF Revoked, Token
<1>3. Revoked(S) \in [1 .. n -> Token] /\ DOMAIN Revoked(S) = 1 .. n
  BY <1>1, <1>2 DEF Revoked
<1>4. Revoked(S) \in Seq(Token)
  BY <1>1, <1>3, SeqDef
<1>5. Len(Revoked(S)) = n
  BY <1>1, <1>3, <1>4, LenProperties
<1>6. \A t \in 1 .. n :
         /\ Revoked(S)[t].user = tokens[t].user
         /\ Revoked(S)[t].parent = tokens[t].parent
         /\ Revoked(S)[t].session = tokens[t].session
         /\ Revoked(S)[t].revoked = (tokens[t].revoked \/ t \in S)
  BY <1>1, <1>2 DEF Token
<1> QED BY <1>1, <1>3, <1>4, <1>5, <1>6

\* Issuing leaves the tokens before it as they are.
LEMMA IssuedTokens ==
    ASSUME TokenInv, NEW c \in calls, IssueRefreshToken(c)
    PROVE  /\ tokens' \in Seq(Token) /\ Len(tokens') = Len(tokens) + 1
           /\ DOMAIN tokens' = DOMAIN tokens \cup {Len(tokens) + 1}
           /\ Len(tokens) + 1 \notin DOMAIN tokens
           /\ \A t \in DOMAIN tokens : tokens'[t] = tokens[t]
           /\ tokens'[Len(tokens) + 1] = Issued(c)
<1> DEFINE first == IF c.token = NoToken THEN Len(tokens) + 1 ELSE tokens[c.token].session
<1>1. Issued(c) \in Token
  <2>1. Len(tokens) + 1 \in Tokens
    BY TokensDomain, SignInAssumption DEF IssueRefreshToken, TokenInv, Tokens
  <2>2. c.token # NoToken => tokens[c.token].session \in Tokens
    BY TokensDomain DEF TokenInv, Presented, Bounded, Token
  <2>3. first \in Tokens
    BY <2>1, <2>2
  <2>4. c \in Call /\ ExpiresAt(c) \in Nat
    BY SignInAssumption DEF TokenInv, TypeOK, ExpiresAt
  <2>5. Issued(c) = [user |-> c.user, expires |-> ExpiresAt(c), revoked |-> FALSE,
                     parent |-> c.token, session |-> first]
    BY DEF Issued
  <2> HIDE DEF first
  <2> QED BY <2>3, <2>4, <2>5 DEF Call, Token
<1>2. tokens' = Append(tokens, Issued(c)) /\ tokens \in Seq(Token)
  BY DEF IssueRefreshToken, TokenInv, TypeOK
<1>3. /\ DOMAIN tokens = 1 .. Len(tokens) /\ Len(tokens) \in Nat
  BY TokensDomain DEF TokenInv
<1>4. /\ tokens' \in Seq(Token) /\ Len(tokens') = Len(tokens) + 1
      /\ \A t \in 1 .. Len(tokens) : tokens'[t] = tokens[t]
      /\ tokens'[Len(tokens) + 1] = Issued(c)
  BY <1>1, <1>2, AppendProperties
<1>5. DOMAIN tokens' = 1 .. (Len(tokens) + 1)
  BY <1>4, LenProperties
<1> QED BY <1>3, <1>4, <1>5

-----------------------------------------------------------------------------
(* Steps *)

\* A handler moves on, its token unread or found as it should be.
LEMMA MoveKeeps ==
    ASSUME TokenInv, NEW c \in calls, NEW p \in {"revokeAll", "revoke", "issue"},
           Move(c, [c EXCEPT !.pc = p]),
           UNCHANGED <<clock, tokens, issued, used, again, cut, escaping>>,
           p # "issue" => c.token # NoToken,
           p = "revokeAll" => Alarmed(c.token),
           p = "revoke" => ~tokens[c.token].revoked
    PROVE  TokenInv'
<1> DEFINE c2 == [c EXCEPT !.pc = p]
<1>1. calls' = (calls \ {c}) \cup {c2}
  BY DEF Move
<1>2. c \in Call /\ c2 \in Call
  BY DEF TokenInv, TypeOK, Call
<1>3. c2.token = c.token /\ c2.user = c.user /\ c2.op = c.op /\ c2.pc = p
  BY <1>2 DEF Call
<1>4. TypeOK'
  BY <1>1, <1>2 DEF TokenInv, TypeOK, Token, Call, Tokens, Requests
<1> HIDE DEF c2
<1>5. Presented'
  BY <1>1, <1>3 DEF TokenInv, Presented
<1>6. Twice'
  BY <1>1, <1>3 DEF TokenInv, Twice
<1>7. Alarms'
  BY <1>1, <1>3 DEF TokenInv, Alarms, Alarmed
<1> QED
  BY <1>4, <1>5, <1>6, <1>7 DEF TokenInv, Bounded, NoFalseAlarm

LEMMA FinishKeeps ==
    ASSUME TokenInv, NEW c \in calls, Finish(c),
           UNCHANGED <<clock, tokens, issued, used, again, cut, escaping>>
    PROVE  TokenInv'
BY DEF TokenInv, Finish, TypeOK, Bounded, Presented, Twice, Alarms, Alarmed,
       NoFalseAlarm

\* Handlers that are told of a race keep all else.
LEMMA RaceKeeps ==
    ASSUME NEW cs, cs \subseteq Call, NEW S
    PROVE  \A e \in Race(cs, S) :
              /\ e \in Call
              /\ \E d \in cs : /\ e = [d EXCEPT !.raced = @ \/ (d.token \in S /\ d.pc \in {"revoke", "issue"})]
                               /\ e.token = d.token /\ e.user = d.user /\ e.pc = d.pc
                               /\ e.op = d.op
                               /\ e.raced = (d.raced \/ (d.token \in S /\ d.pc \in {"revoke", "issue"}))
<1> SUFFICES ASSUME NEW d \in cs
             PROVE  LET e == [d EXCEPT !.raced = @ \/ (d.token \in S /\ d.pc \in {"revoke", "issue"})]
                    IN  /\ e \in Call
                        /\ e.token = d.token /\ e.user = d.user /\ e.pc = d.pc
                        /\ e.op = d.op
                        /\ e.raced = (d.raced \/ (d.token \in S /\ d.pc \in {"revoke", "issue"}))
  BY DEF Race
<1>1. d \in Call
  OBVIOUS
<1> QED BY <1>1 DEF Call

LEMMA InitTokens == Init => TokenInv
<1> SUFFICES ASSUME Init PROVE TokenInv
  OBVIOUS
<1>1. tokens \in Seq(Token) /\ Len(tokens) = 0 /\ DOMAIN tokens = {}
  BY EmptySeq, LenProperties DEF Init
<1> QED
  BY <1>1, SignInAssumption
  DEF Init, TokenInv, TypeOK, Bounded, Presented, Twice, Alarms, NoFalseAlarm

LEMMA StartKeeps ==
    ASSUME TokenInv, NEW new, calls' = calls \cup {new}, new \in Call, new.pc \in {"verify", "read"},
           issued' \in 0 .. MaxRequests, UNCHANGED <<clock, tokens, cut, escaping>>,
           used \subseteq used', used' \subseteq DOMAIN tokens,
           again \subseteq again', again' \subseteq used',
           new.token # NoToken => new.token \in used' /\ tokens[new.token].user = new.user,
           new.pc = "read" => new.token # NoToken,
           new.op = "login" <=> new.token = NoToken, new.pc = "verify" => new.op = "login",
           new.token \in used => new.token \in again'
    PROVE  TokenInv'
<1>1. TypeOK' /\ Bounded'
  <2>1. used' \subseteq Tokens
    BY TokensDomain, SignInAssumption DEF TokenInv, Bounded, Tokens
  <2> QED BY <2>1 DEF TokenInv, TypeOK, Bounded
<1>2. Presented'
  BY DEF TokenInv, Presented
<1>3. Twice'
  <2>1. \A d \in calls : d.token = new.token /\ new.token # NoToken => new.token \in again'
    BY DEF TokenInv, Presented
  <2> QED BY <2>1 DEF TokenInv, Twice
<1>4. \A t \in DOMAIN tokens : Alarmed(t) => Alarmed(t)'
  BY DEF Alarmed
<1>5. NoFalseAlarm'
  BY DEF TokenInv, NoFalseAlarm
<1>6. Alarms'
  <2>1. \A d \in calls : d.token # NoToken => d.token \in DOMAIN tokens
    BY DEF TokenInv, Presented, Bounded
  <2>2. ASSUME NEW d \in calls, d.pc = "revokeAll" \/ (d.pc \in {"read", "revoke"} /\ tokens[d.token].revoked)
        PROVE  Alarmed(d.token)'
    <3>1. Alarmed(d.token)
      BY <2>2 DEF TokenInv, Alarms
    <3> QED BY <3>1 DEF Alarmed
  <2>3. ASSUME new.pc = "read", tokens[new.token].revoked
        PROVE  Alarmed(new.token)'
    <3>1. new.token \in DOMAIN tokens
      BY <2>3
    <3>2. new.token \in used \/ Alarmed(new.token)
      BY <2>3, <3>1 DEF TokenInv, NoFalseAlarm, Alarmed
    <3> QED BY <3>1, <3>2 DEF Alarmed
  <2>4. tokens' = tokens /\ calls' = calls \cup {new}
    OBVIOUS
  <2>5. ASSUME NEW d \in calls',
               d.pc = "revokeAll" \/ (d.pc \in {"read", "revoke"} /\ tokens'[d.token].revoked)
        PROVE  \E s \in again' : tokens'[s].user = tokens'[d.token].user
    <3> SUFFICES Alarmed(d.token)'
      BY DEF Alarmed
    <3>1. CASE d \in calls
      BY <2>2, <2>4, <2>5, <3>1
    <3>2. CASE d = new
      <4>1. new.pc = "read" /\ tokens[new.token].revoked
        BY <2>4, <2>5, <3>2
      <4> QED BY <2>3, <3>2, <4>1
    <3> QED BY <2>4, <3>1, <3>2
  <2> QED BY <2>5 DEF Alarms, Alarmed
<1> QED BY <1>1, <1>2, <1>3, <1>5, <1>6 DEF TokenInv

LEMMA StartLoginKeeps ==
    ASSUME TokenInv, NEW u \in Users, NEW b \in BOOLEAN, StartLogin(u, b)
    PROVE  TokenInv'
<1> DEFINE c == [id |-> issued', op |-> "login", user |-> u, token |-> NoToken,
                 remember |-> b, raced |-> FALSE, pc |-> "verify"]
<1>1. issued' \in Requests /\ issued' \in 0 .. MaxRequests
  BY SignInAssumption DEF StartLogin, Start, TokenInv, TypeOK, Requests
<1>2. c \in Call /\ calls' = calls \cup {c}
  BY <1>1 DEF StartLogin, Start, Call
<1>3. NoToken \notin used
  BY SignInAssumption DEF TokenInv, TypeOK, Tokens, NoToken
<1>4. c.pc = "verify" /\ c.token = NoToken /\ c.op = "login"
  OBVIOUS
<1>5. UNCHANGED <<clock, tokens, cut, escaping, used, again>>
  BY DEF StartLogin, Start
<1> HIDE DEF c
<1> QED BY <1>1, <1>2, <1>3, <1>4, <1>5, StartKeeps DEF TokenInv, TypeOK, Bounded

LEMMA PresentKeeps ==
    ASSUME TokenInv, NEW t \in DOMAIN tokens, NEW op \in {"refresh", "logout"}, Present(op, t)
    PROVE  TokenInv'
<1> DEFINE c == [id |-> issued', op |-> op, user |-> tokens[t].user, token |-> t,
                 remember |-> FALSE, raced |-> FALSE, pc |-> "read"]
<1>1. issued' \in Requests /\ issued' \in 0 .. MaxRequests
  BY SignInAssumption DEF Present, Start, TokenInv, TypeOK, Requests
<1>2. t \in Tokens /\ t # NoToken /\ tokens[t].user \in Users
  <2>1. t \in 1 .. Len(tokens) /\ Len(tokens) \in Nat /\ Len(tokens) <= MaxTokens
    BY TokensDomain DEF TokenInv, Bounded
  <2> QED BY <2>1, TokensDomain, SignInAssumption DEF TokenInv, Token, Tokens, NoToken
<1>3. c \in Call /\ calls' = calls \cup {c}
  BY <1>1, <1>2 DEF Present, Start, Call
<1>4. c.pc = "read" /\ c.token = t /\ c.user = tokens[t].user /\ c.op # "login"
  OBVIOUS
<1>5. /\ UNCHANGED <<clock, tokens, cut, escaping>> /\ used' = used \cup {t}
      /\ again' = IF t \in used THEN again \cup {t} ELSE again
  BY DEF Present, Start
<1> HIDE DEF c
<1>6. used' \subseteq DOMAIN tokens /\ again' \subseteq used' /\ again \subseteq again'
  BY <1>5 DEF TokenInv, TypeOK, Bounded
<1> QED BY <1>1, <1>2, <1>3, <1>4, <1>5, <1>6, StartKeeps

\* What a handler has read of its token.
LEMMA ReadKeeps ==
    ASSUME TokenInv, NEW c \in calls, ReadForRefresh(c) \/ ReadForLogout(c)
    PROVE  TokenInv'
<1>1. c.token # NoToken
  BY DEF TokenInv, Presented, ReadForRefresh, ReadForLogout
<1>2. UNCHANGED <<clock, tokens, issued, used, again, cut, escaping>>
  BY DEF ReadForRefresh, ReadForLogout
<1>3. CASE Finish(c)
  BY <1>2, <1>3, FinishKeeps
<1>4. CASE Move(c, [c EXCEPT !.pc = "revokeAll"]) /\ c.pc = "read" /\ tokens[c.token].revoked
  <2>1. Alarmed(c.token)
    BY <1>4 DEF TokenInv, Alarms
  <2> QED BY <1>1, <1>2, <1>4, <2>1, MoveKeeps
<1>5. CASE Move(c, [c EXCEPT !.pc = "revoke"]) /\ ~tokens[c.token].revoked
  BY <1>1, <1>2, <1>5, MoveKeeps
<1> QED BY <1>3, <1>4, <1>5 DEF ReadForRefresh, ReadForLogout, IsReuse

LEMMA VerifyKeeps ==
    ASSUME TokenInv, NEW c \in calls, VerifyPassword(c)
    PROVE  TokenInv'
<1>1. CASE Finish(c)
  BY <1>1, FinishKeeps DEF VerifyPassword
<1>2. CASE Move(c, [c EXCEPT !.pc = "issue"])
  BY <1>2, MoveKeeps DEF VerifyPassword
<1> QED BY <1>1, <1>2 DEF VerifyPassword

\* The tokens in S are revoked, by the handler c.
LEMMA RevokeKeeps ==
    ASSUME TokenInv, NEW c \in calls, NEW S \in SUBSET DOMAIN tokens, NEW rest,
           rest \subseteq {[c EXCEPT !.pc = "issue"]},
           calls' = Race(calls \ {c}, S) \cup rest, tokens' = Revoked(S),
           UNCHANGED <<clock, issued, used, again>>,
           cut' \subseteq DOMAIN tokens, escaping' \subseteq DOMAIN tokens,
           \A t \in S : t \in used \/ Alarmed(t),
           \A d \in calls \ {c} : d.pc \in {"read", "revoke"} /\ d.token \in S => Alarmed(d.token)
    PROVE  TokenInv'
<1> DEFINE c2 == [c EXCEPT !.pc = "issue"]
           Raced(d) == [d EXCEPT !.raced = @ \/ (d.token \in S /\ d.pc \in {"revoke", "issue"})]
<1>1. /\ DOMAIN tokens' = DOMAIN tokens /\ Len(tokens') = Len(tokens) /\ tokens' \in Seq(Token)
      /\ \A t \in DOMAIN tokens : /\ tokens'[t].user = tokens[t].user
                                  /\ tokens'[t].session = tokens[t].session
                                  /\ tokens'[t].revoked = (tokens[t].revoked \/ t \in S)
  BY RevokedTokens DEF TokenInv
<1>2. \A t \in DOMAIN tokens : Alarmed(t) => Alarmed(t)'
  BY <1>1 DEF TokenInv, TypeOK, Bounded, Alarmed
<1>3. c2 \in Call /\ c2.token = c.token /\ c2.user = c.user /\ c2.op = c.op /\ c2.pc = "issue"
  BY DEF TokenInv, TypeOK, Call
<1>4. \A e \in calls' : \/ e = c2
                        \/ \E d \in calls \ {c} :
                             /\ e = Raced(d)
                             /\ e.token = d.token /\ e.user = d.user /\ e.op = d.op
                             /\ e.pc = d.pc
  <2>1. calls \ {c} \subseteq Call
    BY DEF TokenInv, TypeOK
  <2> QED BY <2>1, RaceKeeps
<1>5. calls' \subseteq Call
  <2>1. calls \ {c} \subseteq Call
    BY DEF TokenInv, TypeOK
  <2> QED BY <1>3, <2>1, RaceKeeps
<1> HIDE DEF c2, Raced
<1>6. \A e \in calls' : \E d \in calls :
         e.token = d.token /\ e.user = d.user /\ e.op = d.op
  BY <1>3, <1>4
<1>7. \A d \in calls : d.token # NoToken =>
            d.token \in used /\ d.token \in DOMAIN tokens /\ tokens[d.token].user = d.user
  BY DEF TokenInv, Presented, Bounded
<1>8. TypeOK' /\ Bounded'
  <2>1. cut' \subseteq Tokens /\ escaping' \subseteq Tokens
    BY TokensDomain, SignInAssumption DEF TokenInv, Bounded, Tokens
  <2> QED BY <1>1, <1>5, <2>1 DEF TokenInv, TypeOK, Bounded
<1>9. Presented'
  <2> SUFFICES ASSUME NEW e \in calls'
               PROVE  /\ e.token # NoToken => e.token \in used' /\ tokens'[e.token].user = e.user
                      /\ e.pc \in {"read", "revokeAll", "revoke"} => e.token # NoToken
                      /\ e.op = "login" <=> e.token = NoToken
                      /\ e.pc = "verify" => e.op = "login"
    BY DEF Presented
  <2>1. e.token # NoToken => e.token \in used' /\ tokens'[e.token].user = e.user
    <3>1. PICK d \in calls : e.token = d.token /\ e.user = d.user
      BY <1>6
    <3> QED BY <1>1, <1>7, <3>1
  <2>2. e.pc \in {"read", "revokeAll", "revoke"} => e.token # NoToken
    <3>1. CASE e.pc = "issue"
      BY <3>1
    <3>2. CASE \E d \in calls : e.token = d.token /\ e.pc = d.pc
      BY <3>2 DEF TokenInv, Presented
    <3> QED BY <1>3, <1>4, <3>1, <3>2
  <2>3. e.op = "login" <=> e.token = NoToken
    BY <1>6 DEF TokenInv, Presented
  <2>4. e.pc = "verify" => e.op = "login"
    <3>1. CASE e.pc = "issue"
      BY <3>1
    <3>2. CASE \E d \in calls : e.op = d.op /\ e.pc = d.pc
      BY <3>2 DEF TokenInv, Presented
    <3> QED BY <1>3, <1>4, <3>1, <3>2
  <2> QED BY <2>1, <2>2, <2>3, <2>4
<1>10. Twice'
  <2> SUFFICES ASSUME NEW e \in calls', NEW f \in calls', e # f, e.token = f.token, e.token # NoToken
               PROVE  e.token \in again
    BY DEF Twice
  <2>1. PICK d \in calls : d.token = e.token /\ \/ d = c /\ e = c2
                                                \/ d # c /\ e = Raced(d)
    BY <1>3, <1>4
  <2>2. PICK g \in calls : g.token = f.token /\ \/ g = c /\ f = c2
                                                \/ g # c /\ f = Raced(g)
    BY <1>3, <1>4
  <2>3. d # g
    BY <2>1, <2>2
  <2> QED BY <2>1, <2>2, <2>3 DEF TokenInv, Twice
<1>11. Alarms'
  <2> SUFFICES ASSUME NEW e \in calls',
                      e.pc = "revokeAll" \/ (e.pc \in {"read", "revoke"} /\ tokens'[e.token].revoked)
               PROVE  Alarmed(e.token)'
    BY DEF Alarms
  <2>1. PICK d \in calls \ {c} : e.token = d.token /\ e.pc = d.pc
    BY <1>3, <1>4
  <2>2. d.token \in DOMAIN tokens
    BY <1>7, <2>1 DEF TokenInv, Presented
  <2>3. Alarmed(d.token)
    <3>1. CASE d.pc = "revokeAll"
      BY <3>1 DEF TokenInv, Alarms
    <3>2. CASE d.pc \in {"read", "revoke"} /\ tokens[d.token].revoked
      BY <3>2 DEF TokenInv, Alarms
    <3>3. CASE d.pc \in {"read", "revoke"} /\ d.token \in S
      BY <2>1, <3>3
    <3> QED BY <1>1, <2>1, <2>2, <3>1, <3>2, <3>3
  <2> QED BY <1>2, <2>1, <2>2, <2>3
<1>12. NoFalseAlarm'
  <2> SUFFICES ASSUME NEW t \in DOMAIN tokens, tokens'[t].revoked
               PROVE  t \in used \/ Alarmed(t)'
    BY <1>1 DEF NoFalseAlarm, Alarmed
  <2>1. t \in used \/ Alarmed(t)
    <3>1. CASE t \in S
      BY <3>1
    <3>2. CASE tokens[t].revoked
      BY <3>2 DEF TokenInv, NoFalseAlarm, Alarmed
    <3> QED BY <1>1, <3>1, <3>2
  <2> QED BY <1>2, <2>1
<1> QED BY <1>8, <1>9, <1>10, <1>11, <1>12 DEF TokenInv

LEMMA RevokeAllKeeps ==
    ASSUME TokenInv, NEW c \in calls, RevokeAllForUser(c)
    PROVE  TokenInv'
<1> DEFINE S == AllOf(c)
           rest == {}
<1>1. c.token # NoToken /\ tokens[c.token].user = c.user /\ Alarmed(c.token)
  BY DEF TokenInv, Presented, Alarms, RevokeAllForUser
<1>2. S \in SUBSET DOMAIN tokens /\ S = TokensOf(c.user) /\ \A t \in S : Alarmed(t)
  BY <1>1 DEF AllOf, TokensOf, Alarmed
<1>3. cut' \subseteq DOMAIN tokens /\ escaping' \subseteq DOMAIN tokens
  <2>1. \A d \in Exchanging(c.user) : tokens[d.token].session \in DOMAIN tokens
    <3>1. \A d \in Exchanging(c.user) : d.token \in DOMAIN tokens
      BY DEF Exchanging, TokenInv, Presented, Bounded
    <3> QED BY <3>1 DEF TokenInv, Bounded
  <2>2. SessionsOf(c.user) \subseteq DOMAIN tokens
    BY DEF SessionsOf, TokensOf, TokenInv, Bounded
  <2> QED BY <2>1, <2>2 DEF RevokeAllForUser, TokenInv, Bounded
<1>4. /\ calls' = Race(calls \ {c}, S) \cup rest /\ tokens' = Revoked(S)
      /\ UNCHANGED <<clock, issued, used, again>>
  BY DEF RevokeAllForUser
<1>5. rest \subseteq {[c EXCEPT !.pc = "issue"]}
  OBVIOUS
<1> HIDE DEF S, rest
<1> QED BY <1>2, <1>3, <1>4, <1>5, RevokeKeeps

LEMMA RevokeOneKeeps ==
    ASSUME TokenInv, NEW c \in calls, RevokeRefreshToken(c)
    PROVE  TokenInv'
<1> DEFINE S == {c.token}
           rest == IF c.op = "refresh" THEN {[c EXCEPT !.pc = "issue"]} ELSE {}
<1>1. c.token \in used /\ c.token \in DOMAIN tokens /\ c.token # NoToken
  BY DEF TokenInv, Presented, Bounded, RevokeRefreshToken
<1>2. S \in SUBSET DOMAIN tokens /\ \A t \in S : t \in used
  BY <1>1
<1>3. \A d \in calls \ {c} : d.token \in S => Alarmed(d.token)
  BY <1>1 DEF TokenInv, Twice, Alarmed
<1>4. cut' \subseteq DOMAIN tokens /\ escaping' \subseteq DOMAIN tokens
  BY DEF RevokeRefreshToken, TokenInv, Bounded
<1>5. /\ calls' = Race(calls \ {c}, S) \cup rest /\ tokens' = Revoked(S)
      /\ UNCHANGED <<clock, issued, used, again>>
      /\ rest \subseteq {[c EXCEPT !.pc = "issue"]}
  BY DEF RevokeRefreshToken
<1> HIDE DEF S, rest
<1> QED BY <1>2, <1>3, <1>4, <1>5, RevokeKeeps

LEMMA IssueKeeps ==
    ASSUME TokenInv, NEW c \in calls, IssueRefreshToken(c)
    PROVE  TokenInv'
<1>1. /\ tokens' \in Seq(Token) /\ Len(tokens') = Len(tokens) + 1
      /\ DOMAIN tokens' = DOMAIN tokens \cup {Len(tokens) + 1}
      /\ \A t \in DOMAIN tokens : tokens'[t] = tokens[t]
      /\ ~tokens'[Len(tokens) + 1].revoked
      /\ tokens'[Len(tokens) + 1].session \in DOMAIN tokens'
  <2>1. ~Issued(c).revoked /\ Issued(c).session \in DOMAIN tokens \cup {Len(tokens) + 1}
    BY DEF TokenInv, Presented, Bounded, Issued
  <2> QED BY <2>1, IssuedTokens
<1>2. /\ Len(tokens) < MaxTokens /\ calls' = calls \ {c}
      /\ UNCHANGED <<clock, issued, used, again, cut, escaping>>
  BY DEF IssueRefreshToken, Finish
<1>3. TypeOK' /\ Bounded'
  <2>1. Len(tokens) + 1 <= MaxTokens
    BY <1>2, TokensDomain, SignInAssumption DEF TokenInv
  <2> QED BY <1>1, <1>2, <2>1 DEF TokenInv, TypeOK, Bounded
<1>4. \A d \in calls : d.token # NoToken => d.token \in DOMAIN tokens
  BY DEF TokenInv, Presented, Bounded
<1>5. again \subseteq DOMAIN tokens
  BY DEF TokenInv, TypeOK, Bounded
<1>6. Presented' /\ Twice'
  BY <1>1, <1>2, <1>4 DEF TokenInv, Presented, Twice
<1>7. \A t \in DOMAIN tokens : Alarmed(t) => Alarmed(t)'
  BY <1>1, <1>2, <1>5 DEF Alarmed
<1>8. Alarms'
  <2> SUFFICES ASSUME NEW d \in calls',
                      d.pc = "revokeAll" \/ (d.pc \in {"read", "revoke"} /\ tokens'[d.token].revoked)
               PROVE  Alarmed(d.token)'
    BY DEF Alarms
  <2>1. d \in calls /\ d.token \in DOMAIN tokens
    BY <1>2, <1>4 DEF TokenInv, Presented
  <2>2. Alarmed(d.token)
    BY <1>1, <2>1 DEF TokenInv, Alarms
  <2> QED BY <1>7, <2>1, <2>2
<1>9. NoFalseAlarm'
  <2> SUFFICES ASSUME NEW t \in DOMAIN tokens, tokens[t].revoked
               PROVE  t \in used \/ Alarmed(t)'
    BY <1>1, <1>2 DEF NoFalseAlarm, Alarmed
  <2> QED BY <1>7 DEF TokenInv, NoFalseAlarm, Alarmed
<1> QED BY <1>3, <1>6, <1>8, <1>9 DEF TokenInv

LEMMA NextTokens == TokenInv /\ [Next]_vars => TokenInv'
<1> SUFFICES ASSUME TokenInv, [Next]_vars PROVE TokenInv'
  OBVIOUS
<1>1. ASSUME NEW u \in Users, NEW b \in BOOLEAN, StartLogin(u, b) PROVE TokenInv'
  BY <1>1, StartLoginKeeps
<1>2. ASSUME NEW t \in DOMAIN tokens, NEW op \in {"refresh", "logout"}, Present(op, t)
      PROVE  TokenInv'
  BY <1>2, PresentKeeps
<1>3. ASSUME NEW c \in calls, Login(c) \/ Refresh(c) \/ Logout(c)
      PROVE  TokenInv'
  BY <1>3, VerifyKeeps, ReadKeeps, RevokeAllKeeps, RevokeOneKeeps, IssueKeeps
  DEF Login, Refresh, Logout
<1>4. ASSUME NEW c \in calls, Fail(c) PROVE TokenInv'
  BY <1>4, FinishKeeps DEF Fail
<1>5. CASE Tick
  BY <1>5, SignInAssumption
  DEF Tick, TokenInv, TypeOK, Bounded, Presented, Twice, Alarms, Alarmed,
      NoFalseAlarm
<1>6. CASE UNCHANGED vars
  BY <1>6
  DEF vars, TokenInv, TypeOK, Bounded, Presented, Twice, Alarms, Alarmed,
      NoFalseAlarm
<1> QED BY <1>1, <1>2, <1>3, <1>4, <1>5, <1>6 DEF Next

LEMMA TokensAreRight == Spec => []TokenInv
BY InitTokens, NextTokens, PTL DEF Spec

\* The variables of SignIn are always of their types.
THEOREM TypeCorrect == Spec => []TypeOK
<1>1. TokenInv => TypeOK
  BY DEF TokenInv
<1> QED BY <1>1, TokensAreRight, PTL

\* Who presents each token once is never taken for a thief (refreshTokenAsync).
THEOREM FalseAlarmNever == Spec => []NoFalseAlarm
<1>1. TokenInv => NoFalseAlarm
  BY DEF TokenInv
<1> QED BY <1>1, TokensAreRight, PTL

-----------------------------------------------------------------------------
(* What a cut ends.                                                        *)
(*                                                                         *)
(* Handlers bring back what a cut has ended: from the moment it has read a *)
(* token of a session that was cut, the session must be known to escape.   *)

\* A session is one user's.
SessionsAreOfOneUser ==
    \A t \in DOMAIN tokens : tokens[tokens[t].session].user = tokens[t].user

\* Who will issue a token in a session that was cut was there at the cut.
ExchangesEscape ==
    \A c \in calls :
        /\ c.op = "refresh" /\ c.pc \in {"revoke", "issue"}
        /\ tokens[c.token].session \in cut
        => tokens[c.token].session \in escaping

CutInv == SessionsAreOfOneUser /\ ExchangesEscape /\ CutEndsSessions

LEMMA InitCut == Init => CutInv
<1> SUFFICES ASSUME Init PROVE CutInv
  OBVIOUS
<1>1. DOMAIN tokens = {} /\ calls = {}
  BY DEF Init
<1> QED BY <1>1 DEF CutInv, SessionsAreOfOneUser, ExchangesEscape, CutEndsSessions

\* A handler comes, goes or moves on, with a token that it finds not revoked.
LEMMA CallKeepsCut ==
    ASSUME TokenInv, CutInv, NEW old, NEW new, calls' \subseteq (calls \ {old}) \cup {new},
           UNCHANGED <<tokens, cut, escaping>>,
           new.op = "refresh" /\ new.pc \in {"revoke", "issue"} =>
               new.token \in DOMAIN tokens /\ ~tokens[new.token].revoked
    PROVE  CutInv'
<1>1. \A d \in calls' : d \in calls \/ d = new
  OBVIOUS
<1>2. ExchangesEscape'
  BY <1>1 DEF CutInv, ExchangesEscape, CutEndsSessions
<1> QED BY <1>2 DEF CutInv, SessionsAreOfOneUser, CutEndsSessions

LEMMA FinishKeepsCut ==
    ASSUME CutInv, calls' \subseteq calls, UNCHANGED <<tokens, cut, escaping>>
    PROVE  CutInv'
BY DEF CutInv, SessionsAreOfOneUser, ExchangesEscape, CutEndsSessions

LEMMA ReadKeepsCut ==
    ASSUME TokenInv, CutInv, NEW c \in calls,
           VerifyPassword(c) \/ ReadForRefresh(c) \/ ReadForLogout(c)
    PROVE  CutInv'
<1>1. UNCHANGED <<tokens, cut, escaping>>
  BY DEF VerifyPassword, ReadForRefresh, ReadForLogout
<1>2. CASE Finish(c)
  BY <1>1, <1>2, FinishKeepsCut DEF Finish
<1>3. ASSUME NEW p \in {"revokeAll", "revoke", "issue"}, Move(c, [c EXCEPT !.pc = p]),
             p = "issue" => c.pc = "verify",
             p = "revoke" => c.pc = "read" /\ ~tokens[c.token].revoked
      PROVE  CutInv'
  <2> DEFINE new == [c EXCEPT !.pc = p]
  <2>1. new.pc = p /\ new.token = c.token /\ new.op = c.op
    BY DEF TokenInv, TypeOK, Call
  <2>2. calls' \subseteq (calls \ {c}) \cup {new}
    BY <1>3 DEF Move
  <2>3. p = "issue" => c.op = "login"
    BY <1>3 DEF TokenInv, Presented
  <2>4. p = "revoke" => c.token \in DOMAIN tokens
    BY <1>3 DEF TokenInv, Presented, Bounded
  <2> HIDE DEF new
  <2> QED BY <1>1, <1>3, <2>1, <2>2, <2>3, <2>4, CallKeepsCut
<1> QED BY <1>2, <1>3 DEF VerifyPassword, ReadForRefresh, ReadForLogout, IsReuse

LEMMA RevokeAllKeepsCut ==
    ASSUME TokenInv, CutInv, NEW c \in calls, RevokeAllForUser(c)
    PROVE  CutInv'
<1> DEFINE Ended == SessionsOf(c.user)
<1>1. /\ DOMAIN tokens' = DOMAIN tokens
      /\ \A t \in DOMAIN tokens :
            /\ tokens'[t].user = tokens[t].user /\ tokens'[t].session = tokens[t].session
            /\ tokens'[t].revoked = (tokens[t].revoked \/ tokens[t].user = c.user)
  BY RevokedTokens DEF TokenInv, RevokeAllForUser, AllOf, TokensOf
<1>2. \A t \in DOMAIN tokens : tokens[t].session \in DOMAIN tokens
  BY DEF TokenInv, Bounded
<1>3. \A t \in DOMAIN tokens : tokens[t].session \in Ended => tokens[t].user = c.user
  BY DEF CutInv, SessionsAreOfOneUser, SessionsOf, TokensOf
<1>4. /\ cut' = cut \cup Ended
      /\ escaping' = (escaping \ Ended) \cup {tokens[d.token].session : d \in Exchanging(c.user)}
  BY DEF RevokeAllForUser
<1>5. \A e \in calls' : \E d \in calls :
         e.token = d.token /\ e.user = d.user /\ e.op = d.op /\ e.pc = d.pc
  <2>1. calls \ {c} \subseteq Call
    BY DEF TokenInv, TypeOK
  <2> QED BY <2>1, RaceKeeps DEF RevokeAllForUser
<1> HIDE DEF Ended
<1>6. SessionsAreOfOneUser'
  BY <1>1, <1>2 DEF CutInv, SessionsAreOfOneUser
<1>7. CutEndsSessions'
  BY <1>1, <1>3, <1>4 DEF CutInv, CutEndsSessions
<1>8. ExchangesEscape'
  <2> SUFFICES ASSUME NEW d \in calls, d.op = "refresh", d.pc \in {"revoke", "issue"},
                      tokens'[d.token].session \in cut'
               PROVE  tokens'[d.token].session \in escaping'
    BY <1>5 DEF ExchangesEscape
  <2>1. d.token \in DOMAIN tokens /\ tokens[d.token].user = d.user
    BY DEF TokenInv, Presented, Bounded
  <2>2. CASE d.user = c.user
    BY <1>1, <1>4, <2>1, <2>2 DEF Exchanging
  <2>3. CASE d.user # c.user
    <3>1. tokens[d.token].session \in cut /\ tokens[d.token].session \notin Ended
      BY <1>1, <1>3, <1>4, <2>1, <2>3
    <3> QED BY <1>1, <1>4, <2>1, <3>1 DEF CutInv, ExchangesEscape
  <2> QED BY <2>2, <2>3
<1> QED BY <1>6, <1>7, <1>8 DEF CutInv

LEMMA RevokeOneKeepsCut ==
    ASSUME TokenInv, CutInv, NEW c \in calls, RevokeRefreshToken(c)
    PROVE  CutInv'
<1> DEFINE S == {c.token}
           rest == IF c.op = "refresh" THEN {[c EXCEPT !.pc = "issue"]} ELSE {}
<1>1. tokens' = Revoked(S) /\ calls' = Race(calls \ {c}, S) \cup rest
  BY DEF RevokeRefreshToken
<1>2. \A e \in rest : e = [c EXCEPT !.pc = "issue"]
  OBVIOUS
<1> HIDE DEF S, rest
<1>3. /\ DOMAIN tokens' = DOMAIN tokens
      /\ \A t \in DOMAIN tokens :
            /\ tokens'[t].user = tokens[t].user /\ tokens'[t].session = tokens[t].session
            /\ tokens'[t].revoked = (tokens[t].revoked \/ t \in S)
  BY <1>1, RevokedTokens DEF TokenInv
<1>4. /\ \A t \in DOMAIN tokens : tokens[t].session \in DOMAIN tokens
      /\ UNCHANGED <<cut, escaping>>
  BY DEF TokenInv, Bounded, RevokeRefreshToken
<1>5. \A e \in calls' : \E d \in calls :
         /\ e.token = d.token /\ e.op = d.op
         /\ e.pc \in {"revoke", "issue"} => d.pc \in {"revoke", "issue"}
  <2>1. calls \ {c} \subseteq Call
    BY DEF TokenInv, TypeOK
  <2>2. \A e \in Race(calls \ {c}, S) : \E d \in calls \ {c} :
           e.token = d.token /\ e.op = d.op /\ e.pc = d.pc
    BY <2>1, RaceKeeps
  <2>3. c \in Call /\ c.pc = "revoke"
    BY DEF TokenInv, TypeOK, RevokeRefreshToken
  <2>4. ASSUME NEW e \in rest PROVE e.token = c.token /\ e.op = c.op
    BY <1>2, <2>3, <2>4 DEF Call
  <2>5. ASSUME NEW e \in calls'
        PROVE  \E d \in calls :
                  /\ e.token = d.token /\ e.op = d.op
                  /\ e.pc \in {"revoke", "issue"} => d.pc \in {"revoke", "issue"}
    <3>1. CASE e \in rest
      BY <2>3, <2>4, <3>1
    <3>2. CASE e \in Race(calls \ {c}, S)
      BY <2>2, <3>2
    <3> QED BY <1>1, <3>1, <3>2
  <2> QED BY <2>5
<1>6. \A d \in calls : d.op = "refresh" => d.token \in DOMAIN tokens
  BY DEF TokenInv, Presented, Bounded
<1>7. ExchangesEscape'
  BY <1>3, <1>4, <1>5, <1>6 DEF CutInv, ExchangesEscape
<1>8. SessionsAreOfOneUser'
  BY <1>3, <1>4 DEF CutInv, SessionsAreOfOneUser
<1>9. CutEndsSessions'
  BY <1>3, <1>4 DEF CutInv, CutEndsSessions
<1> QED BY <1>7, <1>8, <1>9 DEF CutInv

LEMMA IssueKeepsCut ==
    ASSUME TokenInv, CutInv, NEW c \in calls, c.op \in {"login", "refresh"}, IssueRefreshToken(c)
    PROVE  CutInv'
<1> DEFINE n == Len(tokens) + 1
           first == IF c.token = NoToken THEN n ELSE tokens[c.token].session
<1>1. /\ DOMAIN tokens' = DOMAIN tokens \cup {n} /\ n \notin DOMAIN tokens
      /\ \A t \in DOMAIN tokens : tokens'[t] = tokens[t]
      /\ tokens'[n].user = c.user /\ tokens'[n].session = first
  <2>1. Issued(c).user = c.user /\ Issued(c).session = first
    BY DEF Issued
  <2> QED BY <2>1, IssuedTokens
<1>2. c.pc = "issue" /\ calls' = calls \ {c} /\ UNCHANGED <<cut, escaping>>
  BY DEF IssueRefreshToken, Finish
<1>3. /\ \A t \in DOMAIN tokens : tokens[t].session \in DOMAIN tokens
      /\ cut \subseteq DOMAIN tokens
      /\ \A d \in calls : d.op = "refresh" => d.token \in DOMAIN tokens
      /\ c.op = "login" <=> c.token = NoToken
      /\ c.token # NoToken => c.token \in DOMAIN tokens /\ tokens[c.token].user = c.user
  BY DEF TokenInv, Presented, Bounded
<1>4. first \in cut => first \in escaping
  BY <1>1, <1>2, <1>3 DEF CutInv, ExchangesEscape
<1>5. tokens'[first].user = c.user
  BY <1>1, <1>3 DEF CutInv, SessionsAreOfOneUser
<1> HIDE DEF n, first
<1>6. SessionsAreOfOneUser'
  BY <1>1, <1>3, <1>5 DEF CutInv, SessionsAreOfOneUser
<1>7. CutEndsSessions'
  BY <1>1, <1>2, <1>4 DEF CutInv, CutEndsSessions
<1>8. ExchangesEscape'
  BY <1>1, <1>2, <1>3 DEF CutInv, ExchangesEscape
<1> QED BY <1>6, <1>7, <1>8 DEF CutInv

LEMMA NextCut == TokenInv /\ CutInv /\ [Next]_vars => CutInv'
<1> SUFFICES ASSUME TokenInv, CutInv, [Next]_vars PROVE CutInv'
  OBVIOUS
<1>1. ASSUME NEW u \in Users, NEW b \in BOOLEAN, StartLogin(u, b) PROVE CutInv'
  <2> DEFINE new == [id |-> issued', op |-> "login", user |-> u, token |-> NoToken,
                     remember |-> b, raced |-> FALSE, pc |-> "verify"]
  <2>1. calls' \subseteq (calls \ {new}) \cup {new} /\ UNCHANGED <<tokens, cut, escaping>>
    BY <1>1 DEF StartLogin, Start
  <2>2. new.op = "login"
    OBVIOUS
  <2> HIDE DEF new
  <2> QED BY <2>1, <2>2, CallKeepsCut
<1>2. ASSUME NEW t \in DOMAIN tokens, NEW op \in {"refresh", "logout"}, Present(op, t)
      PROVE  CutInv'
  <2> DEFINE new == [id |-> issued', op |-> op, user |-> tokens[t].user, token |-> t,
                     remember |-> FALSE, raced |-> FALSE, pc |-> "read"]
  <2>1. calls' \subseteq (calls \ {new}) \cup {new} /\ UNCHANGED <<tokens, cut, escaping>>
    BY <1>2 DEF Present, Start
  <2>2. new.pc = "read"
    OBVIOUS
  <2> HIDE DEF new
  <2> QED BY <2>1, <2>2, CallKeepsCut
<1>3. ASSUME NEW c \in calls, Login(c) \/ Refresh(c) \/ Logout(c) PROVE CutInv'
  BY <1>3, ReadKeepsCut, RevokeAllKeepsCut, RevokeOneKeepsCut, IssueKeepsCut
  DEF Login, Refresh, Logout
<1>4. ASSUME NEW c \in calls, Fail(c) PROVE CutInv'
  BY <1>4, FinishKeepsCut DEF Fail, Finish
<1>5. CASE Tick
  BY <1>5, FinishKeepsCut DEF Tick
<1>6. CASE UNCHANGED vars
  BY <1>6, FinishKeepsCut DEF vars
<1> QED BY <1>1, <1>2, <1>3, <1>4, <1>5, <1>6 DEF Next

\* Reuse detection ends every session of the user but those one of whose
\* tokens was being exchanged (RevokeAllRefreshTokensForUser).
THEOREM CutSessionsEnd == Spec => []CutEndsSessions
<1>1. Spec => []CutInv
  BY InitCut, NextCut, TokensAreRight, PTL DEF Spec
<1>2. CutInv => CutEndsSessions
  BY DEF CutInv
<1> QED BY <1>1, <1>2, PTL

-----------------------------------------------------------------------------
(* Exchanging a token twice.                                               *)
(*                                                                         *)
(* A handler that has not been raced is the first to revoke what it read,  *)
(* and so the only one that may exchange it.                               *)

Exchanged(t) == \E s \in DOMAIN tokens : tokens[s].parent = t

\* A token is exchanged after it is revoked.
ParentsRevoked ==
    /\ \A s \in DOMAIN tokens : tokens[s].parent # NoToken =>
          tokens[s].parent \in DOMAIN tokens /\ tokens[tokens[s].parent].revoked
    /\ \A c \in calls : /\ c.pc = "issue" /\ c.token # NoToken => tokens[c.token].revoked
                        /\ c.pc = "verify" => c.token = NoToken

\* Who comes to a token too late is raced, before it revokes and after.
LateAreRaced ==
    /\ \A c \in calls :
          \/ c.pc = "revoke" /\ tokens[c.token].revoked
          \/ c.pc = "issue" /\ c.token # NoToken /\ Exchanged(c.token)
          => c.raced
    /\ \A c, d \in calls :
          c # d /\ c.pc = "issue" /\ d.pc = "issue" /\ c.token = d.token /\ c.token # NoToken
          => c.raced

RaceInv == ParentsRevoked /\ LateAreRaced

LEMMA InitRace == Init => RaceInv
<1> SUFFICES ASSUME Init PROVE RaceInv
  OBVIOUS
<1>1. DOMAIN tokens = {} /\ calls = {}
  BY DEF Init
<1> QED BY <1>1 DEF RaceInv, ParentsRevoked, LateAreRaced

\* No token changes; a handler comes, goes or moves to where it is not late.
LEMMA CallKeepsRace ==
    ASSUME RaceInv, NEW old, NEW new, calls' = (calls \ {old}) \cup {new}, UNCHANGED tokens,
           new.pc = "issue" => new.token = NoToken,
           new.pc = "verify" => new.token = NoToken,
           new.pc = "revoke" => ~tokens[new.token].revoked
    PROVE  RaceInv'
<1>1. ParentsRevoked'
  BY DEF RaceInv, ParentsRevoked
<1>2. ASSUME NEW d \in calls',
             \/ d.pc = "revoke" /\ tokens'[d.token].revoked
             \/ d.pc = "issue" /\ d.token # NoToken /\ Exchanged(d.token)'
      PROVE  d.raced
  BY <1>2 DEF RaceInv, LateAreRaced, Exchanged
<1>3. ASSUME NEW d \in calls', NEW e \in calls', d # e, d.pc = "issue", e.pc = "issue",
             d.token = e.token, d.token # NoToken
      PROVE  d.raced
  BY <1>3 DEF RaceInv, LateAreRaced
<1> QED BY <1>1, <1>2, <1>3 DEF RaceInv, LateAreRaced

LEMMA FinishKeepsRace ==
    ASSUME RaceInv, calls' \subseteq calls, UNCHANGED tokens
    PROVE  RaceInv'
BY DEF RaceInv, ParentsRevoked, LateAreRaced, Exchanged

LEMMA RevokeKeepsRace ==
    ASSUME TokenInv, RaceInv, NEW c \in calls, NEW S \in SUBSET DOMAIN tokens, NEW rest,
           rest = {} \/ (rest = {[c EXCEPT !.pc = "issue"]} /\ c.pc = "revoke" /\ c.token \in S),
           calls' = Race(calls \ {c}, S) \cup rest, tokens' = Revoked(S)
    PROVE  RaceInv'
<1> DEFINE c2 == [c EXCEPT !.pc = "issue"]
           Raced(d) == [d EXCEPT !.raced = @ \/ (d.token \in S /\ d.pc \in {"revoke", "issue"})]
<1>1. /\ DOMAIN tokens' = DOMAIN tokens
      /\ \A t \in DOMAIN tokens : /\ tokens'[t].parent = tokens[t].parent
                                  /\ tokens'[t].revoked = (tokens[t].revoked \/ t \in S)
  BY RevokedTokens DEF TokenInv
<1>2. c2.token = c.token /\ c2.pc = "issue" /\ c2.raced = c.raced
  BY DEF TokenInv, TypeOK, Call
<1>3. \A e \in calls' :
         \/ e = c2 /\ c.pc = "revoke" /\ c.token \in S
         \/ \E d \in calls \ {c} :
              /\ e = Raced(d) /\ e.token = d.token /\ e.pc = d.pc
              /\ e.raced = (d.raced \/ (d.token \in S /\ d.pc \in {"revoke", "issue"}))
  <2>1. calls \ {c} \subseteq Call
    BY DEF TokenInv, TypeOK
  <2> QED BY <2>1, RaceKeeps
<1>4. \A d \in calls : d.token # NoToken => d.token \in DOMAIN tokens
  BY DEF TokenInv, Presented, Bounded
<1>5. \A d \in calls : d.pc = "revoke" => d.token # NoToken
  BY DEF TokenInv, Presented
<1>6. \A t : Exchanged(t)' <=> Exchanged(t)
  BY <1>1 DEF Exchanged
<1> HIDE DEF c2, Raced
<1>7. ParentsRevoked'
  <2>1. ASSUME NEW s \in DOMAIN tokens, tokens[s].parent # NoToken
        PROVE  tokens[s].parent \in DOMAIN tokens /\ tokens'[tokens[s].parent].revoked
    BY <1>1, <2>1 DEF RaceInv, ParentsRevoked
  <2>2. ASSUME NEW e \in calls', e.pc = "issue", e.token # NoToken
        PROVE  tokens'[e.token].revoked
    <3>1. CASE e = c2 /\ c.token \in S
      BY <1>1, <1>2, <3>1
    <3>2. ASSUME NEW d \in calls, e.token = d.token, e.pc = d.pc
          PROVE  tokens'[e.token].revoked
      <4>1. tokens[d.token].revoked /\ d.token \in DOMAIN tokens
        BY <1>4, <2>2, <3>2 DEF RaceInv, ParentsRevoked
      <4> QED BY <1>1, <3>2, <4>1
    <3> QED BY <1>3, <3>1, <3>2
  <2>3. ASSUME NEW e \in calls', e.pc = "verify"
        PROVE  e.token = NoToken
    <3>1. PICK d \in calls : e.token = d.token /\ e.pc = d.pc
      BY <1>2, <1>3, <2>3
    <3> QED BY <2>3, <3>1 DEF RaceInv, ParentsRevoked
  <2> QED BY <1>1, <2>1, <2>2, <2>3 DEF ParentsRevoked
<1>8. ASSUME NEW e \in calls',
             \/ e.pc = "revoke" /\ tokens'[e.token].revoked
             \/ e.pc = "issue" /\ e.token # NoToken /\ Exchanged(e.token)
      PROVE  e.raced
  <2>1. CASE e = c2 /\ c.pc = "revoke"
    <3>1. tokens[c.token].revoked
      BY <1>2, <1>5, <1>8, <2>1 DEF RaceInv, ParentsRevoked, Exchanged
    <3> QED BY <1>2, <2>1, <3>1 DEF RaceInv, LateAreRaced
  <2>2. ASSUME NEW d \in calls, e.token = d.token, e.pc = d.pc,
               e.raced = (d.raced \/ (d.token \in S /\ d.pc \in {"revoke", "issue"}))
        PROVE  e.raced
    <3>1. CASE e.pc = "revoke"
      BY <1>1, <1>4, <1>5, <1>8, <2>2, <3>1 DEF RaceInv, LateAreRaced
    <3>2. CASE e.pc = "issue"
      BY <1>8, <2>2, <3>2 DEF RaceInv, LateAreRaced
    <3> QED BY <1>8, <3>1, <3>2
  <2> QED BY <1>3, <2>1, <2>2
<1>9. ASSUME NEW e \in calls', NEW f \in calls', e # f, e.pc = "issue", f.pc = "issue",
             e.token = f.token, e.token # NoToken
      PROVE  e.raced
  <2>1. CASE e = c2 /\ c.pc = "revoke"
    <3>1. PICK g \in calls : f.token = g.token /\ f.pc = g.pc
      BY <1>3, <1>9, <2>1
    <3>2. tokens[c.token].revoked
      BY <1>2, <1>9, <2>1, <3>1 DEF RaceInv, ParentsRevoked
    <3> QED BY <1>2, <2>1, <3>2 DEF RaceInv, LateAreRaced
  <2>2. ASSUME NEW d \in calls \ {c}, e = Raced(d), e.token = d.token, e.pc = d.pc,
               e.raced = (d.raced \/ (d.token \in S /\ d.pc \in {"revoke", "issue"}))
        PROVE  e.raced
    <3>1. CASE f = c2 /\ c.token \in S
      BY <1>2, <1>9, <2>2, <3>1
    <3>2. ASSUME NEW g \in calls, f = Raced(g), f.token = g.token, f.pc = g.pc
          PROVE  e.raced
      <4>1. d # g
        BY <1>9, <2>2, <3>2
      <4>2. d.pc = "issue" /\ g.pc = "issue" /\ d.token = g.token /\ d.token # NoToken
        BY <1>9, <2>2, <3>2
      <4>3. d.raced
        BY <4>1, <4>2 DEF RaceInv, LateAreRaced
      <4> QED BY <2>2, <4>3
    <3> QED BY <1>3, <3>1, <3>2
  <2> QED BY <1>3, <2>1, <2>2
<1> QED BY <1>6, <1>7, <1>8, <1>9 DEF RaceInv, LateAreRaced

LEMMA IssueKeepsRace ==
    ASSUME TokenInv, RaceInv, NEW c \in calls, IssueRefreshToken(c)
    PROVE  RaceInv'
<1> DEFINE n == Len(tokens) + 1
<1>1. /\ DOMAIN tokens' = DOMAIN tokens \cup {n}
      /\ \A t \in DOMAIN tokens : tokens'[t] = tokens[t]
      /\ tokens'[n].parent = c.token /\ c.pc = "issue" /\ calls' = calls \ {c}
  <2>1. TypeOK /\ Issued(c).parent = c.token
    BY DEF TokenInv, Issued
  <2> QED BY <2>1, IssuedTokens DEF IssueRefreshToken, Finish
<1>2. \A d \in calls : d.token # NoToken => d.token \in DOMAIN tokens
  BY DEF TokenInv, Presented, Bounded
<1>3. \A d \in calls : d.pc = "revoke" => d.token # NoToken
  BY DEF TokenInv, Presented
<1> HIDE DEF n
<1>4. ParentsRevoked'
  <2>1. ASSUME NEW s \in DOMAIN tokens', tokens'[s].parent # NoToken
        PROVE  tokens'[s].parent \in DOMAIN tokens' /\ tokens'[tokens'[s].parent].revoked
    <3>1. CASE s \in DOMAIN tokens
      BY <1>1, <2>1, <3>1 DEF RaceInv, ParentsRevoked
    <3>2. CASE s = n
      BY <1>1, <1>2, <2>1, <3>2 DEF RaceInv, ParentsRevoked
    <3> QED BY <1>1, <3>1, <3>2
  <2>2. \A d \in calls' : /\ d.pc = "issue" /\ d.token # NoToken => tokens'[d.token].revoked
                          /\ d.pc = "verify" => d.token = NoToken
    BY <1>1, <1>2 DEF RaceInv, ParentsRevoked
  <2> QED BY <2>1, <2>2 DEF ParentsRevoked
<1>5. ASSUME NEW d \in calls',
             \/ d.pc = "revoke" /\ tokens'[d.token].revoked
             \/ d.pc = "issue" /\ d.token # NoToken /\ Exchanged(d.token)'
      PROVE  d.raced
  <2>1. d \in calls /\ d # c
    BY <1>1
  <2>2. CASE d.pc = "revoke"
    BY <1>1, <1>2, <1>3, <1>5, <2>1, <2>2 DEF RaceInv, LateAreRaced
  <2>3. CASE d.pc = "issue" /\ Exchanged(d.token)
    BY <1>5, <2>1, <2>3 DEF RaceInv, LateAreRaced
  <2>4. CASE d.pc = "issue" /\ d.token = c.token
    BY <1>1, <1>5, <2>1, <2>4 DEF RaceInv, LateAreRaced
  <2> QED BY <1>1, <1>5, <2>2, <2>3, <2>4 DEF Exchanged
<1>6. ASSUME NEW d \in calls', NEW e \in calls', d # e, d.pc = "issue", e.pc = "issue",
             d.token = e.token, d.token # NoToken
      PROVE  d.raced
  BY <1>1, <1>6 DEF RaceInv, LateAreRaced
<1> QED BY <1>4, <1>5, <1>6 DEF RaceInv, LateAreRaced

LEMMA NextRace == TokenInv /\ RaceInv /\ [Next]_vars => RaceInv'
<1> SUFFICES ASSUME TokenInv, RaceInv, [Next]_vars PROVE RaceInv'
  OBVIOUS
<1>1. ASSUME NEW u \in Users, NEW b \in BOOLEAN, StartLogin(u, b) PROVE RaceInv'
  <2> DEFINE new == [id |-> issued', op |-> "login", user |-> u, token |-> NoToken,
                     remember |-> b, raced |-> FALSE, pc |-> "verify"]
  <2>1. calls' = (calls \ {new}) \cup {new} /\ UNCHANGED tokens
    BY <1>1 DEF StartLogin, Start
  <2>2. new.pc = "verify" /\ new.token = NoToken
    OBVIOUS
  <2> HIDE DEF new
  <2> QED BY <2>1, <2>2, CallKeepsRace
<1>2. ASSUME NEW t \in DOMAIN tokens, NEW op \in {"refresh", "logout"}, Present(op, t)
      PROVE  RaceInv'
  <2> DEFINE new == [id |-> issued', op |-> op, user |-> tokens[t].user, token |-> t,
                     remember |-> FALSE, raced |-> FALSE, pc |-> "read"]
  <2>1. calls' = (calls \ {new}) \cup {new} /\ UNCHANGED tokens
    BY <1>2 DEF Present, Start
  <2>2. new.pc = "read"
    OBVIOUS
  <2> HIDE DEF new
  <2> QED BY <2>1, <2>2, CallKeepsRace
<1>3. ASSUME NEW c \in calls, VerifyPassword(c) \/ ReadForRefresh(c) \/ ReadForLogout(c)
      PROVE  RaceInv'
  <2>1. UNCHANGED tokens
    BY <1>3 DEF VerifyPassword, ReadForRefresh, ReadForLogout
  <2>2. CASE Finish(c)
    BY <2>1, <2>2, FinishKeepsRace DEF Finish
  <2>3. ASSUME NEW p \in {"revokeAll", "revoke", "issue"}, Move(c, [c EXCEPT !.pc = p]),
               p = "issue" => c.pc = "verify", p = "revoke" => ~tokens[c.token].revoked
        PROVE  RaceInv'
    <3> DEFINE new == [c EXCEPT !.pc = p]
    <3>1. new.pc = p /\ new.token = c.token
      BY DEF TokenInv, TypeOK, Call
    <3>2. calls' = (calls \ {c}) \cup {new}
      BY <2>3 DEF Move
    <3>3. p = "issue" => c.token = NoToken
      BY <2>3 DEF RaceInv, ParentsRevoked
    <3> HIDE DEF new
    <3> QED BY <2>1, <2>3, <3>1, <3>2, <3>3, CallKeepsRace
  <2> QED BY <1>3, <2>2, <2>3 DEF VerifyPassword, ReadForRefresh, ReadForLogout, IsReuse
<1>4. ASSUME NEW c \in calls, RevokeAllForUser(c) PROVE RaceInv'
  <2> DEFINE S == AllOf(c)
             rest == {}
  <2>1. S \in SUBSET DOMAIN tokens
    BY DEF AllOf, TokensOf
  <2>2. calls' = Race(calls \ {c}, S) \cup rest /\ tokens' = Revoked(S)
    BY <1>4 DEF RevokeAllForUser
  <2>3. rest = {}
    OBVIOUS
  <2> HIDE DEF S, rest
  <2> QED BY <2>1, <2>2, <2>3, RevokeKeepsRace
<1>5. ASSUME NEW c \in calls, RevokeRefreshToken(c) PROVE RaceInv'
  <2> DEFINE S == {c.token}
             rest == IF c.op = "refresh" THEN {[c EXCEPT !.pc = "issue"]} ELSE {}
  <2>1. S \in SUBSET DOMAIN tokens
    BY <1>5 DEF TokenInv, Presented, Bounded, RevokeRefreshToken
  <2>2. calls' = Race(calls \ {c}, S) \cup rest /\ tokens' = Revoked(S)
    BY <1>5 DEF RevokeRefreshToken
  <2>3. rest = {} \/ (rest = {[c EXCEPT !.pc = "issue"]} /\ c.pc = "revoke" /\ c.token \in S)
    BY <1>5 DEF RevokeRefreshToken
  <2> HIDE DEF S, rest
  <2> QED BY <2>1, <2>2, <2>3, RevokeKeepsRace
<1>6. ASSUME NEW c \in calls, IssueRefreshToken(c) PROVE RaceInv'
  BY <1>6, IssueKeepsRace
<1>7. ASSUME NEW c \in calls, Fail(c) PROVE RaceInv'
  BY <1>7, FinishKeepsRace DEF Fail, Finish
<1>8. CASE Tick
  BY <1>8, FinishKeepsRace DEF Tick
<1>9. CASE UNCHANGED vars
  BY <1>9, FinishKeepsRace DEF vars
<1> QED
  BY <1>1, <1>2, <1>3, <1>4, <1>5, <1>6, <1>7, <1>8, <1>9
  DEF Next, Login, Refresh, Logout

LEMMA OnlyIssueExchanges ==
    ASSUME TokenInv, RaceInv, [Next]_vars, NEW t \in DOMAIN tokens' \ DOMAIN tokens,
           tokens'[t].parent # NoToken, Exchanged(tokens'[t].parent)
    PROVE  \E c \in calls \ calls' : c.token = tokens'[t].parent /\ c.raced
<1>1. \A S : DOMAIN Revoked(S) = DOMAIN tokens
  BY RevokedTokens DEF TokenInv
<1>2. PICK c \in calls : IssueRefreshToken(c)
  BY <1>1
  DEF Next, vars, StartLogin, Present, Start, Login, Refresh, Logout, VerifyPassword,
      ReadForRefresh, ReadForLogout, RevokeAllForUser, RevokeRefreshToken, Fail, Tick
<1>3. tokens'[t].parent = c.token
  <2>1. TypeOK /\ Issued(c).parent = c.token
    BY DEF TokenInv, Issued
  <2> QED BY <1>2, <2>1, IssuedTokens
<1>4. c.raced /\ c \notin calls'
  BY <1>2, <1>3 DEF RaceInv, LateAreRaced, IssueRefreshToken, Finish
<1> QED BY <1>3, <1>4

\* Without a race between a handler's read and its revocation, a token is
\* exchanged once (refreshTokenAsync).
THEOREM ExchangedOnceWithoutRace == Spec => ExchangedTwiceOnlyByRace
<1>1. Spec => []RaceInv
  BY InitRace, NextRace, TokensAreRight, PTL DEF Spec
<1>2. TokenInv /\ RaceInv /\ [Next]_vars =>
        [\A t \in DOMAIN tokens' \ DOMAIN tokens :
            /\ tokens'[t].parent # NoToken
            /\ \E s \in DOMAIN tokens : tokens[s].parent = tokens'[t].parent
            => \E c \in calls \ calls' : c.token = tokens'[t].parent /\ c.raced]_vars
  BY OnlyIssueExchanges DEF Exchanged
<1> QED BY <1>1, <1>2, TokensAreRight, PTL DEF Spec, ExchangedTwiceOnlyByRace
=============================================================================
