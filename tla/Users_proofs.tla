---------------------------- MODULE Users_proofs ----------------------------
(***************************************************************************)
(* Theorems about Accounts and ChatRetrieval, parts of MCSignIn, for every *)
(* set of users, passwords and documents and every bound.                  *)
(***************************************************************************)
EXTENDS MCSignIn, FiniteSetTheorems, WellFoundedInduction, TLAPS

-----------------------------------------------------------------------------
(* Recovery.                                                               *)
(*                                                                         *)
(* A code in the cache is under the address of the request that made it    *)
(* up, and is mailed nowhere else; so a code that fits was mailed to the   *)
(* address, and a reset token in the cache was given out for such a code.  *)

\* Requests are numbered: no two in flight have one number, none is ahead.
Numbered ==
    /\ accountIssued \in Nat
    /\ \A c \in accountCalls : c.id \in 1 .. accountIssued
    /\ \A c, d \in accountCalls : c.id = d.id => c = d
    /\ \A m \in mailed : m[1] \in 1 .. accountIssued
    /\ \A e \in Users : otp[e] \in 0 .. accountIssued
    /\ otp \in [Users -> Nat] /\ reset \in [Users -> Nat]

IsCall(c) ==
    c = [id |-> c.id, op |-> c.op, email |-> c.email, shown |-> c.shown,
         old |-> c.old, new |-> c.new, raced |-> c.raced, pc |-> c.pc]

\* What a handler does, and for which address.
Kinds ==
    \A c \in accountCalls :
        /\ IsCall(c) /\ c.email \in Users
        /\ c.pc \in {"store", "mail", "withdraw"} => c.op = "otp"
        /\ c.pc = "user" => c.op \in {"otp", "verify", "recover"}
        /\ c.pc = "read" => c.op = "set"
        /\ c.pc = "code" => c.op = "verify"
        /\ c.op = "verify" => \E e \in Users : <<c.shown, e>> \in mailed

\* A code is its request's address's.
CodesAreAddressed ==
    /\ mailed \subseteq Nat \X Users
    /\ \A e \in Users : otp[e] # A!None =>
          /\ \A c \in accountCalls : c.id = otp[e] => c.email = e
          /\ \A f \in Users : <<otp[e], f>> \in mailed => f = e
    /\ \A c \in accountCalls, f \in Users : <<c.id, f>> \in mailed => f = c.email

\* A reset token was given out for a code mailed to the address.
Earned(token, e) == \E o \in opened : o[2] = token /\ <<o[1], e>> \in mailed

TokensAreEarned ==
    /\ \A c \in accountCalls : c.pc \in {"spend", "open"} => <<c.shown, c.email>> \in mailed
    /\ \A e \in Users : reset[e] # A!None => Earned(reset[e], e)
    /\ \A c \in accountCalls : c.op = "recover" /\ c.pc \in {"burn", "write"} => Earned(c.shown, c.email)

RecoveryInv == Numbered /\ Kinds /\ CodesAreAddressed /\ TokensAreEarned

LEMMA InitRecovery == A!Init => RecoveryInv
BY DEF A!Init, RecoveryInv, Numbered, Kinds, CodesAreAddressed, TokensAreEarned, A!None

\* A request comes.
LEMMA StartKeeps ==
    ASSUME RecoveryInv, NEW op, NEW e \in Users, NEW shown, NEW old, NEW new, NEW pc,
           A!Start(op, e, shown, old, new, pc), pc \in {"check", "user", "read"},
           pc = "user" => op \in {"otp", "verify", "recover"},
           pc = "read" => op = "set",
           op = "verify" => \E f \in Users : <<shown, f>> \in mailed
    PROVE  RecoveryInv'
<1> DEFINE c == [id |-> accountIssued', op |-> op, email |-> e, shown |-> shown,
                 old |-> old, new |-> new, raced |-> FALSE, pc |-> pc]
<1>1. /\ accountCalls' = accountCalls \cup {c} /\ accountIssued' = accountIssued + 1
      /\ UNCHANGED <<users, password, otp, reset, mailed, opened, recovered>>
  BY DEF A!Start
<1>2. /\ IsCall(c) /\ c.id = accountIssued + 1 /\ c.op = op /\ c.email = e
      /\ c.shown = shown /\ c.pc = pc
  BY <1>1 DEF IsCall
<1> HIDE DEF c
<1> USE DEF RecoveryInv
<1>3. Numbered'
  BY <1>1, <1>2 DEF Numbered
<1>4. Kinds'
  BY <1>1, <1>2 DEF Kinds
<1>5. CodesAreAddressed'
  BY <1>1, <1>2 DEF Numbered, CodesAreAddressed, A!None
<1>6. TokensAreEarned'
  BY <1>1, <1>2 DEF TokensAreEarned, Earned
<1> QED BY <1>3, <1>4, <1>5, <1>6

\* Where a handler may stand, its request being one of those in flight.
Fits(d) ==
    /\ d.pc \in {"store", "mail", "withdraw"} => d.op = "otp"
    /\ d.pc = "user" => d.op \in {"otp", "verify", "recover"}
    /\ d.pc = "read" => d.op = "set"
    /\ d.pc = "code" => d.op = "verify"
    /\ d.pc \in {"spend", "open"} => <<d.shown, d.email>> \in mailed
    /\ d.op = "recover" /\ d.pc \in {"burn", "write"} => Earned(d.shown, d.email)

Follows(d) ==
    /\ IsCall(d) /\ Fits(d)
    /\ \E b \in accountCalls : d.id = b.id /\ d.op = b.op /\ d.email = b.email /\ d.shown = b.shown

LEMMA CallsFollow == RecoveryInv => \A d \in accountCalls : Follows(d)
BY DEF RecoveryInv, Kinds, TokensAreEarned, Follows, Fits

\* A handler moves on or ends, and so may others learn of a race; codes and
\* tokens may go, mails and tokens may be added to the histories.
LEMMA MoveKeeps ==
    ASSUME RecoveryInv, NEW c \in accountCalls, UNCHANGED accountIssued,
           mailed \subseteq mailed', mailed' \subseteq mailed \cup {<<c.id, c.email>>},
           opened \subseteq opened',
           otp' \in [Users -> Nat], reset' \in [Users -> Nat],
           \A e \in Users : otp'[e] \in {A!None, otp[e]} \/ (e = c.email /\ otp'[e] = c.id),
           \A e \in Users : \/ reset'[e] \in {A!None, reset[e]}
                            \/ \E o \in opened' : o[2] = reset'[e] /\ <<o[1], e>> \in mailed',
           \A d \in accountCalls' : Follows(d),
           \A d, d2 \in accountCalls' : d.id = d2.id => d = d2
    PROVE  RecoveryInv'
<1> USE DEF RecoveryInv
<1>1. \A d \in accountCalls' : \E b \in accountCalls :
         d.id = b.id /\ d.op = b.op /\ d.email = b.email /\ d.shown = b.shown
  BY DEF Follows
<1>2. Numbered'
  <2>1. \A d \in accountCalls' : d.id \in 1 .. accountIssued
    BY <1>1 DEF Numbered
  <2>2. \A m \in mailed' : m[1] \in 1 .. accountIssued
    BY DEF Numbered
  <2>3. \A e \in Users : otp'[e] \in 0 .. accountIssued
    BY DEF Numbered, A!None
  <2> QED BY <2>1, <2>2, <2>3 DEF Numbered
<1>3. Kinds'
  <2> SUFFICES ASSUME NEW d \in accountCalls'
               PROVE  /\ IsCall(d) /\ d.email \in Users
                      /\ d.pc \in {"store", "mail", "withdraw"} => d.op = "otp"
                      /\ d.pc = "user" => d.op \in {"otp", "verify", "recover"}
                      /\ d.pc = "read" => d.op = "set"
                      /\ d.pc = "code" => d.op = "verify"
                      /\ d.op = "verify" => \E e \in Users : <<d.shown, e>> \in mailed'
    BY DEF Kinds
  <2>1. PICK b \in accountCalls : d.op = b.op /\ d.email = b.email /\ d.shown = b.shown
    BY <1>1
  <2>2. d.email \in Users /\ (d.op = "verify" => \E e \in Users : <<d.shown, e>> \in mailed')
    BY <2>1 DEF Kinds
  <2> QED BY <2>2 DEF Follows, Fits
<1>4. CodesAreAddressed'
  <2>1. mailed' \subseteq Nat \X Users
    BY DEF CodesAreAddressed, Numbered, Kinds
  <2>2. ASSUME NEW d \in accountCalls, NEW f \in Users, <<d.id, f>> \in mailed'
        PROVE  f = d.email
    <3>1. CASE <<d.id, f>> \in mailed
      BY <3>1 DEF CodesAreAddressed
    <3>2. CASE <<d.id, f>> = <<c.id, c.email>>
      BY <3>2 DEF Numbered
    <3> QED BY <2>2, <3>1, <3>2
  <2>3. ASSUME NEW e \in Users, otp'[e] # A!None, NEW d \in accountCalls, d.id = otp'[e]
        PROVE  d.email = e
    <3>1. CASE otp'[e] = otp[e]
      BY <2>3, <3>1 DEF CodesAreAddressed
    <3>2. CASE e = c.email /\ otp'[e] = c.id
      BY <2>3, <3>2 DEF Numbered
    <3> QED BY <2>3, <3>1, <3>2
  <2>4. ASSUME NEW e \in Users, otp'[e] # A!None, NEW f \in Users, <<otp'[e], f>> \in mailed'
        PROVE  f = e
    <3>1. CASE e = c.email /\ otp'[e] = c.id
      BY <2>2, <2>4, <3>1
    <3>2. CASE otp'[e] = otp[e] /\ <<otp[e], f>> \in mailed
      BY <2>4, <3>2 DEF CodesAreAddressed
    <3>3. CASE otp'[e] = otp[e] /\ <<otp[e], f>> = <<c.id, c.email>>
      BY <2>4, <3>3 DEF CodesAreAddressed
    <3> QED BY <2>4, <3>1, <3>2, <3>3
  <2>5. \A d \in accountCalls', f \in Users : <<d.id, f>> \in mailed' => f = d.email
    BY <1>1, <2>2
  <2>6. \A e \in Users : otp'[e] # A!None => \A d \in accountCalls' : d.id = otp'[e] => d.email = e
    BY <1>1, <2>3
  <2> QED BY <2>1, <2>4, <2>5, <2>6 DEF CodesAreAddressed
<1>5. TokensAreEarned'
  <2>1. ASSUME NEW t, NEW e, Earned(t, e)
        PROVE  \E o \in opened' : o[2] = t /\ <<o[1], e>> \in mailed'
    BY <2>1 DEF Earned
  <2>2. \A d \in accountCalls' : d.pc \in {"spend", "open"} => <<d.shown, d.email>> \in mailed'
    BY DEF Follows, Fits
  <2>3. ASSUME NEW e \in Users, reset'[e] # A!None
        PROVE  \E o \in opened' : o[2] = reset'[e] /\ <<o[1], e>> \in mailed'
    BY <2>1, <2>3 DEF TokensAreEarned
  <2>4. ASSUME NEW d \in accountCalls', d.op = "recover", d.pc \in {"burn", "write"}
        PROVE  \E o \in opened' : o[2] = d.shown /\ <<o[1], d.email>> \in mailed'
    <3>1. Earned(d.shown, d.email)
      BY <2>4 DEF Follows, Fits
    <3> QED BY <2>1, <3>1
  <2> QED BY <2>2, <2>3, <2>4 DEF TokensAreEarned, Earned
<1> QED BY <1>2, <1>3, <1>4, <1>5

\* A handler ends.
LEMMA FinishKeeps ==
    ASSUME RecoveryInv, NEW c \in accountCalls, A!Finish(c), UNCHANGED accountIssued,
           mailed \subseteq mailed', mailed' \subseteq mailed \cup {<<c.id, c.email>>},
           opened \subseteq opened',
           otp' \in [Users -> Nat], reset' \in [Users -> Nat],
           \A e \in Users : otp'[e] \in {A!None, otp[e]},
           \A e \in Users : \/ reset'[e] \in {A!None, reset[e]}
                             \/ \E o \in opened' : o[2] = reset'[e] /\ <<o[1], e>> \in mailed'
    PROVE  RecoveryInv'
<1>1. accountCalls' \subseteq accountCalls
  BY DEF A!Finish
<1>2. \A d \in accountCalls' : Follows(d)
  BY <1>1, CallsFollow
<1>3. \A d, d2 \in accountCalls' : d.id = d2.id => d = d2
  BY <1>1 DEF RecoveryInv, Numbered
<1> QED BY <1>2, <1>3, MoveKeeps

\* A handler moves on to p.
LEMMA GoKeeps ==
    ASSUME RecoveryInv, NEW c \in accountCalls, NEW p, Fits([c EXCEPT !.pc = p]),
           A!Move(c, [c EXCEPT !.pc = p]) \/ A!MoveRacing(c, [c EXCEPT !.pc = p]),
           UNCHANGED <<accountIssued, mailed, opened>>,
           otp' \in [Users -> Nat], reset' \in [Users -> Nat],
           \A e \in Users : otp'[e] \in {A!None, otp[e]} \/ (e = c.email /\ otp'[e] = c.id),
           \A e \in Users : reset'[e] \in {A!None, reset[e]}
    PROVE  RecoveryInv'
<1> DEFINE c2 == [c EXCEPT !.pc = p]
           Raced(d) == [d EXCEPT !.raced = @ \/ (d.op = c.op /\ d.shown = c.shown
                                                 /\ d.pc \in {"spend", "open", "burn", "write"})]
<1>1. /\ IsCall(c2) /\ c2.id = c.id /\ c2.op = c.op /\ c2.email = c.email /\ c2.shown = c.shown
  BY DEF RecoveryInv, Kinds, IsCall
<1>2. \A d \in accountCalls : /\ IsCall(Raced(d)) /\ Raced(d).id = d.id /\ Raced(d).op = d.op
                       /\ Raced(d).email = d.email /\ Raced(d).shown = d.shown
                       /\ Raced(d).pc = d.pc
  <2> SUFFICES ASSUME NEW d \in accountCalls
               PROVE  /\ IsCall(Raced(d)) /\ Raced(d).id = d.id /\ Raced(d).op = d.op
                      /\ Raced(d).email = d.email /\ Raced(d).shown = d.shown
                      /\ Raced(d).pc = d.pc
    OBVIOUS
  <2>1. IsCall(d)
    BY DEF RecoveryInv, Kinds
  <2> QED BY <2>1 DEF IsCall
<1>3. \A d \in accountCalls' : \/ d = c2
                        \/ \E b \in accountCalls \ {c} : d = b \/ d = Raced(b)
  BY DEF A!Move, A!MoveRacing
<1>4. A!Move(c, c2) \/ accountCalls' = {Raced(b) : b \in accountCalls \ {c}} \cup {c2}
  BY DEF A!MoveRacing
<1>5. Fits(c2)
  OBVIOUS
<1> HIDE DEF c2, Raced
<1>6. \A d \in accountCalls' : Follows(d)
  <2>1. Follows(c2)
    BY <1>1, <1>5 DEF Follows
  <2>2. ASSUME NEW b \in accountCalls
        PROVE  Follows(b) /\ Follows(Raced(b))
    BY <1>2, CallsFollow DEF Follows, Fits
  <2> QED BY <1>3, <2>1, <2>2
<1>7. \A d, d2 \in accountCalls' : d.id = d2.id => d = d2
  <2>1. \A b, b2 \in accountCalls : b.id = b2.id => b = b2
    BY DEF RecoveryInv, Numbered
  <2>2. CASE A!Move(c, c2)
    BY <1>1, <2>1, <2>2 DEF A!Move
  <2>3. CASE accountCalls' = {Raced(b) : b \in accountCalls \ {c}} \cup {c2}
    BY <1>1, <1>2, <2>1, <2>3
  <2> QED BY <1>4, <2>2, <2>3
<1>8. mailed \subseteq mailed' /\ mailed' \subseteq mailed \cup {<<c.id, c.email>>} /\ opened \subseteq opened'
  OBVIOUS
<1> QED BY <1>6, <1>7, <1>8, MoveKeeps

-----------------------------------------------------------------------------
(* Every step keeps the invariant. *)

LEMMA ComesKeeps ==
    ASSUME RecoveryInv, NEW e \in Users,
           \/ \E p \in Passwords : A!StartRegister(e, p)
           \/ A!StartAdminCreate(e) \/ A!StartSendOtp(e)
           \/ \E m \in mailed : A!StartVerifyOtp(e, m[1])
           \/ \E p \in Passwords, o \in opened : A!StartRecover(e, o[2], p)
           \/ \E p \in Passwords, old \in Passwords \cup {u[1] : u \in users} : A!StartSetPassword(e, old, p)
    PROVE  RecoveryInv'
<1>1. CASE (\E p \in Passwords : A!StartRegister(e, p)) \/ A!StartAdminCreate(e) \/ A!StartSendOtp(e)
  BY <1>1, StartKeeps DEF A!StartRegister, A!StartAdminCreate, A!StartSendOtp
<1>2. ASSUME NEW m \in mailed, A!StartVerifyOtp(e, m[1])
      PROVE  RecoveryInv'
  <2>1. \E f \in Users : <<m[1], f>> \in mailed
    BY DEF RecoveryInv, CodesAreAddressed
  <2> QED BY <1>2, <2>1, StartKeeps DEF A!StartVerifyOtp
<1>3. ASSUME NEW p, NEW o, A!StartRecover(e, o[2], p)
      PROVE  RecoveryInv'
  BY <1>3, StartKeeps DEF A!StartRecover
<1>4. ASSUME NEW p, NEW old, A!StartSetPassword(e, old, p)
      PROVE  RecoveryInv'
  BY <1>4, StartKeeps DEF A!StartSetPassword
<1> QED BY <1>1, <1>2, <1>3, <1>4

\* Where a handler that is at one place may go.
LEMMA Places ==
    ASSUME RecoveryInv, NEW c \in accountCalls, NEW p
    PROVE  LET d == [c EXCEPT !.pc = p]
           IN  /\ p \in {"insert", "token"} => Fits(d)
               /\ p = "code" /\ c.op = "verify" => Fits(d)
               /\ p \in {"store", "mail", "withdraw"} /\ c.op = "otp" => Fits(d)
               /\ p \in {"spend", "open"} /\ <<c.shown, c.email>> \in mailed => Fits(d)
               /\ p \in {"burn", "write"} /\ (c.op = "recover" => Earned(c.shown, c.email)) => Fits(d)
<1>1. IsCall(c)
  BY DEF RecoveryInv, Kinds
<1> DEFINE d == [c EXCEPT !.pc = p]
<1>2. d.pc = p /\ d.op = c.op /\ d.email = c.email /\ d.shown = c.shown
  BY <1>1 DEF IsCall
<1> HIDE DEF d
<1>3. /\ p \in {"insert", "token"} => Fits(d)
      /\ p = "code" /\ c.op = "verify" => Fits(d)
      /\ p \in {"store", "mail", "withdraw"} /\ c.op = "otp" => Fits(d)
      /\ p \in {"spend", "open"} /\ <<c.shown, c.email>> \in mailed => Fits(d)
      /\ p \in {"burn", "write"} /\ (c.op = "recover" => Earned(c.shown, c.email)) => Fits(d)
  BY <1>2 DEF Fits
<1> QED BY <1>3 DEF d

LEMMA CallKeeps ==
    ASSUME RecoveryInv, NEW c \in accountCalls,
           \/ A!CheckUserExistsByEmail(c) \/ A!AddUser(c) \/ A!GetUserByEmail(c)
           \/ A!StoreOtp(c) \/ A!MailOtp(c) \/ A!WithdrawOtp(c) \/ A!VerifyOtp(c)
           \/ A!RecoverPassword(c) \/ A!ComparePassword(c) \/ A!UpdatePassword(c) \/ A!Fail(c)
    PROVE  RecoveryInv'
<1>1. otp \in [Users -> Nat] /\ reset \in [Users -> Nat] /\ c.id \in Nat
  BY DEF RecoveryInv, Numbered
<1>2. c.email \in Users
  BY DEF RecoveryInv, Kinds
<1>3. ASSUME A!Finish(c), UNCHANGED <<otp, reset, accountIssued, mailed, opened>>
      PROVE  RecoveryInv'
  BY <1>1, <1>3, FinishKeeps
<1>4. ASSUME NEW p, Fits([c EXCEPT !.pc = p]), A!Move(c, [c EXCEPT !.pc = p]),
             UNCHANGED <<otp, reset, accountIssued, mailed, opened>>
      PROVE  RecoveryInv'
  BY <1>1, <1>4, GoKeeps
<1>5. CASE A!CheckUserExistsByEmail(c)
  BY <1>3, <1>4, <1>5, Places DEF A!CheckUserExistsByEmail
<1>6. CASE A!AddUser(c)
  BY <1>3, <1>6 DEF A!AddUser
<1>7. CASE A!GetUserByEmail(c)
  <2>1. c.op \in {"otp", "verify", "recover"}
    BY <1>7 DEF RecoveryInv, Kinds, A!GetUserByEmail
  <2>2. CASE c.op = "otp"
    BY <1>3, <1>4, <1>7, <2>2, Places DEF A!GetUserByEmail
  <2>3. CASE c.op = "verify"
    BY <1>3, <1>4, <1>7, <2>3, Places DEF A!GetUserByEmail
  <2>4. CASE c.op = "recover"
    BY <1>3, <1>4, <1>7, <2>4, Places DEF A!GetUserByEmail
  <2> QED BY <2>1, <2>2, <2>3, <2>4
<1>8. CASE A!StoreOtp(c)
  <2>1. c.op = "otp"
    BY <1>8 DEF RecoveryInv, Kinds, A!StoreOtp
  <2>2. Fits([c EXCEPT !.pc = "mail"])
    BY <2>1, Places
  <2>3. otp' \in [Users -> Nat] /\ \A e \in Users : otp'[e] = otp[e] \/ (e = c.email /\ otp'[e] = c.id)
    BY <1>1, <1>8 DEF A!StoreOtp
  <2>4. A!Move(c, [c EXCEPT !.pc = "mail"]) /\ UNCHANGED <<reset, accountIssued, mailed, opened>>
    BY <1>8 DEF A!StoreOtp
  <2> QED BY <1>1, <2>2, <2>3, <2>4, GoKeeps
<1>9. CASE A!MailOtp(c)
  <2>1. c.op = "otp"
    BY <1>9 DEF RecoveryInv, Kinds, A!MailOtp
  <2>2. CASE mailed' = mailed \cup {<<c.id, c.email>>} /\ A!Finish(c)
    BY <1>1, <1>9, <2>2, FinishKeeps DEF A!MailOtp
  <2>3. CASE A!Move(c, [c EXCEPT !.pc = "withdraw"]) /\ UNCHANGED mailed
    BY <1>4, <1>9, <2>1, <2>3, Places DEF A!MailOtp
  <2> QED BY <1>9, <2>2, <2>3 DEF A!MailOtp
<1>10. CASE A!WithdrawOtp(c)
  <2>1. otp' \in [Users -> Nat] /\ \A e \in Users : otp'[e] \in {A!None, otp[e]}
    BY <1>1, <1>10 DEF A!WithdrawOtp, A!None
  <2>2. A!Finish(c) /\ UNCHANGED <<reset, accountIssued, mailed, opened>>
    BY <1>10 DEF A!WithdrawOtp
  <2> QED BY <1>1, <2>1, <2>2, FinishKeeps
<1>11. CASE A!VerifyOtp(c)
  <2>1. CASE A!CompareOtp(c) /\ A!CodeFits(c)
    <3>1. <<c.shown, c.email>> \in mailed
      BY <1>2, <2>1
      DEF A!CompareOtp, A!CodeFits, RecoveryInv, Kinds, CodesAreAddressed
    <3> QED BY <1>4, <2>1, <3>1, Places DEF A!CompareOtp
  <2>2. CASE A!CompareOtp(c) /\ ~A!CodeFits(c)
    BY <1>3, <2>2 DEF A!CompareOtp
  <2>3. CASE A!DeleteOtp(c)
    <3>1. <<c.shown, c.email>> \in mailed
      BY <2>3 DEF A!DeleteOtp, RecoveryInv, TokensAreEarned
    <3>2. Fits([c EXCEPT !.pc = "open"])
      BY <3>1, Places
    <3>3. otp' \in [Users -> Nat] /\ \A e \in Users : otp'[e] \in {A!None, otp[e]}
      BY <1>1, <2>3 DEF A!DeleteOtp, A!None
    <3>4. A!MoveRacing(c, [c EXCEPT !.pc = "open"]) /\ UNCHANGED <<reset, accountIssued, mailed, opened>>
      BY <2>3 DEF A!DeleteOtp
    <3> QED BY <1>1, <3>2, <3>3, <3>4, GoKeeps
  <2>4. CASE A!StoreResetToken(c)
    <3>1. <<c.shown, c.email>> \in mailed
      BY <2>4 DEF A!StoreResetToken, RecoveryInv, TokensAreEarned
    <3>2. reset' \in [Users -> Nat] /\ <<c.shown, c.id>> \in opened'
      BY <1>1, <2>4 DEF A!StoreResetToken
    <3>3. \A e \in Users : \/ reset'[e] \in {A!None, reset[e]}
                            \/ \E o \in opened' : o[2] = reset'[e] /\ <<o[1], e>> \in mailed'
      <4> SUFFICES ASSUME NEW e \in Users, reset'[e] # reset[e]
                   PROVE  \E o \in opened' : o[2] = reset'[e] /\ <<o[1], e>> \in mailed'
        OBVIOUS
      <4>1. e = c.email /\ reset'[e] = c.id /\ mailed' = mailed
        BY <1>1, <1>2, <2>4 DEF A!StoreResetToken
      <4> QED BY <3>1, <3>2, <4>1
    <3>4. A!Finish(c) /\ UNCHANGED <<otp, accountIssued, mailed>> /\ opened \subseteq opened'
      BY <2>4 DEF A!StoreResetToken
    <3> QED BY <1>1, <3>2, <3>3, <3>4, FinishKeeps
  <2> QED BY <1>11, <2>1, <2>2, <2>3, <2>4 DEF A!VerifyOtp
<1>12. CASE A!RecoverPassword(c)
  <2>1. CASE A!CompareResetToken(c) /\ A!TokenFits(c)
    <3>1. Earned(c.shown, c.email)
      BY <1>2, <2>1 DEF A!TokenFits, RecoveryInv, TokensAreEarned
    <3> QED BY <1>4, <2>1, <3>1, Places DEF A!CompareResetToken
  <2>2. CASE A!CompareResetToken(c) /\ ~A!TokenFits(c)
    BY <1>3, <2>2 DEF A!CompareResetToken
  <2>3. CASE A!DeleteResetToken(c)
    <3>1. c.op = "recover" => Earned(c.shown, c.email)
      BY <2>3 DEF A!DeleteResetToken, RecoveryInv, TokensAreEarned
    <3>2. Fits([c EXCEPT !.pc = "write"])
      BY <3>1, Places
    <3>3. reset' \in [Users -> Nat] /\ \A e \in Users : reset'[e] \in {A!None, reset[e]}
      BY <1>1, <2>3 DEF A!DeleteResetToken, A!ResetSpent, A!None
    <3>4. A!MoveRacing(c, [c EXCEPT !.pc = "write"]) /\ UNCHANGED <<otp, accountIssued, mailed, opened>>
      BY <2>3 DEF A!DeleteResetToken
    <3> QED BY <1>1, <3>2, <3>3, <3>4, GoKeeps
  <2> QED BY <1>12, <2>1, <2>2, <2>3 DEF A!RecoverPassword
<1>13. CASE A!ComparePassword(c)
  <2>1. c.op # "recover"
    BY <1>13 DEF A!ComparePassword, RecoveryInv, Kinds
  <2> QED BY <1>3, <1>4, <1>13, <2>1, Places DEF A!ComparePassword
<1>14. CASE A!UpdatePassword(c) \/ A!Fail(c)
  BY <1>3, <1>14 DEF A!UpdatePassword, A!Fail
<1> QED BY <1>5, <1>6, <1>7, <1>8, <1>9, <1>10, <1>11, <1>12, <1>13, <1>14

LEMMA ExpireKeeps ==
    ASSUME RecoveryInv, NEW e \in Users, A!Expire(e)
    PROVE  RecoveryInv'
<1>1. /\ UNCHANGED <<accountCalls, accountIssued, mailed, opened>>
      /\ otp' \in [Users -> Nat] /\ reset' \in [Users -> Nat]
      /\ \A f \in Users : otp'[f] \in {A!None, otp[f]} /\ reset'[f] \in {A!None, reset[f]}
  BY DEF A!Expire, RecoveryInv, Numbered, A!None
<1> USE <1>1 DEF RecoveryInv
<1>2. Numbered'
  BY DEF Numbered, A!None
<1>3. Kinds'
  BY DEF Kinds
<1>4. CodesAreAddressed'
  BY DEF CodesAreAddressed
<1>5. TokensAreEarned'
  BY DEF TokensAreEarned, Earned
<1> QED BY <1>2, <1>3, <1>4, <1>5

LEMMA NextRecovery == RecoveryInv /\ [A!Next]_(A!vars) => RecoveryInv'
<1> SUFFICES ASSUME RecoveryInv, [A!Next]_(A!vars) PROVE RecoveryInv'
  OBVIOUS
<1>1. CASE UNCHANGED A!vars
  BY <1>1 DEF A!vars, RecoveryInv, Numbered, Kinds, CodesAreAddressed, TokensAreEarned, Earned
<1> QED BY <1>1, ComesKeeps, CallKeeps, ExpireKeeps DEF A!Next

-----------------------------------------------------------------------------
(* Codes and tokens are spent once, but for a race.                        *)
(*                                                                         *)
(* A code or a token that a handler has deleted is never in the cache      *)
(* again, since nobody makes it up twice; so who still goes on with it has *)
(* compared it before it was deleted, and was marked then (MoveRacing).    *)

CodeGone(k) ==
    \/ \E d \in accountCalls : d.pc = "open" /\ d.shown = k
    \/ \E o \in opened : o[1] = k

TokenGone(k) ==
    \/ \E d \in accountCalls : d.op = "recover" /\ d.pc = "write" /\ d.shown = k
    \/ \E r \in recovered : r[1] = k

\* Who has delivered a code or given out a token is through, and what clients
\* send was delivered or given out.
HistoryIsPast ==
    /\ \A c \in accountCalls :
        /\ c.pc \in {"spend", "open"} => c.op = "verify"
        /\ c.pc \in {"token", "burn"} => c.op = "recover"
        /\ c.op = "recover" => \E o \in opened : o[2] = c.shown
        /\ \A m \in mailed : m[1] # c.id
        /\ \A o \in opened : o[2] # c.id
    /\ \A o \in opened : /\ \E e \in Users : <<o[1], e>> \in mailed
                         /\ o[2] \in 1 .. accountIssued
    /\ \A r \in recovered : \E o \in opened : o[2] = r[1]
    /\ \A m, n \in mailed : m[1] = n[1] => m[2] = n[2]
    /\ \A o, p \in opened : o[2] = p[2] => o[1] = p[1]

GoneForGood ==
    \A e \in Users : /\ otp[e] # A!None => ~CodeGone(otp[e])
                     /\ reset[e] # A!None => ~TokenGone(reset[e])

LateAreRaced ==
    \A c \in accountCalls :
        /\ /\ c.pc \in {"spend", "open"}
           /\ \/ \E d \in accountCalls \ {c} : d.pc = "open" /\ d.shown = c.shown
              \/ \E o \in opened : o[1] = c.shown
           => c.raced
        /\ /\ c.op = "recover" /\ c.pc \in {"burn", "write"}
           /\ \/ \E d \in accountCalls \ {c} :
                    d.op = "recover" /\ d.pc = "write" /\ d.shown = c.shown
              \/ \E r \in recovered : r[1] = c.shown
           => c.raced

SpendInv == HistoryIsPast /\ GoneForGood /\ LateAreRaced

LEMMA InitSpend == A!Init => SpendInv
BY DEF A!Init, SpendInv, HistoryIsPast, GoneForGood, LateAreRaced

LEMMA StartSpends ==
    ASSUME RecoveryInv, SpendInv, NEW op, NEW e \in Users, NEW shown, NEW old, NEW new, NEW pc,
           A!Start(op, e, shown, old, new, pc), pc \in {"check", "user", "read"},
           op = "recover" => \E o \in opened : o[2] = shown
    PROVE  SpendInv'
<1> DEFINE c == [id |-> accountIssued', op |-> op, email |-> e, shown |-> shown,
                 old |-> old, new |-> new, raced |-> FALSE, pc |-> pc]
<1>1. /\ accountCalls' = accountCalls \cup {c} /\ accountIssued' = accountIssued + 1
      /\ UNCHANGED <<users, password, otp, reset, mailed, opened, recovered>>
  BY DEF A!Start
<1>2. c.id = accountIssued + 1 /\ c.op = op /\ c.shown = shown /\ c.pc = pc
  BY <1>1
<1> HIDE DEF c
<1>3. /\ \A m \in mailed : m[1] # c.id
      /\ \A o \in opened : o[2] # c.id /\ o[2] \in 1 .. accountIssued'
  BY <1>1, <1>2 DEF RecoveryInv, Numbered, SpendInv, HistoryIsPast
<1>4. HistoryIsPast'
  BY <1>1, <1>2, <1>3 DEF SpendInv, HistoryIsPast
<1>5. GoneForGood'
  BY <1>1, <1>2 DEF SpendInv, GoneForGood, CodeGone, TokenGone
<1>6. LateAreRaced'
  BY <1>1, <1>2 DEF SpendInv, LateAreRaced
<1> QED BY <1>4, <1>5, <1>6 DEF SpendInv

Heir(d, b) ==
    d.id = b.id /\ d.op = b.op /\ d.email = b.email /\ d.shown = b.shown /\ (b.raced => d.raced)

Gone(c) == \A d \in accountCalls' : d.id # c.id

\* The others that have compared what c deletes learn of it.
Marks(c, places) ==
    \A d \in accountCalls' :
        d.id # c.id /\ d.op = c.op /\ d.shown = c.shown /\ d.pc \in places => d.raced

\* Where c may stand after a step of its own.
Onward(c, d) ==
    /\ d.pc = "spend" => c.op = "verify" /\ \E e \in Users : otp[e] # A!None /\ otp[e] = c.shown
    /\ d.pc = "open" => c.pc = "spend" /\ otp'[c.email] = A!None /\ Marks(c, {"spend", "open"})
    /\ d.pc = "token" => c.op = "recover"
    /\ d.pc = "burn" => c.op = "recover" /\ \E e \in Users : reset[e] # A!None /\ reset[e] = c.shown
    /\ d.pc = "write" /\ c.op = "recover" =>
         c.pc = "burn" /\ reset'[c.email] = A!None /\ Marks(c, {"burn", "write"})

\* What a step of c adds.
Adds(c) ==
    /\ mailed' = mailed \/ (Gone(c) /\ mailed' = mailed \cup {<<c.id, c.email>>})
    /\ opened' = opened \/ (Gone(c) /\ c.pc = "open" /\ opened' = opened \cup {<<c.shown, c.id>>})
    /\ \/ recovered' = recovered
       \/ /\ Gone(c) /\ c.op = "recover" /\ c.pc = "write"
          /\ recovered' = recovered \cup {<<c.shown, c.id>>}
    /\ \A e \in Users : otp'[e] \in {A!None, otp[e], c.id}
    /\ \A e \in Users : reset'[e] \in {A!None, reset[e]} \/ (c.pc = "open" /\ reset'[e] = c.id)

LEMMA SpendKeeps ==
    ASSUME RecoveryInv, SpendInv, NEW c \in accountCalls, UNCHANGED accountIssued,
           \A d \in accountCalls' : \E b \in accountCalls : Heir(d, b) /\ (b = c \/ d.pc = b.pc),
           \A d \in accountCalls' : d.id = c.id => Onward(c, d),
           \A d, d2 \in accountCalls' : d.id = d2.id => d = d2,
           Adds(c)
    PROVE  SpendInv'
<1> USE DEF SpendInv
<1>n. \A b, b2 \in accountCalls : b.id = b2.id => b = b2
  BY DEF RecoveryInv, Numbered
<1>v. \A b \in accountCalls : b.op = "verify" => \E e \in Users : <<b.shown, e>> \in mailed
  BY DEF RecoveryInv, Kinds
<1>m. \A m \in mailed : m[1] # c.id
  BY DEF HistoryIsPast
<1>k. \A k, e : <<k, e>> \in mailed => k # c.id
  BY <1>m
<1>r. \A e \in Users : otp'[e] \in {A!None, otp[e], c.id}
  BY DEF Adds
<1>o. \A o \in opened : o[2] # c.id
  BY DEF HistoryIsPast
<1>0. c.pc \in {"spend", "open"} => c.op = "verify"
  BY DEF HistoryIsPast
\* A handler that stands somewhere after the step.
<1>h. ASSUME NEW d \in accountCalls'
      PROVE  \/ d.id = c.id /\ Heir(d, c) /\ Onward(c, d)
             \/ \E b \in accountCalls \ {c} : d.id # c.id /\ Heir(d, b) /\ d.pc = b.pc
  <2>1. PICK b \in accountCalls : Heir(d, b) /\ (b = c \/ d.pc = b.pc)
    OBVIOUS
  <2>2. d.id = c.id <=> b = c
    BY <1>n, <2>1 DEF Heir
  <2> QED BY <2>1, <2>2
<1>1. HistoryIsPast'
  <2>1. ASSUME NEW d \in accountCalls'
        PROVE  /\ d.pc \in {"spend", "open"} => d.op = "verify"
               /\ d.pc \in {"token", "burn"} => d.op = "recover"
    BY <1>h, <1>0 DEF HistoryIsPast, Heir, Onward
  <2>2. ASSUME NEW d \in accountCalls', d.op = "recover"
        PROVE  \E o \in opened' : o[2] = d.shown
    BY <1>h, <2>2 DEF HistoryIsPast, Heir, Adds
  <2>3. ASSUME NEW d \in accountCalls', NEW m \in mailed' PROVE m[1] # d.id
    <3>1. CASE m \in mailed
      BY <1>h, <3>1 DEF HistoryIsPast, Heir
    <3>2. CASE m \notin mailed
      BY <3>2 DEF Adds, Gone
    <3> QED BY <3>1, <3>2
  <2>4. ASSUME NEW d \in accountCalls', NEW o \in opened' PROVE o[2] # d.id
    <3>1. CASE o \in opened
      BY <1>h, <3>1 DEF HistoryIsPast, Heir
    <3>2. CASE o \notin opened
      BY <3>2 DEF Adds, Gone
    <3> QED BY <3>1, <3>2
  <2>5. ASSUME NEW o \in opened'
        PROVE  (\E e \in Users : <<o[1], e>> \in mailed') /\ o[2] \in 1 .. accountIssued
    <3>1. CASE o \in opened
      BY <3>1 DEF HistoryIsPast, Adds
    <3>2. CASE o \notin opened
      <4>1. o[1] = c.shown /\ o[2] = c.id /\ c.op = "verify" /\ mailed \subseteq mailed'
        BY <1>0, <3>2 DEF Adds
      <4>2. c.id \in 1 .. accountIssued
        BY DEF RecoveryInv, Numbered
      <4> QED BY <1>v, <4>1, <4>2
    <3> QED BY <3>1, <3>2
  <2>6. ASSUME NEW r \in recovered' PROVE \E o \in opened' : o[2] = r[1]
    <3>1. opened \subseteq opened'
      BY DEF Adds
    <3>2. CASE r \in recovered
      BY <3>1, <3>2 DEF HistoryIsPast
    <3>3. CASE r \notin recovered
      <4>1. r[1] = c.shown /\ c.op = "recover"
        BY <3>3 DEF Adds
      <4> QED BY <3>1, <4>1 DEF HistoryIsPast
    <3> QED BY <3>2, <3>3
  <2>7. \A m, n \in mailed' : m[1] = n[1] => m[2] = n[2]
    BY <1>m DEF HistoryIsPast, Adds
  <2>8. \A o, p \in opened' : o[2] = p[2] => o[1] = p[1]
    BY <1>o DEF HistoryIsPast, Adds
  <2> QED BY <2>1, <2>2, <2>3, <2>4, <2>5, <2>6, <2>7, <2>8 DEF HistoryIsPast
<1>2. GoneForGood'
  <2>1. ASSUME NEW e \in Users, otp'[e] # A!None, NEW d \in accountCalls', d.pc = "open",
               d.shown = otp'[e]
        PROVE  FALSE
    <3>1. CASE d.id = c.id
      <4>1. Heir(d, c) /\ c.pc = "spend" /\ otp'[c.email] = A!None
        BY <1>h, <2>1, <3>1 DEF Onward, Heir
      <4>2. <<c.shown, c.email>> \in mailed
        BY <4>1 DEF RecoveryInv, TokensAreEarned
      <4>3. otp'[e] = otp[e] /\ c.shown = otp[e]
        <5>1. otp'[e] = c.shown /\ c.shown # c.id
          BY <1>k, <2>1, <4>1, <4>2 DEF Heir
        <5> QED BY <1>r, <2>1, <5>1
      <4>4. c.email = e
        <5>1. c.email \in Users
          BY DEF RecoveryInv, Kinds
        <5>2. otp[e] # A!None /\ <<otp[e], c.email>> \in mailed
          BY <2>1, <4>2, <4>3
        <5> QED BY <5>1, <5>2 DEF RecoveryInv, CodesAreAddressed
      <4> QED BY <2>1, <4>1, <4>4
    <3>2. CASE d.id # c.id
      <4>1. PICK b \in accountCalls \ {c} : Heir(d, b) /\ b.pc = "open"
        BY <1>h, <2>1, <3>2
      <4>2. \E f \in Users : <<b.shown, f>> \in mailed
        BY <1>v, <4>1 DEF HistoryIsPast
      <4>3. otp'[e] = otp[e] /\ b.shown = otp[e]
        <5>1. otp'[e] = b.shown /\ b.shown # c.id
          BY <1>k, <2>1, <4>1, <4>2 DEF Heir
        <5> QED BY <1>r, <2>1, <5>1
      <4>4. CodeGone(otp[e])
        BY <4>1, <4>3 DEF CodeGone
      <4> QED BY <2>1, <4>3, <4>4 DEF GoneForGood
    <3> QED BY <3>1, <3>2
  <2>2. ASSUME NEW e \in Users, otp'[e] # A!None, NEW o \in opened', o[1] = otp'[e]
        PROVE  FALSE
    <3>1. \E f \in Users : <<o[1], f>> \in mailed
      <4>1. CASE o \in opened
        BY <4>1 DEF HistoryIsPast
      <4>2. CASE o \notin opened
        <5>1. o[1] = c.shown /\ c.pc = "open"
          BY <4>2 DEF Adds
        <5>2. c \in accountCalls /\ c.op = "verify"
          BY <1>0, <5>1
        <5> QED BY <1>v, <5>1, <5>2
      <4> QED BY <4>1, <4>2
    <3>2. otp'[e] = otp[e]
      BY <1>k, <1>r, <2>2, <3>1
    <3>3. CASE o \in opened
      BY <2>2, <3>2, <3>3 DEF GoneForGood, CodeGone
    <3>4. CASE o \notin opened
      <4>1. o[1] = c.shown /\ c.pc = "open"
        BY <3>4 DEF Adds
      <4> QED BY <2>2, <3>2, <4>1 DEF GoneForGood, CodeGone
    <3> QED BY <3>3, <3>4
  <2>3. ASSUME NEW e \in Users, reset'[e] # A!None, NEW d \in accountCalls', d.op = "recover",
               d.pc = "write", d.shown = reset'[e]
        PROVE  FALSE
    <3>0. \E o \in opened : o[2] = d.shown
      BY <1>h, <2>3 DEF HistoryIsPast, Heir
    <3>r. reset'[e] = reset[e]
      BY <1>o, <2>3, <3>0 DEF Adds
    <3>1. CASE d.id = c.id
      <4>1. Heir(d, c) /\ c.op = "recover" /\ c.pc = "burn" /\ reset'[c.email] = A!None
        BY <1>h, <2>3, <3>1 DEF Onward, Heir
      <4>2. Earned(c.shown, c.email) /\ Earned(reset[e], e) /\ c.shown = reset[e]
        BY <2>3, <3>r, <4>1 DEF RecoveryInv, TokensAreEarned, Heir
      <4>3. PICK o, p \in opened :
               /\ o[2] = c.shown /\ <<o[1], c.email>> \in mailed
               /\ p[2] = c.shown /\ <<p[1], e>> \in mailed
        BY <4>2 DEF Earned
      <4>4. o[1] = p[1]
        BY <4>3 DEF HistoryIsPast
      <4>5. \A m, n \in mailed : m[1] = n[1] => m[2] = n[2]
        BY DEF HistoryIsPast
      <4>6. c.email = e
        BY <4>3, <4>4, <4>5
      <4> QED BY <2>3, <4>1, <4>6
    <3>2. CASE d.id # c.id
      <4>1. PICK b \in accountCalls \ {c} : Heir(d, b) /\ b.pc = "write"
        BY <1>h, <2>3, <3>2
      <4> QED BY <2>3, <3>r, <4>1 DEF GoneForGood, TokenGone, Heir
    <3> QED BY <3>1, <3>2
  <2>4. ASSUME NEW e \in Users, reset'[e] # A!None, NEW r \in recovered', r[1] = reset'[e]
        PROVE  FALSE
    <3>1. \E o \in opened : o[2] = r[1]
      <4>1. CASE r \in recovered
        BY <4>1 DEF HistoryIsPast
      <4>2. CASE r \notin recovered
        <5>1. r[1] = c.shown /\ c.op = "recover"
          BY <4>2 DEF Adds
        <5> QED BY <5>1 DEF HistoryIsPast
      <4> QED BY <4>1, <4>2
    <3>2. reset'[e] = reset[e]
      BY <1>o, <2>4, <3>1 DEF Adds
    <3>3. CASE r \in recovered
      BY <2>4, <3>2, <3>3 DEF GoneForGood, TokenGone
    <3>4. CASE r \notin recovered
      <4>1. r[1] = c.shown /\ c.op = "recover" /\ c.pc = "write"
        BY <3>4 DEF Adds
      <4> QED BY <2>4, <3>2, <4>1 DEF GoneForGood, TokenGone
    <3> QED BY <3>3, <3>4
  <2> QED BY <2>1, <2>2, <2>3, <2>4 DEF GoneForGood, CodeGone, TokenGone
<1>3. LateAreRaced'
  <2>1. ASSUME NEW d \in accountCalls', d.pc \in {"spend", "open"},
               \/ \E f \in accountCalls' \ {d} : f.pc = "open" /\ f.shown = d.shown
               \/ \E o \in opened' : o[1] = d.shown
        PROVE  d.raced
    <3>1. CASE d.id = c.id
      <4>1. Heir(d, c) /\ Onward(c, d) /\ opened' = opened
        BY <1>h, <3>1 DEF Adds, Gone
      <4>2. ASSUME NEW f \in accountCalls' \ {d}, f.pc = "open"
            PROVE  \E b \in accountCalls \ {c} : b.pc = "open" /\ b.shown = f.shown
        <5>1. f.id # c.id
          BY <3>1
        <5> QED BY <1>h, <4>2, <5>1 DEF Heir
      <4>3. CASE d.pc = "spend"
        BY <2>1, <4>1, <4>2, <4>3 DEF Onward, GoneForGood, CodeGone, Heir
      <4>4. CASE d.pc = "open"
        <5>1. c.pc = "spend"
          BY <4>1, <4>4 DEF Onward
        <5>2. c.raced
          BY <2>1, <4>1, <4>2, <5>1 DEF LateAreRaced, Heir
        <5> QED BY <4>1, <5>2 DEF Heir
      <4> QED BY <2>1, <4>3, <4>4
    <3>2. CASE d.id # c.id
      <4>1. PICK b \in accountCalls \ {c} : Heir(d, b) /\ d.pc = b.pc
        BY <1>h, <3>2
      <4>2. b.op = "verify" /\ b.id = d.id
        BY <2>1, <4>1 DEF HistoryIsPast, Heir
      <4>3. ASSUME NEW f \in accountCalls' \ {d}, f.pc = "open", f.shown = d.shown
            PROVE  d.raced
        <5>1. CASE f.id = c.id
          <6>1. Heir(f, c) /\ c.pc = "spend" /\ Marks(c, {"spend", "open"})
            BY <1>h, <4>3, <5>1 DEF Onward
          <6>2. c.op = "verify" /\ d.op = c.op /\ d.shown = c.shown
            BY <1>0, <4>1, <4>2, <4>3, <6>1 DEF Heir
          <6> QED BY <2>1, <3>2, <6>1, <6>2 DEF Marks
        <5>2. CASE f.id # c.id
          <6>1. PICK g \in accountCalls \ {c} : Heir(f, g) /\ g.pc = "open"
            BY <1>h, <4>3, <5>2
          <6>2. g # b /\ g.shown = b.shown
            BY <4>1, <4>3, <6>1 DEF Heir
          <6>3. b.raced
            BY <2>1, <4>1, <6>1, <6>2 DEF LateAreRaced
          <6> QED BY <4>1, <6>3 DEF Heir
        <5> QED BY <5>1, <5>2
      <4>4. ASSUME NEW o \in opened', o[1] = d.shown PROVE d.raced
        <5>1. o \in opened \/ (c.pc = "open" /\ c.shown = o[1])
          BY DEF Adds
        <5>2. b.raced
          BY <2>1, <4>1, <4>4, <5>1 DEF LateAreRaced, Heir
        <5> QED BY <4>1, <5>2 DEF Heir
      <4> QED BY <2>1, <4>3, <4>4
    <3> QED BY <3>1, <3>2
  <2>2. ASSUME NEW d \in accountCalls', d.op = "recover", d.pc \in {"burn", "write"},
               \/ \E f \in accountCalls' \ {d} :
                    f.op = "recover" /\ f.pc = "write" /\ f.shown = d.shown
               \/ \E r \in recovered' : r[1] = d.shown
        PROVE  d.raced
    <3>1. CASE d.id = c.id
      <4>1. Heir(d, c) /\ Onward(c, d) /\ recovered' = recovered /\ c.op = "recover"
        BY <1>h, <2>2, <3>1 DEF Adds, Gone, Heir
      <4>2. ASSUME NEW f \in accountCalls' \ {d}, f.op = "recover", f.pc = "write"
            PROVE  \E b \in accountCalls \ {c} :
                      b.op = "recover" /\ b.pc = "write" /\ b.shown = f.shown
        <5>1. f.id # c.id
          BY <3>1
        <5> QED BY <1>h, <4>2, <5>1 DEF Heir
      <4>3. CASE d.pc = "burn"
        BY <2>2, <4>1, <4>2, <4>3 DEF Onward, GoneForGood, TokenGone, Heir
      <4>4. CASE d.pc = "write"
        <5>1. c.pc = "burn"
          BY <4>1, <4>4 DEF Onward
        <5>2. c.raced
          BY <2>2, <4>1, <4>2, <5>1 DEF LateAreRaced, Heir
        <5> QED BY <4>1, <5>2 DEF Heir
      <4> QED BY <2>2, <4>3, <4>4
    <3>2. CASE d.id # c.id
      <4>1. PICK b \in accountCalls \ {c} : Heir(d, b) /\ d.pc = b.pc
        BY <1>h, <3>2
      <4>2. b.op = "recover" /\ b.id = d.id
        BY <2>2, <4>1 DEF Heir
      <4>3. ASSUME NEW f \in accountCalls' \ {d}, f.op = "recover", f.pc = "write",
                   f.shown = d.shown
            PROVE  d.raced
        <5>1. CASE f.id = c.id
          <6>1. Heir(f, c) /\ c.op = "recover" /\ Marks(c, {"burn", "write"})
            BY <1>h, <4>3, <5>1 DEF Onward, Heir
          <6>2. d.op = c.op /\ d.shown = c.shown
            BY <2>2, <4>3, <6>1 DEF Heir
          <6> QED BY <2>2, <3>2, <6>1, <6>2 DEF Marks
        <5>2. CASE f.id # c.id
          <6>1. PICK g \in accountCalls \ {c} : Heir(f, g) /\ g.pc = "write"
            BY <1>h, <4>3, <5>2
          <6>2. g # b /\ g.shown = b.shown /\ g.op = "recover"
            BY <4>1, <4>3, <6>1 DEF Heir
          <6>3. b.raced
            BY <2>2, <4>1, <4>2, <6>1, <6>2 DEF LateAreRaced
          <6> QED BY <4>1, <6>3 DEF Heir
        <5> QED BY <5>1, <5>2
      <4>4. ASSUME NEW r \in recovered', r[1] = d.shown PROVE d.raced
        <5>1. r \in recovered \/ (c.op = "recover" /\ c.pc = "write" /\ c.shown = r[1])
          BY DEF Adds
        <5>2. b.raced
          BY <2>2, <4>1, <4>2, <4>4, <5>1 DEF LateAreRaced, Heir
        <5> QED BY <4>1, <5>2 DEF Heir
      <4> QED BY <2>2, <4>3, <4>4
    <3> QED BY <3>1, <3>2
  <2> QED BY <2>1, <2>2 DEF LateAreRaced
<1> QED BY <1>1, <1>2, <1>3

\* A handler ends.
LEMMA SpendFinish ==
    ASSUME RecoveryInv, SpendInv, NEW c \in accountCalls, A!Finish(c), UNCHANGED accountIssued,
           mailed' = mailed \/ mailed' = mailed \cup {<<c.id, c.email>>},
           opened' = opened \/ (c.pc = "open" /\ opened' = opened \cup {<<c.shown, c.id>>}),
           \/ recovered' = recovered
           \/ c.op = "recover" /\ c.pc = "write" /\ recovered' = recovered \cup {<<c.shown, c.id>>},
           \A e \in Users : otp'[e] \in {A!None, otp[e]},
           \A e \in Users : reset'[e] \in {A!None, reset[e]} \/ (c.pc = "open" /\ reset'[e] = c.id)
    PROVE  SpendInv'
<1>n. \A b, b2 \in accountCalls : b.id = b2.id => b = b2
  BY DEF RecoveryInv, Numbered
<1>1. accountCalls' = accountCalls \ {c}
  BY DEF A!Finish
<1>2. \A d \in accountCalls' : d \in accountCalls /\ d.id # c.id
  BY <1>n, <1>1
<1>3. \A d \in accountCalls' : \E b \in accountCalls : Heir(d, b) /\ (b = c \/ d.pc = b.pc)
  BY <1>2 DEF Heir
<1>4. \A d \in accountCalls' : d.id = c.id => Onward(c, d)
  BY <1>2
<1>5. \A d, d2 \in accountCalls' : d.id = d2.id => d = d2
  BY <1>n, <1>2
<1>6. Gone(c)
  BY <1>2 DEF Gone
<1>7. Adds(c)
  BY <1>6 DEF Adds
<1> QED BY <1>3, <1>4, <1>5, <1>7, SpendKeeps

\* A handler moves on to p.
LEMMA SpendGo ==
    ASSUME RecoveryInv, SpendInv, NEW c \in accountCalls, NEW p,
           A!Move(c, [c EXCEPT !.pc = p]) \/ A!MoveRacing(c, [c EXCEPT !.pc = p]),
           UNCHANGED <<accountIssued, mailed, opened, recovered>>,
           \A e \in Users : otp'[e] \in {A!None, otp[e], c.id},
           \A e \in Users : reset'[e] \in {A!None, reset[e]},
           p = "spend" => c.op = "verify" /\ \E e \in Users : otp[e] # A!None /\ otp[e] = c.shown,
           p = "open" => /\ c.pc = "spend" /\ otp'[c.email] = A!None
                         /\ A!MoveRacing(c, [c EXCEPT !.pc = p]),
           p = "token" => c.op = "recover",
           p = "burn" => c.op = "recover" /\ \E e \in Users : reset[e] # A!None /\ reset[e] = c.shown,
           p = "write" /\ c.op = "recover" =>
                         /\ c.pc = "burn" /\ reset'[c.email] = A!None
                         /\ A!MoveRacing(c, [c EXCEPT !.pc = p])
    PROVE  SpendInv'
<1> DEFINE c2 == [c EXCEPT !.pc = p]
           Hit(d) == /\ d.op = c.op /\ d.shown = c.shown
                     /\ d.pc \in {"spend", "open", "burn", "write"}
           Raced(d) == [d EXCEPT !.raced = @ \/ (d.op = c.op /\ d.shown = c.shown
                                                 /\ d.pc \in {"spend", "open", "burn", "write"})]
<1>n. \A b, b2 \in accountCalls : b.id = b2.id => b = b2
  BY DEF RecoveryInv, Numbered
<1>1. Heir(c2, c) /\ c2.pc = p
  BY DEF RecoveryInv, Kinds, IsCall, Heir
<1>2. \A d \in accountCalls : Heir(Raced(d), d) /\ Raced(d).pc = d.pc /\ (Hit(d) => Raced(d).raced)
  <2> SUFFICES ASSUME NEW d \in accountCalls
               PROVE  Heir(Raced(d), d) /\ Raced(d).pc = d.pc /\ (Hit(d) => Raced(d).raced)
    OBVIOUS
  <2>1. IsCall(d)
    BY DEF RecoveryInv, Kinds
  <2> QED BY <2>1 DEF IsCall, Heir
<1>3. A!MoveRacing(c, c2) => accountCalls' = {Raced(b) : b \in accountCalls \ {c}} \cup {c2}
  BY DEF A!MoveRacing
<1>4. A!Move(c, c2) => accountCalls' = (accountCalls \ {c}) \cup {c2}
  BY DEF A!Move
<1>5. A!Move(c, c2) \/ A!MoveRacing(c, c2)
  OBVIOUS
<1>6. /\ p = "open" => c.pc = "spend" /\ otp'[c.email] = A!None /\ A!MoveRacing(c, c2)
      /\ p = "write" /\ c.op = "recover" =>
            c.pc = "burn" /\ reset'[c.email] = A!None /\ A!MoveRacing(c, c2)
  OBVIOUS
<1> HIDE DEF c2, Raced, Hit
<1>7. \A d \in accountCalls' : d = c2 \/ \E b \in accountCalls \ {c} : d = b \/ d = Raced(b)
  BY <1>3, <1>4, <1>5
<1>8. \A d \in accountCalls' : \E b \in accountCalls : Heir(d, b) /\ (b = c \/ d.pc = b.pc)
  <2>1. \A b \in accountCalls : Heir(b, b)
    BY DEF Heir
  <2> QED BY <1>1, <1>2, <1>7, <2>1
<1>9. \A d \in accountCalls' : d.id = c.id => d = c2
  BY <1>n, <1>2, <1>7 DEF Heir
<1>10. \A d, d2 \in accountCalls' : d.id = d2.id => d = d2
  <2>1. CASE A!Move(c, c2)
    BY <1>n, <1>1, <1>4, <2>1 DEF Heir
  <2>2. CASE A!MoveRacing(c, c2)
    BY <1>n, <1>1, <1>2, <1>3, <2>2 DEF Heir
  <2> QED BY <1>5, <2>1, <2>2
<1>11. ASSUME A!MoveRacing(c, c2)
       PROVE  Marks(c, {"spend", "open", "burn", "write"})
  <2> SUFFICES ASSUME NEW d \in accountCalls', d.id # c.id, d.op = c.op, d.shown = c.shown,
                      d.pc \in {"spend", "open", "burn", "write"}
               PROVE  d.raced
    BY DEF Marks
  <2>1. PICK b \in accountCalls \ {c} : d = Raced(b)
    BY <1>1, <1>3, <1>11 DEF Heir
  <2>2. Hit(b)
    BY <1>2, <2>1 DEF Hit, Heir
  <2> QED BY <1>2, <2>1, <2>2
<1>12. Onward(c, c2)
  <2>1. p = "open" => Marks(c, {"spend", "open"})
    BY <1>6, <1>11 DEF Marks
  <2>2. p = "write" /\ c.op = "recover" => Marks(c, {"burn", "write"})
    BY <1>6, <1>11 DEF Marks
  <2> QED BY <1>1, <1>6, <2>1, <2>2 DEF Onward
<1>13. Adds(c)
  BY DEF Adds
<1> QED BY <1>8, <1>9, <1>10, <1>12, <1>13, SpendKeeps

LEMMA ComesSpend ==
    ASSUME RecoveryInv, SpendInv, NEW e \in Users,
           \/ \E p \in Passwords : A!StartRegister(e, p)
           \/ A!StartAdminCreate(e) \/ A!StartSendOtp(e)
           \/ \E m \in mailed : A!StartVerifyOtp(e, m[1])
           \/ \E p \in Passwords, o \in opened : A!StartRecover(e, o[2], p)
           \/ \E p \in Passwords, old \in Passwords \cup {u[1] : u \in users} : A!StartSetPassword(e, old, p)
    PROVE  SpendInv'
<1>1. CASE (\E p \in Passwords : A!StartRegister(e, p)) \/ A!StartAdminCreate(e) \/ A!StartSendOtp(e)
  BY <1>1, StartSpends DEF A!StartRegister, A!StartAdminCreate, A!StartSendOtp
<1>2. ASSUME NEW m \in mailed, A!StartVerifyOtp(e, m[1])
      PROVE  SpendInv'
  BY <1>2, StartSpends DEF A!StartVerifyOtp
<1>3. ASSUME NEW p, NEW o \in opened, A!StartRecover(e, o[2], p)
      PROVE  SpendInv'
  BY <1>3, StartSpends DEF A!StartRecover
<1>4. ASSUME NEW p, NEW old, A!StartSetPassword(e, old, p)
      PROVE  SpendInv'
  BY <1>4, StartSpends DEF A!StartSetPassword
<1> QED BY <1>1, <1>2, <1>3, <1>4

LEMMA CallSpends ==
    ASSUME RecoveryInv, SpendInv, NEW c \in accountCalls,
           \/ A!CheckUserExistsByEmail(c) \/ A!AddUser(c) \/ A!GetUserByEmail(c)
           \/ A!StoreOtp(c) \/ A!MailOtp(c) \/ A!WithdrawOtp(c) \/ A!VerifyOtp(c)
           \/ A!RecoverPassword(c) \/ A!ComparePassword(c) \/ A!UpdatePassword(c) \/ A!Fail(c)
    PROVE  SpendInv'
<1>1. otp \in [Users -> Nat] /\ reset \in [Users -> Nat] /\ c.id \in Nat
  BY DEF RecoveryInv, Numbered
<1>2. c.email \in Users
  BY DEF RecoveryInv, Kinds
<1>3. ASSUME A!Finish(c), UNCHANGED <<otp, reset, accountIssued, mailed, opened, recovered>>
      PROVE  SpendInv'
  BY <1>3, SpendFinish
<1>4. ASSUME NEW p, A!Move(c, [c EXCEPT !.pc = p]),
             UNCHANGED <<otp, reset, accountIssued, mailed, opened, recovered>>,
             p = "spend" => c.op = "verify" /\ \E e \in Users : otp[e] # A!None /\ otp[e] = c.shown,
             p # "open",
             p = "token" => c.op = "recover",
             p = "burn" => c.op = "recover" /\ \E e \in Users : reset[e] # A!None /\ reset[e] = c.shown,
             p = "write" => c.op # "recover"
      PROVE  SpendInv'
  BY <1>4, SpendGo
<1>5. CASE A!CheckUserExistsByEmail(c)
  BY <1>3, <1>4, <1>5 DEF A!CheckUserExistsByEmail
<1>6. CASE A!AddUser(c)
  BY <1>3, <1>6 DEF A!AddUser
<1>7. CASE A!GetUserByEmail(c)
  <2>1. c.op \in {"otp", "verify", "recover"}
    BY <1>7 DEF RecoveryInv, Kinds, A!GetUserByEmail
  <2>2. CASE c.op = "otp"
    BY <1>3, <1>4, <1>7, <2>2 DEF A!GetUserByEmail
  <2>3. CASE c.op = "verify"
    BY <1>3, <1>4, <1>7, <2>3 DEF A!GetUserByEmail
  <2>4. CASE c.op = "recover"
    BY <1>3, <1>4, <1>7, <2>4 DEF A!GetUserByEmail
  <2> QED BY <2>1, <2>2, <2>3, <2>4
<1>8. CASE A!StoreOtp(c)
  <2>1. /\ A!Move(c, [c EXCEPT !.pc = "mail"])
        /\ UNCHANGED <<reset, accountIssued, mailed, opened, recovered>>
        /\ \A e \in Users : otp'[e] \in {A!None, otp[e], c.id}
        /\ \A e \in Users : reset'[e] \in {A!None, reset[e]}
    BY <1>1, <1>8 DEF A!StoreOtp
  <2>2. ASSUME NEW p, p = "mail", A!Move(c, [c EXCEPT !.pc = p])
        PROVE  SpendInv'
    BY <2>1, <2>2, SpendGo
  <2> QED BY <2>1, <2>2
<1>9. CASE A!MailOtp(c)
  <2>1. CASE mailed' = mailed \cup {<<c.id, c.email>>} /\ A!Finish(c)
    BY <1>9, <2>1, SpendFinish DEF A!MailOtp
  <2>2. CASE A!Move(c, [c EXCEPT !.pc = "withdraw"]) /\ UNCHANGED mailed
    BY <1>4, <1>9, <2>2 DEF A!MailOtp
  <2> QED BY <1>9, <2>1, <2>2 DEF A!MailOtp
<1>10. CASE A!WithdrawOtp(c)
  <2>1. /\ A!Finish(c) /\ UNCHANGED <<reset, accountIssued, mailed, opened, recovered>>
        /\ \A e \in Users : otp'[e] \in {A!None, otp[e]}
    BY <1>1, <1>10 DEF A!WithdrawOtp, A!None
  <2> QED BY <2>1, SpendFinish
<1>11. CASE A!VerifyOtp(c)
  <2>1. CASE A!CompareOtp(c)
    <3>1. c.op = "verify"
      BY <2>1 DEF A!CompareOtp, RecoveryInv, Kinds
    <3>2. CASE A!CodeFits(c)
      BY <1>2, <1>4, <2>1, <3>1, <3>2 DEF A!CompareOtp, A!CodeFits
    <3>3. CASE ~A!CodeFits(c)
      BY <1>3, <2>1, <3>3 DEF A!CompareOtp
    <3> QED BY <3>2, <3>3
  <2>2. CASE A!DeleteOtp(c)
    <3>1. /\ c.pc = "spend" /\ A!MoveRacing(c, [c EXCEPT !.pc = "open"])
          /\ UNCHANGED <<reset, accountIssued, mailed, opened, recovered>>
          /\ otp'[c.email] = A!None
          /\ \A e \in Users : otp'[e] \in {A!None, otp[e], c.id}
      BY <1>1, <1>2, <2>2 DEF A!DeleteOtp, A!None
    <3> QED BY <3>1, SpendGo
  <2>3. CASE A!StoreResetToken(c)
    <3>1. /\ c.pc = "open" /\ A!Finish(c) /\ opened' = opened \cup {<<c.shown, c.id>>}
          /\ UNCHANGED <<otp, accountIssued, mailed, recovered>>
          /\ \A e \in Users : reset'[e] \in {A!None, reset[e]} \/ reset'[e] = c.id
      BY <1>1, <2>3 DEF A!StoreResetToken
    <3> QED BY <3>1, SpendFinish
  <2> QED BY <1>11, <2>1, <2>2, <2>3 DEF A!VerifyOtp
<1>12. CASE A!RecoverPassword(c)
  <2>1. CASE A!CompareResetToken(c)
    <3>1. c.op = "recover"
      BY <2>1 DEF A!CompareResetToken, SpendInv, HistoryIsPast
    <3>2. CASE A!TokenFits(c)
      BY <1>2, <1>4, <2>1, <3>1, <3>2 DEF A!CompareResetToken, A!TokenFits
    <3>3. CASE ~A!TokenFits(c)
      BY <1>3, <2>1, <3>3 DEF A!CompareResetToken
    <3> QED BY <3>2, <3>3
  <2>2. CASE A!DeleteResetToken(c)
    <3>1. /\ c.pc = "burn" /\ A!MoveRacing(c, [c EXCEPT !.pc = "write"])
          /\ UNCHANGED <<otp, accountIssued, mailed, opened, recovered>>
          /\ reset'[c.email] = A!None
          /\ \A e \in Users : reset'[e] \in {A!None, reset[e]}
      BY <1>1, <1>2, <2>2 DEF A!DeleteResetToken, A!ResetSpent, A!None
    <3> QED BY <3>1, SpendGo
  <2> QED BY <1>12, <2>1, <2>2 DEF A!RecoverPassword
<1>13. CASE A!ComparePassword(c)
  <2>1. c.op # "recover"
    BY <1>13 DEF A!ComparePassword, RecoveryInv, Kinds
  <2> QED BY <1>3, <1>4, <1>13, <2>1 DEF A!ComparePassword
<1>14. CASE A!UpdatePassword(c)
  <2>1. /\ c.pc = "write" /\ A!Finish(c) /\ UNCHANGED <<otp, reset, accountIssued, mailed, opened>>
        /\ \/ recovered' = recovered
           \/ c.op = "recover" /\ recovered' = recovered \cup {<<c.shown, c.id>>}
    BY <1>14 DEF A!UpdatePassword
  <2> QED BY <2>1, SpendFinish
<1>15. CASE A!Fail(c)
  BY <1>3, <1>15 DEF A!Fail
<1> QED BY <1>5, <1>6, <1>7, <1>8, <1>9, <1>10, <1>11, <1>12, <1>13, <1>14, <1>15

LEMMA ExpireSpends ==
    ASSUME RecoveryInv, SpendInv, NEW e \in Users, A!Expire(e)
    PROVE  SpendInv'
<1>1. /\ UNCHANGED <<accountCalls, accountIssued, mailed, opened, recovered>>
      /\ \A f \in Users : otp'[f] \in {A!None, otp[f]} /\ reset'[f] \in {A!None, reset[f]}
  BY DEF A!Expire, RecoveryInv, Numbered, A!None
<1>2. HistoryIsPast'
  BY <1>1 DEF SpendInv, HistoryIsPast
<1>3. GoneForGood'
  BY <1>1 DEF SpendInv, GoneForGood, CodeGone, TokenGone
<1>4. LateAreRaced'
  BY <1>1 DEF SpendInv, LateAreRaced
<1> QED BY <1>2, <1>3, <1>4 DEF SpendInv

LEMMA NextSpend == RecoveryInv /\ SpendInv /\ [A!Next]_(A!vars) => SpendInv'
<1> SUFFICES ASSUME RecoveryInv, SpendInv, [A!Next]_(A!vars) PROVE SpendInv'
  OBVIOUS
<1>1. CASE UNCHANGED A!vars
  BY <1>1 DEF A!vars, SpendInv, HistoryIsPast, GoneForGood, CodeGone, TokenGone, LateAreRaced
<1> QED BY <1>1, ComesSpend, CallSpends, ExpireSpends DEF A!Next

LEMMA PartsAccounts == PartsSpec => [](RecoveryInv /\ SpendInv)
<1>1. PartsInit => RecoveryInv /\ SpendInv
  BY InitRecovery, InitSpend DEF PartsInit
<1>2. /\ RecoveryInv /\ SpendInv
      /\ [PartsNext]_<<part, vars, accountVars, retrievalVars>>
      => (RecoveryInv /\ SpendInv)'
  <2>1. [PartsNext]_<<part, vars, accountVars, retrievalVars>> => [A!Next]_(A!vars)
    BY DEF PartsNext, accountVars, A!vars
  <2> QED BY <2>1, NextRecovery, NextSpend
<1> QED BY <1>1, <1>2, PTL DEF PartsSpec

(***************************************************************************)
(* A recovery writes a password only with a token that was given out for a *)
(* code delivered to the same address (verifyOtpAsync,                     *)
(* recoverPasswordAsync), whatever the users, the passwords and the bounds.*)
(***************************************************************************)
THEOREM RecoveredByOwner == PartsSpec => []RecoveredByMailedCode
<1>1. RecoveryInv => RecoveredByMailedCode
  BY DEF RecoveryInv, TokensAreEarned, Earned, RecoveredByMailedCode, A!RecoveredByMailedCode
<1> QED BY <1>1, PartsAccounts, PTL

(***************************************************************************)
(* A code opens one recovery and a reset token writes one password, but    *)
(* for a handler that compared it before another one deleted it            *)
(* (verifyOtpAsync, recoverPasswordAsync).                                 *)
(***************************************************************************)
THEOREM SpentOnceWithoutRace == PartsSpec => SpentTwiceOnlyByRace
<1> DEFINE Raceless == \A c \in accountCalls \ accountCalls' :
        \/ <<c.shown, c.id>> \in opened' \ opened /\ (\E o \in opened : o[1] = c.shown)
        \/ <<c.shown, c.id>> \in recovered' \ recovered /\ (\E o \in recovered : o[1] = c.shown)
        => c.raced
<1>1. ASSUME RecoveryInv, SpendInv, [PartsNext]_<<part, vars, accountVars, retrievalVars>>
      PROVE  Raceless
  <2>1. [A!Next]_(A!vars)
    BY <1>1 DEF PartsNext, accountVars, A!vars
  <2>n. \A b, b2 \in accountCalls : b.id = b2.id => b = b2
    BY <1>1 DEF RecoveryInv, Numbered
  <2> SUFFICES ASSUME NEW c \in accountCalls,
                      \/ <<c.shown, c.id>> \in opened' \ opened /\ (\E o \in opened : o[1] = c.shown)
                      \/ /\ <<c.shown, c.id>> \in recovered' \ recovered
                         /\ \E o \in recovered : o[1] = c.shown
               PROVE  c.raced
    OBVIOUS
  <2>2. CASE <<c.shown, c.id>> \in opened' \ opened /\ (\E o \in opened : o[1] = c.shown)
    <3>1. PICK d \in accountCalls : A!StoreResetToken(d)
      BY <2>1, <2>2 DEF A!Next, A!vars, A!Start, A!StartRegister, A!StartAdminCreate, A!StartSendOtp,
         A!StartVerifyOtp, A!StartRecover, A!StartSetPassword, A!CheckUserExistsByEmail, A!AddUser,
         A!GetUserByEmail, A!StoreOtp, A!MailOtp, A!WithdrawOtp, A!VerifyOtp, A!CompareOtp,
         A!DeleteOtp, A!RecoverPassword, A!CompareResetToken, A!DeleteResetToken,
         A!ComparePassword, A!UpdatePassword, A!Fail, A!Expire
    <3>2. <<c.shown, c.id>> = <<d.shown, d.id>> /\ d.pc = "open"
      BY <2>2, <3>1 DEF A!StoreResetToken
    <3>3. c.pc = "open"
      BY <2>n, <3>2
    <3> QED BY <1>1, <2>2, <3>3 DEF SpendInv, LateAreRaced
  <2>3. CASE /\ <<c.shown, c.id>> \in recovered' \ recovered
             /\ \E o \in recovered : o[1] = c.shown
    <3>1. PICK d \in accountCalls : A!UpdatePassword(d)
      BY <2>1, <2>3 DEF A!Next, A!vars, A!Start, A!StartRegister, A!StartAdminCreate, A!StartSendOtp,
         A!StartVerifyOtp, A!StartRecover, A!StartSetPassword, A!CheckUserExistsByEmail, A!AddUser,
         A!GetUserByEmail, A!StoreOtp, A!MailOtp, A!WithdrawOtp, A!VerifyOtp, A!CompareOtp,
         A!DeleteOtp, A!StoreResetToken, A!RecoverPassword, A!CompareResetToken,
         A!DeleteResetToken, A!ComparePassword, A!Fail, A!Expire
    <3>2. <<c.shown, c.id>> = <<d.shown, d.id>> /\ d.pc = "write" /\ d.op = "recover"
      BY <2>3, <3>1 DEF A!UpdatePassword
    <3>3. c.pc = "write" /\ c.op = "recover"
      BY <2>n, <3>2
    <3> QED BY <1>1, <2>3, <3>3 DEF SpendInv, LateAreRaced
  <2> QED BY <2>2, <2>3
<1>2. RecoveryInv /\ SpendInv /\ [PartsNext]_<<part, vars, accountVars, retrievalVars>>
      => [Raceless]_(A!vars)
  BY <1>1
<1> QED BY <1>2, PartsAccounts, PTL DEF PartsSpec, SpentTwiceOnlyByRace, A!SpentTwiceOnlyByRace

-----------------------------------------------------------------------------
(* Ranking.                                                                *)
(*                                                                         *)
(* The layers of the cache are ranked each for itself before what they     *)
(* hold is ranked together.  Nothing is lost by that: what is not among    *)
(* the nearest of its layer has the nearest of the layer before it.        *)

LEMMA RetrievalNumbers ==
    /\ IsFiniteSet(Docs) /\ Similarity \in [Docs -> Nat] /\ MinScore \in Nat /\ TopK \in Nat \ {0}
    /\ Unknown \notin Nat /\ MaxQuestions \in Nat /\ MaxChanges \in Nat
<1>1. R!IsFiniteSet(Docs) = IsFiniteSet(Docs)
  BY DEF R!IsFiniteSet, IsFiniteSet
<1> QED BY <1>1, PartsAssumption DEF R!ChatRetrievalAssumption

LEMMA AnswerCardinality == \A S : R!Cardinality(S) = Cardinality(S)
BY DEF R!Cardinality, Cardinality

LEMMA LeastNumber ==
    ASSUME NEW T, T \subseteq Nat, T # {}
    PROVE  \E n \in T : \A m \in T : n <= m
<1>1. IsWellFoundedOn(OpToRel(<, Nat), Nat)
  BY NatLessThanWellFounded
<1>2. PICK n \in T : \A m \in T : <<m, n>> \notin OpToRel(<, Nat)
  BY <1>1, WFMin
<1>3. ASSUME NEW m \in T, m < n PROVE <<m, n>> \in OpToRel(<, Nat)
  <2>1. <<m, n>> \in Nat \X Nat /\ <<m, n>>[1] < <<m, n>>[2]
    BY <1>3
  <2> QED BY <2>1, Zenon DEF OpToRel
<1>4. \A m \in T : ~(m < n)
  BY <1>2, <1>3, Zenon
<1> QED BY <1>4

IsChunk(k) == k.id \in Nat /\ k.doc \in Docs /\ k.scope \in R!Scopes
AreChunks(C) == IsFiniteSet(C) /\ \A k \in C : IsChunk(k)
Above(C, a) == {b \in C : R!Better(b, a)}

LEMMA BetterIsOrder ==
    ASSUME NEW a, IsChunk(a)
    PROVE  /\ ~R!Better(a, a)
           /\ \A b, c : IsChunk(b) /\ IsChunk(c) /\ R!Better(b, a) /\ R!Better(c, b) => R!Better(c, a)
<1>1. \A k : IsChunk(k) => R!Score(k) \in Nat /\ k.id \in Nat
  BY RetrievalNumbers DEF IsChunk, R!Score
<1>2. ~R!Better(a, a)
  BY <1>1 DEF R!Better
<1>3. ASSUME NEW b, NEW c, IsChunk(b), IsChunk(c), R!Better(b, a), R!Better(c, b)
      PROVE  R!Better(c, a)
  <2>1. /\ R!Score(a) \in Nat /\ R!Score(b) \in Nat /\ R!Score(c) \in Nat
        /\ a.id \in Nat /\ b.id \in Nat /\ c.id \in Nat
    BY <1>1, <1>3
  <2>2. /\ R!Score(b) > R!Score(a) \/ (R!Score(b) = R!Score(a) /\ b.id < a.id)
        /\ R!Score(c) > R!Score(b) \/ (R!Score(c) = R!Score(b) /\ c.id < b.id)
    BY <1>3 DEF R!Better
  <2>3. R!Score(c) > R!Score(a) \/ (R!Score(c) = R!Score(a) /\ c.id < a.id)
    BY <2>1, <2>2
  <2> QED BY <2>3 DEF R!Better
<1> QED BY <1>2, <1>3

LEMMA Ranking ==
    ASSUME NEW C, AreChunks(C), NEW k \in Nat
    PROVE  /\ \A a : a \in R!Nearest(C, k) <=> a \in C /\ Cardinality(Above(C, a)) < k
           /\ \A a : IsFiniteSet(Above(C, a)) /\ Cardinality(Above(C, a)) \in Nat
<1>1. \A a : a \in R!Nearest(C, k) <=> a \in C /\ Cardinality(Above(C, a)) < k
  BY AnswerCardinality DEF R!Nearest, Above
<1>2. ASSUME NEW a
      PROVE  IsFiniteSet(Above(C, a)) /\ Cardinality(Above(C, a)) \in Nat
  <2>1. Above(C, a) \in SUBSET C
    BY DEF Above
  <2> QED BY <2>1, FS_Subset, FS_CardinalityType DEF AreChunks
<1> QED BY <1>1, <1>2

\* What is not among the nearest is behind enough of them.
LEMMA NearestComeFirst ==
    ASSUME NEW C, AreChunks(C), NEW k \in Nat, NEW a, IsChunk(a),
           NEW b \in C \ R!Nearest(C, k), R!Better(b, a)
    PROVE  Cardinality(Above(R!Nearest(C, k), a)) >= k
<1> DEFINE Late == {x \in C \ R!Nearest(C, k) : R!Better(x, a)}
           T == {Cardinality(Above(C, x)) : x \in Late}
<1>1. T \subseteq Nat /\ T # {}
  BY Ranking
<1>2. PICK n \in T : \A m \in T : n <= m
  BY <1>1, LeastNumber
<1>3. PICK x \in Late : n = Cardinality(Above(C, x))
  OBVIOUS
<1>4. \A y \in Late : Cardinality(Above(C, x)) <= Cardinality(Above(C, y))
  BY <1>2, <1>3
<1>5. IsChunk(x) /\ x \in C /\ R!Better(x, a) /\ Cardinality(Above(C, x)) >= k
  BY <1>3, Ranking DEF AreChunks
<1>6. ASSUME NEW y \in Above(C, x), y \notin R!Nearest(C, k) PROVE FALSE
  <2>1. y \in C /\ IsChunk(y) /\ R!Better(y, x)
    BY DEF Above, AreChunks
  <2>2. R!Better(y, a)
    BY <1>5, <2>1, BetterIsOrder
  <2>3. Cardinality(Above(C, x)) <= Cardinality(Above(C, y))
    BY <1>4, <1>6, <2>1, <2>2
  <2>4. Above(C, y) \in SUBSET Above(C, x)
    BY <1>5, <2>1, BetterIsOrder DEF Above, AreChunks
  <2>5. y \notin Above(C, y)
    BY <2>1, BetterIsOrder DEF Above
  <2>6. Cardinality(Above(C, y)) <= Cardinality(Above(C, x)) /\ Above(C, x) # Above(C, y)
        /\ Cardinality(Above(C, y)) # Cardinality(Above(C, x))
    BY <1>6, <2>4, <2>5, Ranking, FS_Subset
  <2>7. Cardinality(Above(C, y)) \in Nat /\ Cardinality(Above(C, x)) \in Nat
    BY Ranking
  <2> QED BY <2>3, <2>6, <2>7
<1>7. Above(C, x) \in SUBSET Above(R!Nearest(C, k), a)
  <2>1. ASSUME NEW y \in Above(C, x)
        PROVE  y \in R!Nearest(C, k) /\ R!Better(y, a)
    <3>1. IsChunk(y) /\ R!Better(y, x)
      BY DEF Above, AreChunks
    <3> QED BY <1>5, <1>6, <3>1, BetterIsOrder
  <2> QED BY <2>1 DEF Above
<1>8. IsFiniteSet(Above(R!Nearest(C, k), a))
  <2>1. Above(R!Nearest(C, k), a) \in SUBSET C
    BY Ranking DEF Above
  <2> QED BY <2>1, FS_Subset DEF AreChunks
<1>9. Cardinality(Above(C, x)) <= Cardinality(Above(R!Nearest(C, k), a))
  BY <1>7, <1>8, FS_Subset
<1>10. Cardinality(Above(C, x)) \in Nat /\ Cardinality(Above(R!Nearest(C, k), a)) \in Nat
  BY <1>8, Ranking, FS_CardinalityType
<1> QED BY <1>5, <1>9, <1>10

InScope(C, s) == {k \in C : k.scope = s}

(***************************************************************************)
(* The nearest of the nearest of each layer are the nearest of all.        *)
(***************************************************************************)
LEMMA NearestByLayers ==
    ASSUME NEW C, AreChunks(C), NEW k \in Nat
    PROVE  R!Nearest(UNION {R!Nearest(InScope(C, s), k) : s \in R!Scopes}, k) = R!Nearest(C, k)
<1> DEFINE M == UNION {R!Nearest(InScope(C, s), k) : s \in R!Scopes}
<1>1. ASSUME NEW s PROVE AreChunks(InScope(C, s))
  <2>1. InScope(C, s) \in SUBSET C
    BY DEF InScope
  <2> QED BY <2>1, FS_Subset DEF AreChunks
<1>2. M \in SUBSET C
  <2>1. ASSUME NEW s \in R!Scopes PROVE R!Nearest(InScope(C, s), k) \subseteq C
    BY DEF InScope, R!Nearest
  <2> QED BY <2>1
<1>3. AreChunks(M)
  BY <1>2, FS_Subset DEF AreChunks
<1>4. \A a : Above(M, a) \in SUBSET Above(C, a)
  BY <1>2 DEF Above
<1>5. \A s \in R!Scopes : R!Nearest(InScope(C, s), k) \subseteq M
  OBVIOUS
<1>6. \A b \in M : \E s \in R!Scopes : b \in R!Nearest(InScope(C, s), k)
  OBVIOUS
<1> HIDE DEF M
<1>7. ASSUME NEW a \in R!Nearest(C, k)
      PROVE  a \in R!Nearest(M, k)
  <2> DEFINE D == InScope(C, a.scope)
  <2>1. a \in C /\ a.scope \in R!Scopes /\ Cardinality(Above(C, a)) < k
    BY Ranking DEF AreChunks, IsChunk
  <2>2. /\ IsFiniteSet(Above(C, a)) /\ Cardinality(Above(C, a)) \in Nat
        /\ Cardinality(Above(D, a)) \in Nat /\ Cardinality(Above(M, a)) \in Nat
    BY <1>1, <1>3, Ranking
  <2>3. Above(D, a) \in SUBSET Above(C, a)
    BY DEF Above, InScope
  <2>4. /\ Cardinality(Above(D, a)) <= Cardinality(Above(C, a))
        /\ Cardinality(Above(M, a)) <= Cardinality(Above(C, a))
    BY <1>4, <2>2, <2>3, FS_Subset
  <2>5. Cardinality(Above(D, a)) < k /\ Cardinality(Above(M, a)) < k
    BY <2>1, <2>2, <2>4
  <2>6. a \in D
    BY <2>1 DEF InScope
  <2>7. a \in R!Nearest(D, k)
    BY <1>1, <2>5, <2>6, Ranking
  <2>8. a \in M
    BY <1>5, <2>1, <2>7
  <2> QED BY <1>3, <2>5, <2>8, Ranking
<1>8. ASSUME NEW a \in R!Nearest(M, k), a \notin R!Nearest(C, k)
      PROVE  FALSE
  <2>1. a \in M /\ a \in C /\ IsChunk(a) /\ Cardinality(Above(M, a)) < k
    BY <1>2, <1>3, Ranking DEF AreChunks
  <2>2. ~(Cardinality(Above(C, a)) < k)
    BY <1>8, <2>1, Ranking
  <2>3. PICK b \in Above(C, a) : b \notin Above(M, a)
    <3>1. Above(C, a) # Above(M, a)
      BY <2>1, <2>2
    <3> QED BY <1>4, <3>1
  <2> DEFINE D == InScope(C, b.scope)
             N == R!Nearest(D, k)
  <2>4. b \in C /\ R!Better(b, a) /\ b \notin M /\ b.scope \in R!Scopes
    BY <2>3 DEF Above, AreChunks, IsChunk
  <2>5. b \in D \ N
    BY <1>5, <2>4 DEF InScope
  <2>6. Cardinality(Above(N, a)) >= k
    BY <1>1, <2>1, <2>4, <2>5, NearestComeFirst
  <2>7. Above(N, a) \in SUBSET Above(M, a)
    BY <1>5, <2>4 DEF Above
  <2>8. IsFiniteSet(Above(M, a)) /\ Cardinality(Above(M, a)) \in Nat
    BY <1>3, Ranking
  <2>9. Cardinality(Above(N, a)) <= Cardinality(Above(M, a)) /\ IsFiniteSet(Above(N, a))
    BY <2>7, <2>8, FS_Subset
  <2>10. Cardinality(Above(N, a)) \in Nat
    BY <2>9, FS_CardinalityType
  <2> QED BY <2>1, <2>6, <2>8, <2>9, <2>10
<1> QED BY <1>7, <1>8 DEF M

-----------------------------------------------------------------------------
(* ChatRetrieval.                                                          *)
(*                                                                         *)
(* While the version is up to date (UpToDate), what the cache has under it *)
(* is what a search would find now (CacheIsTrue), and so is what a handler *)
(* has found that goes by this version (Filled).  That comes true with a   *)
(* version nothing is known under, and ends with the next change, whose    *)
(* version is yet another.                                                 *)

QuestionFields ==
    {"id", "user", "version", "reads", "found", "writes", "sources", "seen", "disturbed", "stale", "pc"}
IsQuestion(c) ==
    c = [x \in QuestionFields |-> c[x]] /\ c.found = [s \in R!Scopes |-> c.found[s]]

\* What is right about a handler whatever the corpus has become.
Asking(c) ==
    /\ IsQuestion(c) /\ c.user \in Users
    /\ c.pc = "version" => c.version = Unknown /\ \A s \in R!Scopes : c.found[s] = Unknown
    /\ c.pc = "write" => c.version # Unknown
    /\ c.pc = "generate" =>
        /\ \E S \in c.seen : c.sources \subseteq S
        /\ ~c.disturbed /\ ~c.stale => \A S \in c.seen : c.sources = R!Relevant(S)

UpToDate == bumps = {} /\ ~lost
Layer(s, u) == R!Nearest(InScope(R!Readable(u), s), TopK)

Filled(c) ==
    \A s \in R!Scopes :
        c.found[s] # Unknown \/ c.pc \in {"write", "validate"} => c.found[s] = Layer(s, c.user)

\* What a handler knows of the present.
Current(c) ==
    /\ R!Readable(c.user) \in c.seen
    /\ UpToDate /\ c.version = version => Filled(c)
    /\ ~c.disturbed /\ ~c.stale =>
        UpToDate /\ c.version \in {Unknown, version} /\ c.seen = {R!Readable(c.user)} /\ Filled(c)

SetVersions == (0 .. changed) \ bumps

CacheIsTrue ==
    \A e \in cache : UpToDate /\ e[3] = version =>
        \A u \in Users : e[2] = R!CacheOwner(e[1], u) => e[4] = Layer(e[1], u)

RetrievalInv ==
    /\ docs \in [Docs -> R!Row] /\ nextChunk \in Nat
    /\ changed \in Nat /\ bumps \subseteq 1 .. changed /\ version \in SetVersions
    /\ \A e \in cache : e[3] \in SetVersions
    /\ CacheIsTrue
    /\ \A c \in answerCalls : Asking(c) /\ Current(c) /\ c.version \in SetVersions \cup {Unknown}

LEMMA InitRetrieval == R!Init => RetrievalInv
<1> SUFFICES ASSUME R!Init PROVE RetrievalInv
  OBVIOUS
<1> DEFINE n == Cardinality(Docs)
           Ids == {f \in [Docs -> 1 .. n] : \A d, e \in Docs : f[d] = f[e] => d = e}
<1>1. n \in Nat /\ ExistsBijection(1 .. n, Docs)
  BY RetrievalNumbers, FS_CardinalityType
<1>2. Ids # {}
  <2>1. PICK f \in [1 .. n -> Docs] : \A d \in Docs : \E i \in 1 .. n : f[i] = d
    BY <1>1 DEF ExistsBijection, Bijection, Injection, Surjection, IsInjective
  <2> DEFINE g == [d \in Docs |-> CHOOSE i \in 1 .. n : f[i] = d]
  <2>2. \A d \in Docs : g[d] \in 1 .. n /\ f[g[d]] = d
    BY <2>1
  <2>3. g \in [Docs -> 1 .. n]
    BY <2>2
  <2> HIDE DEF g
  <2> QED BY <2>2, <2>3
<1>3. PICK id \in Ids : \E vis \in [Docs -> R!Scopes], st \in {"Processing", "Ready"} :
        docs = [d \in Docs |-> [status |-> st, deleted |-> FALSE, scope |-> vis[d], chunk |-> id[d]]]
  <2>1. R!Cardinality(Docs) = n
    BY AnswerCardinality
  <2> DEFINE id == CHOOSE f \in [Docs -> 1 .. n] : \A d, e \in Docs : f[d] = f[e] => d = e
  <2>2. id \in Ids
    BY <1>2
  <2>3. \E vis \in [Docs -> R!Scopes], st \in {"Processing", "Ready"} :
          docs = [d \in Docs |-> [status |-> st, deleted |-> FALSE, scope |-> vis[d], chunk |-> id[d]]]
    BY <2>1 DEF R!Init, R!InitCorpus
  <2> QED BY <2>2, <2>3
<1>4. docs \in [Docs -> R!Row]
  <2>1. \A d \in Docs : id[d] \in Nat
    BY <1>1, <1>3
  <2> QED BY <1>3, <2>1 DEF R!Row
<1>5. nextChunk \in Nat
  BY <1>1, AnswerCardinality DEF R!Init, R!InitAsking
<1> QED BY <1>4, <1>5 DEF R!Init, R!InitAsking, RetrievalInv, SetVersions, CacheIsTrue

\* The chunks a user may read are finitely many, of known scopes.
LEMMA ReadableAreChunks ==
    ASSUME docs \in [Docs -> R!Row], NEW u
    PROVE  AreChunks(R!Readable(u))
<1> DEFINE D == {e \in Docs : /\ ~docs[e].deleted /\ docs[e].status = "Ready" /\ R!MayRead(u, e)}
           f == [d \in D |-> R!ChunkOf(d)]
<1>1. IsFiniteSet(D)
  <2>1. D \in SUBSET Docs
    OBVIOUS
  <2> QED BY <2>1, RetrievalNumbers, FS_Subset
<1>2. R!Readable(u) = {R!ChunkOf(d) : d \in D}
  BY DEF R!Readable
<1>3. f \in Surjection(D, R!Readable(u))
  BY <1>2 DEF Surjection
<1>4. IsFiniteSet(R!Readable(u))
  BY <1>1, <1>3, FS_Surjection
<1>5. \A k \in R!Readable(u) : IsChunk(k)
  BY <1>2 DEF R!ChunkOf, IsChunk, R!Row
<1> QED BY <1>4, <1>5 DEF AreChunks

\* The public layer is the same for everyone.
LEMMA PublicIsCommon ==
    ASSUME NEW s \in R!Scopes, NEW u \in Users, NEW w \in Users,
           R!CacheOwner(s, u) = R!CacheOwner(s, w)
    PROVE  Layer(s, u) = Layer(s, w)
<1>1. CASE s = "Restricted"
  BY <1>1 DEF R!CacheOwner
<1>2. CASE s = "Public"
  <2>1. InScope(R!Readable(u), "Public") = InScope(R!Readable(w), "Public")
    BY DEF InScope, R!Readable, R!ChunkOf, R!MayRead
  <2> QED BY <1>2, <2>1 DEF Layer
<1> QED BY <1>1, <1>2 DEF R!Scopes

LEMMA SameCorpus ==
    ASSUME UNCHANGED <<docs, grants, version, bumps, lost>>
    PROVE  /\ \A s, u : Layer(s, u)' = Layer(s, u)
           /\ \A c : Current(c)' <=> Current(c)
           /\ UpToDate' <=> UpToDate
<1>1. \A u : R!Readable(u)' = R!Readable(u)
  BY DEF R!Readable, R!ChunkOf, R!MayRead
<1>2. \A s, u : Layer(s, u)' = Layer(s, u)
  BY <1>1 DEF Layer, InScope
<1>3. UpToDate' <=> UpToDate
  BY DEF UpToDate
<1> QED BY <1>1, <1>2, <1>3 DEF Current, Filled

\* A handler goes on; nothing else changes.
LEMMA QuestionMoves ==
    ASSUME RetrievalInv, NEW c \in answerCalls, NEW d, Asking(d), Current(d),
           d.version \in SetVersions \cup {Unknown}, R!Move(c, d),
           UNCHANGED <<docs, grants, nextChunk, version, cache, bumps, changed, lost>>
    PROVE  RetrievalInv'
<1>1. \A e \in answerCalls' : Asking(e) /\ Current(e)' /\ e.version \in SetVersions' \cup {Unknown}
  BY SameCorpus DEF RetrievalInv, R!Move, SetVersions
<1> QED BY <1>1, SameCorpus DEF RetrievalInv, SetVersions, CacheIsTrue

LEMMA QuestionEnds ==
    ASSUME RetrievalInv, NEW c \in answerCalls, R!Finish(c),
           UNCHANGED <<docs, grants, nextChunk, version, cache, bumps, changed, lost>>
    PROVE  RetrievalInv'
<1>1. \A e \in answerCalls' : Asking(e) /\ Current(e)' /\ e.version \in SetVersions' \cup {Unknown}
  BY SameCorpus DEF RetrievalInv, R!Finish, SetVersions
<1> QED BY <1>1, SameCorpus DEF RetrievalInv, SetVersions, CacheIsTrue

LEMMA QuestionComes ==
    ASSUME RetrievalInv, NEW u \in Users, R!StartAnswer(u)
    PROVE  RetrievalInv'
<1> DEFINE d == [id |-> asked', user |-> u, version |-> Unknown, reads |-> {},
                 found |-> [s \in R!Scopes |-> Unknown], writes |-> {}, sources |-> {},
                 seen |-> {R!Readable(u)}, disturbed |-> FALSE,
                 stale |-> lost \/ bumps # {}, pc |-> "version"]
<1>1. /\ answerCalls' = answerCalls \cup {d}
      /\ UNCHANGED <<docs, grants, nextChunk, version, cache, bumps, changed, lost>>
  BY DEF R!StartAnswer
<1>2. /\ d.user = u /\ d.version = Unknown /\ d.found = [s \in R!Scopes |-> Unknown] /\ d.pc = "version"
      /\ d.seen = {R!Readable(u)} /\ d.disturbed = FALSE /\ d.stale = (lost \/ bumps # {})
      /\ d = [x \in QuestionFields |-> d[x]]
  BY DEF QuestionFields
<1> HIDE DEF d
<1>3. Asking(d)
  BY <1>2 DEF Asking, IsQuestion
<1>4. Current(d)
  BY <1>2 DEF Current, Filled, UpToDate
<1>5. \A e \in answerCalls' : Asking(e) /\ Current(e)' /\ e.version \in SetVersions' \cup {Unknown}
  BY <1>1, <1>2, <1>3, <1>4, SameCorpus DEF RetrievalInv, SetVersions
<1> QED BY <1>1, <1>5, SameCorpus DEF RetrievalInv, SetVersions, CacheIsTrue

LEMMA VersionIsRead ==
    ASSUME RetrievalInv, NEW c \in answerCalls, R!ReadCorpusVersion(c)
    PROVE  RetrievalInv'
<1>1. Asking(c) /\ Current(c) /\ c.version \in SetVersions \cup {Unknown} /\ c.pc = "version"
      /\ version \in SetVersions
  BY DEF RetrievalInv, R!ReadCorpusVersion
<1>2. c.version = Unknown /\ \A s \in R!Scopes : c.found[s] = Unknown
  BY <1>1 DEF Asking
<1>3. CASE R!Move(c, [c EXCEPT !.version = version, !.reads = R!Scopes, !.pc = "read"])
  <2> DEFINE d == [c EXCEPT !.version = version, !.reads = R!Scopes, !.pc = "read"]
  <2>1. /\ IsQuestion(d) /\ d.user = c.user /\ d.version = version /\ d.found = c.found /\ d.pc = "read"
        /\ d.seen = c.seen /\ d.disturbed = c.disturbed /\ d.stale = c.stale
    BY <1>1 DEF Asking, IsQuestion, QuestionFields
  <2>2. R!Move(c, d)
    BY <1>3
  <2> HIDE DEF d
  <2>3. Asking(d) /\ Current(d)
    BY <1>1, <1>2, <2>1 DEF Asking, Current, Filled
  <2> QED BY <1>1, <2>1, <2>2, <2>3, QuestionMoves DEF R!ReadCorpusVersion
<1>4. CASE R!Move(c, [c EXCEPT !.pc = "search"])
  <2> DEFINE d == [c EXCEPT !.pc = "search"]
  <2>1. /\ IsQuestion(d) /\ d.user = c.user /\ d.version = c.version /\ d.found = c.found /\ d.pc = "search"
        /\ d.seen = c.seen /\ d.disturbed = c.disturbed /\ d.stale = c.stale
    BY <1>1 DEF Asking, IsQuestion, QuestionFields
  <2>2. R!Move(c, d)
    BY <1>4
  <2> HIDE DEF d
  <2>3. Asking(d) /\ Current(d)
    BY <1>1, <1>2, <2>1 DEF Asking, Current, Filled
  <2> QED BY <1>1, <2>1, <2>2, <2>3, QuestionMoves DEF R!ReadCorpusVersion
<1> QED BY <1>3, <1>4 DEF R!ReadCorpusVersion

\* What is found in the cache is what a search would find, if the version is right.
LEMMA ChunksAreRead ==
    ASSUME RetrievalInv, NEW c \in answerCalls, R!ReadChunks(c)
    PROVE  RetrievalInv'
<1> DEFINE s == IF "Public" \in c.reads THEN "Public" ELSE "Restricted"
           p == IF c.reads = {s} THEN "search" ELSE c.pc
<1>1. Asking(c) /\ Current(c) /\ c.version \in SetVersions \cup {Unknown} /\ c.pc = "read"
      /\ version \in SetVersions /\ s \in R!Scopes /\ p \in {"read", "search"}
  BY DEF RetrievalInv, R!ReadChunks, R!Scopes
<1>2. UNCHANGED <<docs, grants, nextChunk, version, cache, bumps, changed, lost>>
  BY DEF R!ReadChunks
<1>3. \/ \E e \in cache :
            /\ e[1] = s /\ e[2] = R!CacheOwner(s, c.user) /\ e[3] = c.version
            /\ R!Move(c, [[c EXCEPT !.reads = @ \ {s}, !.pc = p] EXCEPT !.found[s] = e[4]])
      \/ R!Move(c, [c EXCEPT !.reads = @ \ {s}, !.pc = p])
  BY <1>1 DEF R!ReadChunks
<1> HIDE DEF s, p
<1>4. CASE R!Move(c, [c EXCEPT !.reads = @ \ {s}, !.pc = p])
  <2> DEFINE d == [c EXCEPT !.reads = @ \ {s}, !.pc = p]
  <2>1. /\ IsQuestion(d) /\ d.user = c.user /\ d.version = c.version /\ d.found = c.found /\ d.pc = p
        /\ d.seen = c.seen /\ d.disturbed = c.disturbed /\ d.stale = c.stale
    BY <1>1 DEF Asking, IsQuestion, QuestionFields
  <2>2. R!Move(c, d)
    BY <1>4
  <2> HIDE DEF d
  <2>3. Asking(d) /\ Current(d)
    BY <1>1, <2>1 DEF Asking, Current, Filled
  <2> QED BY <1>1, <1>2, <2>1, <2>2, <2>3, QuestionMoves
<1>5. ASSUME NEW e \in cache, e[1] = s, e[2] = R!CacheOwner(s, c.user), e[3] = c.version,
             R!Move(c, [[c EXCEPT !.reads = @ \ {s}, !.pc = p] EXCEPT !.found[s] = e[4]])
      PROVE  RetrievalInv'
  <2> DEFINE d == [[c EXCEPT !.reads = @ \ {s}, !.pc = p] EXCEPT !.found[s] = e[4]]
  <2>1. /\ d = [x \in QuestionFields |-> d[x]] /\ d.user = c.user /\ d.version = c.version /\ d.pc = p
        /\ d.seen = c.seen /\ d.disturbed = c.disturbed /\ d.stale = c.stale
        /\ d.found = [c.found EXCEPT ![s] = e[4]]
    BY <1>1 DEF Asking, IsQuestion, QuestionFields
  <2>2. R!Move(c, d)
    BY <1>5
  <2> HIDE DEF d
  <2>3. /\ d.found[s] = e[4] /\ \A t \in R!Scopes : t # s => d.found[t] = c.found[t]
        /\ d.found = [t \in R!Scopes |-> d.found[t]]
    BY <1>1, <2>1 DEF Asking, IsQuestion
  <2>4. UpToDate /\ c.version = version => e[4] = Layer(s, c.user)
    BY <1>1, <1>5 DEF RetrievalInv, CacheIsTrue, Asking
  <2>5. c.version # Unknown
    BY <1>5, RetrievalNumbers DEF RetrievalInv, SetVersions
  <2>6. Asking(d)
    BY <1>1, <2>1, <2>3 DEF Asking, IsQuestion
  <2>7. UpToDate /\ c.version = version => Filled(d)
    BY <1>1, <2>1, <2>3, <2>4 DEF Current, Filled
  <2>8. Current(d)
    BY <1>1, <2>1, <2>5, <2>7 DEF Current
  <2> QED BY <1>1, <1>2, <2>1, <2>2, <2>6, <2>8, QuestionMoves
<1> QED BY <1>3, <1>4, <1>5

\* One search finds all that was not found.
LEMMA SearchFinds ==
    ASSUME RetrievalInv, NEW c \in answerCalls, R!SearchSimilarChunks(c)
    PROVE  RetrievalInv'
<1> DEFINE missing == {s \in R!Scopes : c.found[s] = Unknown}
           w == IF c.version = Unknown THEN {} ELSE missing
           p == IF missing = {} \/ c.version = Unknown THEN "validate" ELSE "write"
           of(s) == R!Nearest({k \in R!Readable(c.user) : k.scope = s}, TopK)
           d == [c EXCEPT !.found = [s \in R!Scopes |-> IF s \in missing THEN of(s) ELSE @[s]],
                          !.writes = w, !.pc = p]
<1>1. Asking(c) /\ Current(c) /\ c.version \in SetVersions \cup {Unknown} /\ c.pc = "search"
      /\ version \in SetVersions
  BY DEF RetrievalInv, R!SearchSimilarChunks
<1>2. UNCHANGED <<docs, grants, nextChunk, version, cache, bumps, changed, lost>>
  BY DEF R!SearchSimilarChunks
<1>3. CASE R!Finish(c)
  BY <1>2, <1>3, QuestionEnds
<1>4. CASE R!Move(c, d)
  <2>1. /\ d = [x \in QuestionFields |-> d[x]] /\ d.user = c.user /\ d.version = c.version /\ d.pc = p
        /\ d.seen = c.seen /\ d.disturbed = c.disturbed /\ d.stale = c.stale
        /\ d.found = [s \in R!Scopes |-> IF s \in missing THEN of(s) ELSE c.found[s]]
    BY <1>1 DEF Asking, IsQuestion, QuestionFields
  <2>2. \A s \in R!Scopes : of(s) = Layer(s, c.user)
    BY DEF Layer, InScope
  <2>3. p \in {"validate", "write"} /\ (p = "write" => c.version # Unknown)
    OBVIOUS
  <2> HIDE DEF d, p, of, w
  <2>4. \A s \in R!Scopes : d.found[s] = IF c.found[s] = Unknown THEN Layer(s, c.user) ELSE c.found[s]
    BY <2>1, <2>2
  <2>5. d.found = [s \in R!Scopes |-> d.found[s]]
    BY <2>1
  <2> HIDE DEF missing
  <2>6. Asking(d)
    BY <1>1, <2>1, <2>3, <2>5 DEF Asking, IsQuestion
  <2>7. Filled(c) => Filled(d)
    BY <2>1, <2>4 DEF Filled
  <2>8. Current(d)
    BY <1>1, <2>1, <2>7 DEF Current
  <2> QED BY <1>1, <1>2, <1>4, <2>1, <2>6, <2>8, QuestionMoves
<1> QED BY <1>3, <1>4 DEF R!SearchSimilarChunks

\* What is written under a version is what is under it now, or it is not the present one.
LEMMA ChunksAreWritten ==
    ASSUME RetrievalInv, NEW c \in answerCalls, R!WriteChunks(c)
    PROVE  RetrievalInv'
<1> DEFINE s == IF "Public" \in c.writes THEN "Public" ELSE "Restricted"
           p == IF c.writes = {s} THEN "validate" ELSE c.pc
           entry == <<s, R!CacheOwner(s, c.user), c.version, c.found[s]>>
           d == [c EXCEPT !.writes = @ \ {s}, !.pc = p]
<1>1. Asking(c) /\ Current(c) /\ c.version \in SetVersions \cup {Unknown} /\ c.pc = "write"
      /\ version \in SetVersions /\ s \in R!Scopes /\ p \in {"write", "validate"}
  BY DEF RetrievalInv, R!WriteChunks, R!Scopes
<1>2. /\ UNCHANGED <<docs, grants, nextChunk, version, bumps, changed, lost>>
      /\ cache' \subseteq cache \cup {entry} /\ R!Move(c, d)
  BY <1>1 DEF R!WriteChunks, R!WrittenUnder
<1>3. entry[1] = s /\ entry[2] = R!CacheOwner(s, c.user) /\ entry[3] = c.version /\ entry[4] = c.found[s]
  OBVIOUS
<1>4. /\ IsQuestion(d) /\ d.user = c.user /\ d.version = c.version /\ d.found = c.found /\ d.pc = p
      /\ d.seen = c.seen /\ d.disturbed = c.disturbed /\ d.stale = c.stale
  BY <1>1 DEF Asking, IsQuestion, QuestionFields
<1> HIDE DEF s, p, entry, d
<1>5. c.version \in SetVersions
  BY <1>1 DEF Asking
<1>6. Asking(d) /\ Current(d)
  BY <1>1, <1>4 DEF Asking, Current, Filled
<1>7. \A e \in answerCalls' : Asking(e) /\ Current(e)' /\ e.version \in SetVersions' \cup {Unknown}
  BY <1>1, <1>2, <1>4, <1>6, SameCorpus DEF RetrievalInv, R!Move, SetVersions
<1>8. ASSUME UpToDate, c.version = version, NEW u \in Users,
             R!CacheOwner(s, c.user) = R!CacheOwner(s, u)
      PROVE  c.found[s] = Layer(s, u)
  <2>1. c.found[s] = Layer(s, c.user)
    BY <1>1, <1>8 DEF Current, Filled
  <2> QED BY <1>1, <1>8, <2>1, PublicIsCommon DEF Asking
<1>9. CacheIsTrue'
  <2> SUFFICES ASSUME NEW e \in cache', UpToDate, e[3] = version, NEW u \in Users,
                      e[2] = R!CacheOwner(e[1], u)
               PROVE  e[4] = Layer(e[1], u)
    BY <1>2, SameCorpus DEF CacheIsTrue
  <2>1. CASE e = entry
    BY <1>3, <1>8, <2>1
  <2>2. CASE e \in cache
    BY <2>2 DEF RetrievalInv, CacheIsTrue
  <2> QED BY <1>2, <2>1, <2>2
<1>10. \A e \in cache' : e[3] \in SetVersions'
  BY <1>2, <1>3, <1>5 DEF RetrievalInv, SetVersions
<1> QED BY <1>2, <1>7, <1>9, <1>10 DEF RetrievalInv, SetVersions

\* Validation takes what is readable now, which is all there is if nothing has changed.
LEMMA ChunksAreValidated ==
    ASSUME RetrievalInv, NEW c \in answerCalls, R!ValidateSimilarChunks(c)
    PROVE  RetrievalInv'
<1> DEFINE all == UNION {c.found[s] : s \in R!Scopes}
           C == R!Relevant(R!Validated(all, c.user))
           now == R!Readable(c.user)
           nothing == [s \in R!Scopes |-> Unknown]
           d == [[c EXCEPT !.version = Unknown, !.found = nothing] EXCEPT !.sources = C, !.pc = "generate"]
<1>1. Asking(c) /\ Current(c) /\ c.pc = "validate" /\ docs \in [Docs -> R!Row]
  BY DEF RetrievalInv, R!ValidateSimilarChunks
<1>2. UNCHANGED <<docs, grants, nextChunk, version, cache, bumps, changed, lost>>
  BY DEF R!ValidateSimilarChunks
<1>3. CASE R!Finish(c)
  BY <1>2, <1>3, QuestionEnds
<1>4. CASE R!Move(c, d)
  <2>1. /\ d = [x \in QuestionFields |-> d[x]] /\ d.user = c.user /\ d.version = Unknown
        /\ d.pc = "generate" /\ d.found = nothing /\ d.sources = C
        /\ d.seen = c.seen /\ d.disturbed = c.disturbed /\ d.stale = c.stale
    <3> HIDE DEF C, nothing
    <3> QED BY <1>1 DEF Asking, IsQuestion, QuestionFields
  <2>2. C \subseteq now
    BY DEF R!Relevant, R!Nearest, R!Validated
  <2>3. ASSUME ~c.disturbed, ~c.stale
        PROVE  c.seen = {now} /\ C = R!Relevant(now)
    <3>1. c.seen = {now} /\ \A s \in R!Scopes : c.found[s] = R!Nearest(InScope(now, s), TopK)
      BY <1>1, <2>3 DEF Current, Filled, Layer
    <3>2. all = UNION {R!Nearest(InScope(now, s), TopK) : s \in R!Scopes}
      BY <3>1
    <3>3. all \subseteq now
      <4>1. \A s \in R!Scopes : R!Nearest(InScope(now, s), TopK) \subseteq now
        BY DEF R!Nearest, InScope
      <4> QED BY <3>2, <4>1
    <3>4. AreChunks(now) /\ TopK \in Nat
      BY <1>1, ReadableAreChunks, RetrievalNumbers
    <3> HIDE DEF all, now
    <3>5. R!Nearest(all, TopK) = R!Nearest(now, TopK)
      BY <3>2, <3>4, NearestByLayers
    <3>6. R!Validated(all, c.user) = all
      BY <3>3 DEF R!Validated, now
    <3>7. C = R!Relevant(now)
      BY <3>5, <3>6 DEF R!Relevant
    <3> QED BY <3>1, <3>7
  <2> HIDE DEF d, C, all
  <2>4. Asking(d)
    BY <1>1, <2>1, <2>2, <2>3 DEF Asking, IsQuestion, Current
  <2>5. Filled(d)
    BY <2>1 DEF Filled
  <2>6. Current(d)
    BY <1>1, <2>1, <2>5 DEF Current
  <2> QED BY <1>2, <1>4, <2>1, <2>4, <2>6, QuestionMoves
<1> QED BY <1>3, <1>4 DEF R!ValidateSimilarChunks

\* A change disturbs every question, and no version is up to date until it has set one.
LEMMA CorpusChanges ==
    ASSUME RetrievalInv, NEW docs2 \in [Docs -> R!Row], NEW grants2,
           R!Commit(docs2, grants2), nextChunk' \in Nat
    PROVE  RetrievalInv'
<1>1. /\ changed' = changed + 1 /\ bumps' = bumps \cup {changed'} /\ docs' = docs2
      /\ UNCHANGED <<version, cache, asked, lost>>
  BY DEF R!Commit
<1>2. /\ changed \in Nat /\ bumps \subseteq 1 .. changed
      /\ changed' \in Nat /\ bumps' \subseteq 1 .. changed' /\ SetVersions \subseteq SetVersions'
  BY <1>1 DEF RetrievalInv, SetVersions
<1>3. ~UpToDate'
  BY <1>1 DEF UpToDate
<1>4. ASSUME NEW d \in answerCalls'
      PROVE  Asking(d) /\ Current(d)' /\ d.version \in SetVersions' \cup {Unknown}
  <2> DEFINE now(u) == R!Readable(u)'
  <2>1. PICK c \in answerCalls :
          d = [c EXCEPT !.disturbed = TRUE, !.seen = @ \cup {now(c.user)}]
    BY DEF R!Commit, R!Watch
  <2>2. Asking(c) /\ c.version \in SetVersions \cup {Unknown}
    BY DEF RetrievalInv
  <2> HIDE DEF now
  <2>3. /\ IsQuestion(d) /\ d.user = c.user /\ d.version = c.version /\ d.found = c.found /\ d.pc = c.pc
        /\ d.seen = c.seen \cup {now(c.user)} /\ d.disturbed /\ d.sources = c.sources
    BY <2>1, <2>2 DEF Asking, IsQuestion, QuestionFields
  <2>4. Asking(d)
    BY <2>2, <2>3 DEF Asking
  <2>5. R!Readable(d.user)' \in d.seen
    BY <2>3 DEF now
  <2>6. Current(d)'
    BY <1>3, <2>3, <2>5 DEF Current
  <2> QED BY <1>2, <2>2, <2>3, <2>4, <2>6
<1>5. CacheIsTrue'
  BY <1>3 DEF CacheIsTrue
<1> QED BY <1>1, <1>2, <1>4, <1>5 DEF RetrievalInv

LEMMA DocumentsChange ==
    ASSUME RetrievalInv, NEW d \in Docs,
           R!AddChunks(d) \/ R!EditDocument(d) \/ R!DeleteOrRestore(d) \/ R!UpdatePermissions(d)
    PROVE  RetrievalInv'
<1>1. docs \in [Docs -> R!Row] /\ docs[d] \in R!Row /\ nextChunk \in Nat
  BY DEF RetrievalInv
<1>2. CASE R!AddChunks(d)
  <2> DEFINE r == [docs[d] EXCEPT !.status = "Ready", !.chunk = nextChunk]
             docs2 == [docs EXCEPT ![d] = r]
  <2>0. r \in R!Row
    BY <1>1 DEF R!Row
  <2> HIDE DEF r
  <2>1. docs2 \in [Docs -> R!Row] /\ nextChunk + 1 \in Nat
    BY <1>1, <2>0
  <2>2. R!Commit(docs2, grants) /\ nextChunk' = nextChunk + 1
    BY <1>2 DEF R!AddChunks, r
  <2> HIDE DEF docs2
  <2> QED BY <2>1, <2>2, CorpusChanges
<1>3. CASE R!EditDocument(d)
  <2>1. PICK r \in {[docs[d] EXCEPT !.status = "Processing"]}
                        \cup {[docs[d] EXCEPT !.scope = s] : s \in R!Scopes} :
          R!Commit([docs EXCEPT ![d] = r], grants) /\ UNCHANGED nextChunk
    BY <1>3 DEF R!EditDocument
  <2>2. r \in R!Row
    BY <1>1 DEF R!Row
  <2>3. [docs EXCEPT ![d] = r] \in [Docs -> R!Row]
    BY <1>1, <2>2
  <2> QED BY <1>1, <2>1, <2>3, CorpusChanges
<1>4. CASE R!DeleteOrRestore(d)
  <2> DEFINE r == [docs[d] EXCEPT
                     !.deleted = ~@,
                     !.status = IF docs[d].deleted /\ @ = "Processing" THEN "Failed" ELSE @]
             docs2 == [docs EXCEPT ![d] = r]
  <2>0. r \in R!Row
    BY <1>1 DEF R!Row
  <2> HIDE DEF r
  <2>1. docs2 \in [Docs -> R!Row]
    BY <1>1, <2>0
  <2>2. R!Commit(docs2, grants) /\ UNCHANGED nextChunk
    BY <1>4 DEF R!DeleteOrRestore, r
  <2> HIDE DEF docs2
  <2> QED BY <1>1, <2>1, <2>2, CorpusChanges
<1>5. CASE R!UpdatePermissions(d)
  <2>1. PICK S \in SUBSET Users : R!Commit(docs, [grants EXCEPT ![d] = S]) /\ UNCHANGED nextChunk
    BY <1>5 DEF R!UpdatePermissions
  <2> QED BY <1>1, <2>1, CorpusChanges
<1> QED BY <1>2, <1>3, <1>4, <1>5

\* Nothing is known under a version that is only now set.
LEMMA VersionIsSet ==
    ASSUME RetrievalInv, NEW w \in bumps, R!InvalidateSimilarChunks(w)
    PROVE  RetrievalInv'
<1>1. /\ bumps' = bumps \ {w} /\ ((version' = w /\ lost' = FALSE) \/ (version' = version /\ lost' = TRUE))
      /\ UNCHANGED <<docs, grants, nextChunk, cache, answerCalls, changed>>
  BY DEF R!InvalidateSimilarChunks, R!FreshVersion
<1>2. w \in 1 .. changed /\ w \notin SetVersions /\ w # Unknown /\ changed \in Nat
  BY RetrievalNumbers DEF RetrievalInv, SetVersions
<1>3. SetVersions' = SetVersions \cup {w} /\ version' \in SetVersions'
  BY <1>1, <1>2 DEF RetrievalInv, SetVersions
<1>4. ~UpToDate
  BY DEF UpToDate
<1>5. \A v \in SetVersions \cup {Unknown} : ~(UpToDate' /\ v = version')
  BY <1>1, <1>2 DEF UpToDate
<1>6. CacheIsTrue'
  BY <1>1, <1>5 DEF RetrievalInv, CacheIsTrue
<1>7. \A u : R!Readable(u)' = R!Readable(u)
  BY <1>1 DEF R!Readable, R!ChunkOf, R!MayRead
<1>8. \A c \in answerCalls : Current(c)'
  BY <1>4, <1>5, <1>7 DEF RetrievalInv, Current
<1> QED BY <1>1, <1>3, <1>6, <1>8 DEF RetrievalInv

LEMMA NextRetrieval == RetrievalInv /\ R!Next => RetrievalInv'
<1> SUFFICES ASSUME RetrievalInv, R!Next PROVE RetrievalInv'
  OBVIOUS
<1>1. ASSUME NEW c \in answerCalls, R!GenerateAnswer(c) PROVE RetrievalInv'
  BY <1>1, QuestionEnds DEF R!GenerateAnswer
<1> QED BY <1>1, QuestionComes, DocumentsChange, VersionIsSet, VersionIsRead, ChunksAreRead,
           SearchFinds, ChunksAreWritten, ChunksAreValidated DEF R!Next

LEMMA IdleRetrieval == RetrievalInv /\ UNCHANGED retrievalVars => RetrievalInv'
<1> SUFFICES ASSUME RetrievalInv, UNCHANGED retrievalVars PROVE RetrievalInv'
  OBVIOUS
<1>1. UNCHANGED <<docs, grants, nextChunk, version, cache, answerCalls, bumps, changed, lost>>
  BY DEF retrievalVars
<1> QED BY <1>1, SameCorpus DEF RetrievalInv, SetVersions, CacheIsTrue

LEMMA PartsRetrieval == PartsSpec => []RetrievalInv
<1>1. PartsInit => RetrievalInv
  BY InitRetrieval DEF PartsInit
<1>2. RetrievalInv /\ [PartsNext]_<<part, vars, accountVars, retrievalVars>> => RetrievalInv'
  BY NextRetrieval, IdleRetrieval DEF PartsNext
<1> QED BY <1>1, <1>2, PTL DEF PartsSpec

(***************************************************************************)
(* Whatever the cache held, and however many invalidations were lost, the  *)
(* sources of an answer are chunks its user could read, as they were, all  *)
(* at one moment while the question was handled (generateAnswer,           *)
(* validateSimilarChunks).                                                 *)
(***************************************************************************)
THEOREM SourcesAreReadable == PartsSpec => []SourcesWereReadable
<1>1. RetrievalInv => SourcesWereReadable
  BY DEF RetrievalInv, Asking, SourcesWereReadable, R!SourcesWereReadable
<1> QED BY <1>1, PartsRetrieval, PTL

(***************************************************************************)
(* A question asked while the version is up to date, and answered before   *)
(* anything changes, gets the chunks a search of all its user may read     *)
(* would have found: reading, searching and writing the layers of the      *)
(* cache one by one costs no answer.                                       *)
(***************************************************************************)
THEOREM CacheCostsNoAnswer == PartsSpec => []CacheIsTransparent
<1>1. RetrievalInv => CacheIsTransparent
  BY DEF RetrievalInv, Asking, CacheIsTransparent, R!CacheIsTransparent
<1> QED BY <1>1, PartsRetrieval, PTL
=============================================================================
