------------------------------ MODULE Accounts ------------------------------
(***************************************************************************)
(* The table of users: registration, accounts made by an administrator,    *)
(* change of password, and recovery by a mailed code that is exchanged for *)
(* a reset token that is exchanged for a new password.                     *)
(*                                                                         *)
(* Codes and reset tokens live in the cache, one of each per address.      *)
(* Every call to the database, the cache or the mail server is a step.     *)
(***************************************************************************)
EXTENDS Integers, FiniteSets

CONSTANTS
    Emails,
    MaxRequests,   \* bound: requests; the id of one names what it makes up
    MaxAtOnce,     \* bound: handlers in flight
    Passwords,     \* passwords people choose
    Weak           \* those that validateInformation refuses

AccountsAssumption ==
    /\ MaxRequests \in Nat /\ MaxAtOnce \in Nat /\ Weak \subseteq Passwords
    /\ Passwords \subseteq Nat \ (0 .. MaxRequests)

VARIABLES
    users,      \* rows: <<request that inserted it, email>>
    password,   \* of each address; a request stands for the one made up for it
    otp,        \* cached code of each address, 0 if there is none
    reset,      \* cached reset token of each address
    calls, issued,
    mailed,     \* history: codes that were delivered, with their address
    opened,     \* history: <<code, reset token>>: what verification gave out
    recovered   \* history: <<reset token, request>>: passwords written for it

vars == <<users, password, otp, reset, calls, issued, mailed, opened, recovered>>

Ids == 1 .. MaxRequests
None == 0

\* made: a code, a reset token or a password that is this handler's own is its
\* id.  shown: the code or the reset token the client has sent.
\* raced (history): another handler has deleted that since it was compared.
Call == [id: Ids, op: {"register", "admin", "otp", "verify", "recover", "set"},
         email: Emails, shown: 0 .. MaxRequests, old: Passwords \cup Ids \cup {None},
         new: Passwords \cup {None}, raced: BOOLEAN,
         pc: {"check", "insert", "user", "store", "mail", "withdraw", "code",
              "spend", "open", "token", "burn", "read", "write"}]

Move(c, c2) == calls' = (calls \ {c}) \cup {c2}
Finish(c) == calls' = calls \ {c}

\* c deletes what d has compared, too, and has not got through with.
MoveRacing(c, c2) ==
    calls' = {[d EXCEPT !.raced = @ \/ (d.op = c.op /\ d.shown = c.shown
                                        /\ d.pc \in {"spend", "open", "burn", "write"})] :
                 d \in calls \ {c}} \cup {c2}

Known(e) == \E u \in users : u[2] = e

Start(op, e, shown, old, new, pc) ==
    /\ issued < MaxRequests /\ Cardinality(calls) < MaxAtOnce /\ issued' = issued + 1
    /\ calls' = calls \cup {[id |-> issued', op |-> op, email |-> e, shown |-> shown,
                             old |-> old, new |-> new, raced |-> FALSE, pc |-> pc]}
    /\ UNCHANGED <<users, password, otp, reset, mailed, opened, recovered>>

Init ==
    /\ users = {} /\ password = [e \in Emails |-> None]
    /\ otp = [e \in Emails |-> None] /\ reset = [e \in Emails |-> None]
    /\ calls = {} /\ issued = 0 /\ mailed = {} /\ opened = {} /\ recovered = {}

-----------------------------------------------------------------------------
(* New accounts.  The handler of an administrator mails the password it    *)
(* made up and does not mind if that fails.                                *)

StartRegister(e, p) == Start("register", e, None, None, p, "check")
StartAdminCreate(e) == Start("admin", e, None, None, None, "check")

CheckUserExistsByEmail(c) ==
    /\ c.pc = "check"
    /\ IF Known(c.email) \/ c.new \in Weak
       THEN Finish(c) ELSE Move(c, [c EXCEPT !.pc = "insert"])
    /\ UNCHANGED <<users, password, otp, reset, issued, mailed, opened, recovered>>

FirstPassword(c) == IF c.new = None THEN c.id ELSE c.new

\* email is unique: the loser's insert fails.
EmailTaken(c) == Known(c.email)

AddUser(c) ==
    /\ c.pc = "insert"
    /\ IF EmailTaken(c) THEN UNCHANGED <<users, password>>
       ELSE /\ users' = users \cup {<<c.id, c.email>>}
            /\ password' = [password EXCEPT ![c.email] = FirstPassword(c)]
    /\ Finish(c)
    /\ UNCHANGED <<otp, reset, issued, mailed, opened, recovered>>

-----------------------------------------------------------------------------
(* Recovery *)

StartSendOtp(e) == Start("otp", e, None, None, None, "user")
StartVerifyOtp(e, shown) == Start("verify", e, shown, None, None, "user")
StartRecover(e, shown, p) == Start("recover", e, shown, None, p, "user")

\* An unknown address is refused.
GetUserByEmail(c) ==
    /\ c.pc = "user"
    /\ IF ~Known(c.email) THEN Finish(c)
       ELSE Move(c, [c EXCEPT !.pc = CASE c.op = "otp" -> "store"
                                       [] c.op = "verify" -> "code"
                                       [] c.op = "recover" -> "token"])
    /\ UNCHANGED <<users, password, otp, reset, issued, mailed, opened, recovered>>

\* A new code takes the place of the one before.
StoreOtp(c) ==
    /\ c.pc = "store"
    /\ otp' = [otp EXCEPT ![c.email] = c.id]
    /\ Move(c, [c EXCEPT !.pc = "mail"])
    /\ UNCHANGED <<users, password, reset, issued, mailed, opened, recovered>>

MailOtp(c) ==
    /\ c.pc = "mail"
    /\ \/ mailed' = mailed \cup {<<c.id, c.email>>} /\ Finish(c)
       \/ Move(c, [c EXCEPT !.pc = "withdraw"]) /\ UNCHANGED mailed
    /\ UNCHANGED <<users, password, otp, reset, issued, opened, recovered>>

\* The key is deleted, whosever code is in it by now.
WithdrawOtp(c) ==
    /\ c.pc = "withdraw"
    /\ otp' = [otp EXCEPT ![c.email] = None]
    /\ Finish(c)
    /\ UNCHANGED <<users, password, reset, issued, mailed, opened, recovered>>

CodeFits(c) == otp[c.email] = c.shown /\ otp[c.email] # None

CompareOtp(c) ==
    /\ c.pc = "code"
    /\ IF CodeFits(c) THEN Move(c, [c EXCEPT !.pc = "spend"]) ELSE Finish(c)
    /\ UNCHANGED <<users, password, otp, reset, issued, mailed, opened, recovered>>

DeleteOtp(c) ==
    /\ c.pc = "spend"
    /\ otp' = [otp EXCEPT ![c.email] = None]
    /\ MoveRacing(c, [c EXCEPT !.pc = "open"])
    /\ UNCHANGED <<users, password, reset, issued, mailed, opened, recovered>>

StoreResetToken(c) ==
    /\ c.pc = "open"
    /\ reset' = [reset EXCEPT ![c.email] = c.id]
    /\ opened' = opened \cup {<<c.shown, c.id>>}
    /\ Finish(c)
    /\ UNCHANGED <<users, password, otp, issued, mailed, recovered>>

VerifyOtp(c) == CompareOtp(c) \/ DeleteOtp(c) \/ StoreResetToken(c)

\* Mutant of TokenFits: the token is looked up without the address.
TokenFitsAnyone(c) == \E e \in Emails : reset[e] = c.shown

TokenFits(c) == reset[c.email] = c.shown /\ reset[c.email] # None

CompareResetToken(c) ==
    /\ c.pc = "token"
    /\ IF TokenFits(c) THEN Move(c, [c EXCEPT !.pc = "burn"]) ELSE Finish(c)
    /\ UNCHANGED <<users, password, otp, reset, issued, mailed, opened, recovered>>

\* Mutant of ResetSpent: the token can be used again.
ResetSpentNever(c) == reset

ResetSpent(c) == [reset EXCEPT ![c.email] = None]

\* The token is gone even if the password cannot be written afterwards.
DeleteResetToken(c) ==
    /\ c.pc = "burn"
    /\ reset' = ResetSpent(c)
    /\ MoveRacing(c, [c EXCEPT !.pc = "write"])
    /\ UNCHANGED <<users, password, otp, issued, mailed, opened, recovered>>

RecoverPassword(c) == CompareResetToken(c) \/ DeleteResetToken(c)

-----------------------------------------------------------------------------
(* Change of password *)

StartSetPassword(e, old, p) == Start("set", e, None, old, p, "read")

ComparePassword(c) ==
    /\ c.pc = "read"
    /\ IF Known(c.email) /\ password[c.email] = c.old
       THEN Move(c, [c EXCEPT !.pc = "write"]) ELSE Finish(c)
    /\ UNCHANGED <<users, password, otp, reset, issued, mailed, opened, recovered>>

UpdatePassword(c) ==
    /\ c.pc = "write"
    /\ password' = [password EXCEPT ![c.email] = c.new]
    /\ recovered' = IF c.op = "recover" THEN recovered \cup {<<c.shown, c.id>>} ELSE recovered
    /\ Finish(c)
    /\ UNCHANGED <<users, otp, reset, issued, mailed, opened>>

\* A call that fails ends the handler; mail() has an arm of its own for it.
Fail(c) ==
    /\ c.pc # "mail" /\ Finish(c)
    /\ UNCHANGED <<users, password, otp, reset, issued, mailed, opened, recovered>>

\* OTP_TTL_MS, RESET_TOKEN_TTL_MS
Expire(e) ==
    /\ \/ otp' = [otp EXCEPT ![e] = None] /\ UNCHANGED reset
       \/ reset' = [reset EXCEPT ![e] = None] /\ UNCHANGED otp
    /\ UNCHANGED <<users, password, calls, issued, mailed, opened, recovered>>

-----------------------------------------------------------------------------
\* Clients send codes they were mailed and tokens they were given; the DTOs
\* refuse a weak new password.
Next ==
    \/ \E e \in Emails :
        \/ (\E p \in Passwords : StartRegister(e, p)) \/ StartAdminCreate(e) \/ StartSendOtp(e)
        \/ \E m \in mailed : StartVerifyOtp(e, m[1])
        \/ \E p \in Passwords \ Weak :
              \/ \E o \in opened : StartRecover(e, o[2], p)
              \/ \E old \in Passwords \cup {u[1] : u \in users} : StartSetPassword(e, old, p)
    \/ \E c \in calls :
        \/ CheckUserExistsByEmail(c) \/ AddUser(c) \/ GetUserByEmail(c)
        \/ StoreOtp(c) \/ MailOtp(c) \/ WithdrawOtp(c) \/ VerifyOtp(c)
        \/ RecoverPassword(c) \/ ComparePassword(c) \/ UpdatePassword(c) \/ Fail(c)
    \/ \E e \in Emails : Expire(e)

Spec == Init /\ [][Next]_vars

-----------------------------------------------------------------------------
TypeOK ==
    /\ users \subseteq Ids \X Emails /\ password \in [Emails -> Passwords \cup Ids \cup {None}]
    /\ otp \in [Emails -> 0 .. MaxRequests] /\ reset \in [Emails -> 0 .. MaxRequests]
    /\ calls \subseteq Call /\ issued \in 0 .. MaxRequests
    /\ mailed \subseteq Ids \X Emails /\ opened \subseteq Ids \X Ids
    /\ recovered \subseteq Ids \X Ids /\ \A u \in users : password[u[2]] # None

(***************************************************************************)
(* A recovery writes a password only with a token that was given out for a *)
(* code delivered to the same address, however codes, tokens and requests  *)
(* of several addresses cross (verifyOtpAsync, recoverPasswordAsync).      *)
(***************************************************************************)
RecoveredByMailedCode ==
    \A c \in calls : c.op = "recover" /\ c.pc \in {"burn", "write"} =>
        \E o \in opened : o[2] = c.shown /\ <<o[1], c.email>> \in mailed

(***************************************************************************)
(* A code opens a second recovery, and a reset token writes a second       *)
(* password, only for a handler that had compared it before another one    *)
(* deleted it: each is read, compared and deleted in separate calls.       *)
(***************************************************************************)
SpentTwiceOnlyByRace ==
    [][\A c \in calls \ calls' :
        \/ <<c.shown, c.id>> \in opened' \ opened /\ (\E o \in opened : o[1] = c.shown)
        \/ <<c.shown, c.id>> \in recovered' \ recovered /\ (\E o \in recovered : o[1] = c.shown)
        => c.raced]_vars
=============================================================================
