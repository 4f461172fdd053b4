------------------------------ MODULE MCSignIn ------------------------------
(***************************************************************************)
(* SignIn, Accounts and ChatRetrieval in one run: users, their tokens and  *)
(* what their questions are answered from.  They share no state, so each   *)
(* behaviour is of one of them, its part, while the others stay as they    *)
(* were.                                                                   *)
(***************************************************************************)
EXTENDS SignIn, TLC

CONSTANTS
    MaxAtOnce, Passwords, Weak,
    Docs, MaxQuestions, MaxChanges, Similarity, MinScore, TopK, Nobody, Unknown

VARIABLES
    part,
    users, password, otp, reset, accountCalls, accountIssued, mailed, opened, recovered,
    docs, grants, nextChunk, version, cache, answerCalls, bumps, asked, changed, lost

accountVars ==
    <<users, password, otp, reset, accountCalls, accountIssued, mailed, opened, recovered>>
retrievalVars ==
    <<docs, grants, nextChunk, version, cache, answerCalls, bumps, asked, changed, lost>>

\* One request more than SignIn gets: a registration and two recoveries.
A == INSTANCE Accounts WITH Emails <- Users, MaxRequests <- MaxRequests + 1,
                            calls <- accountCalls, issued <- accountIssued

R == INSTANCE ChatRetrieval WITH calls <- answerCalls

ASSUME PartsAssumption == A!AccountsAssumption /\ R!ChatRetrievalAssumption

\* A part that sleeps starts in one state only.
PartsInit ==
    /\ part \in {"tokens", "accounts", "retrieval"}
    /\ Init /\ A!Init /\ R!Init
    /\ part # "retrieval" =>
         \A d \in Docs : docs[d].scope = "Public" /\ docs[d].status = "Ready"

PartsNext ==
    /\ UNCHANGED part
    /\ \/ part = "tokens" /\ Next /\ UNCHANGED <<accountVars, retrievalVars>>
       \/ part = "accounts" /\ A!Next /\ UNCHANGED <<vars, retrievalVars>>
       \/ part = "retrieval" /\ R!Next /\ UNCHANGED <<vars, accountVars>>

PartsSpec == PartsInit /\ [][PartsNext]_<<part, vars, accountVars, retrievalVars>>

Symmetry == Permutations(Users)

\* Every text is just as near as the threshold asks: ids decide.
EqualSimilarity == [d \in Docs |-> MinScore]

\* Of Accounts: a password is recovered with a code mailed to its address.
RecoveredByMailedCode == A!RecoveredByMailedCode

\* Of Accounts: codes and reset tokens are spent twice only by a race.
SpentTwiceOnlyByRace == A!SpentTwiceOnlyByRace

\* Of ChatRetrieval: sources could be read when they were validated.
SourcesWereReadable == R!SourcesWereReadable

\* Of ChatRetrieval: the cache changes nothing but the time.
CacheIsTransparent == R!CacheIsTransparent
=============================================================================
